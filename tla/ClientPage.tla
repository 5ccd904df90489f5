----------------------------- MODULE ClientPage -----------------------------
(***************************************************************************)
(* The secure client in one browser (web/static/secure/client.js).  Each   *)
(* form, button or load runs an asynchronous function, which stops at      *)
(* every request.  The server answers requests in any order, each with the *)
(* cookie it was sent with; a function goes on when its answer arrives,    *)
(* over whatever the others have done meanwhile.  Elements that show no    *)
(* pickup code and the roles are left out: what the page offers to         *)
(* supervisors only, anybody may do here.                                  *)
(***************************************************************************)
EXTENDS Naturals, Sequences

CONSTANTS
  None,
  Person, Order,
  Owner,             \* Order -> Person
  Call,              \* asynchronous functions that may be under way at once
  MaxLogins,         \* bound on the logins that succeed
  MaxActs, MaxHasty  \* bounds on loads, forms and buttons: in all, and once
                     \* somebody did not wait

ASSUME PageAssumption ==
  /\ Owner \in [Order -> Person]
  /\ None \notin Person
  /\ MaxLogins \in Nat
  /\ MaxActs \in Nat
  /\ MaxHasty \in Nat

VARIABLES
  desk,    \* Order -> "waiting" (or not placed yet), "released" or "gone"
  who,     \* the logins so far, in order: a cookie is an index, 0 is none
  live,    \* cookies whose session row exists and has not expired
  cookie,  \* the cookie the browser holds
  view,    \* the section that is visible: "blank", "login" or "app"
  me,      \* client.js's me
  pickups, \* the orders whose codes the my-pickups element shows
  call,    \* Call -> the request that each function waits for
  acts,    \* loads, forms and buttons so far
  cut,     \* history: a load, sign-in or sign-out was cut short, and no
           \* refresh has ended since
  hasty    \* history: somebody did not wait for the page to come to rest

pageVars == <<desk, who, live, cookie, view, me, pickups, call, acts, cut, hasty>>

\* login and logout are sent by the two buttons, the forms' requests by the
\* forms; me by refresh; lists stands for the requests that only fill elements
\* without codes: the catalogue, the work orders and the queue in refresh, the
\* queue after a form; queue and codes are those of renderMyPickups.
Form == {"pickup", "order", "decision"}
Await == {"nothing", "login", "logout", "me", "lists", "queue", "codes"} \cup Form
Rest == {"all", "codes", "none"}
Status == {"ok", "refused", "bare"}

\* tail: what follows the lists, all that refresh does, only renderMyPickups, or
\* nothing.  status: an answer with rows, one whose body is not a list, or one
\* with no rows (an empty list, or a handler that raised: api's body is null).
\* person: whose answer it is; orders: the queue that was answered, or the details
\* still asked for; shown: codes answered.
Request == [await : Await, tail : Rest, cookie : Nat, person : Person \cup {None},
  served : BOOLEAN, status : Status, orders : SUBSET Order, shown : SUBSET Order]

Asks(await, tail, with, person) ==
  [await |-> await, tail |-> tail, cookie |-> with, person |-> person,
   served |-> FALSE, status |-> "ok", orders |-> {}, shown |-> {}]

Nothing == Asks("nothing", "none", 0, None)

AtRest == \A k \in Call : call[k] = Nothing
-----------------------------------------------------------------------------
Begins ==
  /\ acts < MaxActs
  /\ acts' = acts + 1
  /\ hasty' = (hasty \/ ~AtRest)
  /\ hasty' => acts < MaxHasty

\* A load, form or button: the function's first request is sent at once.
Act(k, await, tail, person) ==
  /\ call[k] = Nothing
  /\ Begins
  /\ call' = [call EXCEPT ![k] = Asks(await, tail, cookie, person)]
  /\ UNCHANGED <<desk, who, live, cookie, view, me, pickups, cut>>

SignIn(k) == view = "login" /\ \E p \in Person : Act(k, "login", "all", p)
SignOut(k) == view = "app" /\ Act(k, "logout", "all", None)
UseCode(k) == view = "app" /\ Act(k, "pickup", "codes", None)
PlaceOrder(k) == view = "app" /\ Act(k, "order", "none", None)
Decide(k) == view = "app" /\ Act(k, "decision", "none", None)

\* The document is loaded again: the functions under way are gone with it.
Load(k) ==
  /\ Begins
  /\ call' = [j \in Call |-> IF j = k THEN Asks("me", "all", cookie, None) ELSE Nothing]
  /\ view' = "blank" /\ me' = None /\ pickups' = {}
  /\ cut' = FALSE
  /\ UNCHANGED <<desk, who, live, cookie>>
-----------------------------------------------------------------------------
Waits(k, await) == call[k].await = await /\ ~call[k].served

\* Whether the request's cookie names a session (current_actor).
LoggedIn(k) == call[k].cookie \in live

Answer(k, status, person, orders) ==
  call' = [call EXCEPT ![k].served = TRUE, ![k].status = status, ![k].person = person,
    ![k].orders = orders]

ServeLogin(k) ==
  /\ Waits(k, "login")
  /\ \/ /\ Len(who) < MaxLogins
        /\ who' = Append(who, call[k].person)
        /\ live' = live \cup {Len(who')}
        /\ call' = [call EXCEPT ![k].served = TRUE, ![k].cookie = Len(who')]
     \/ /\ Answer(k, "refused", None, {})
        /\ UNCHANGED <<who, live>>
  /\ UNCHANGED desk

\* A handler that raised has deleted neither the row nor the cookie.
ServeLogout(k) ==
  /\ Waits(k, "logout")
  /\ \/ live' = live \ {call[k].cookie} /\ Answer(k, "ok", None, {})
     \/ UNCHANGED live /\ Answer(k, "bare", None, {})
  /\ UNCHANGED <<desk, who>>

\* A form is refused, or it changes an order: a code of the account's own is
\* used up, the account's own order is placed, another's is decided.  No function
\* looks further at the answer.
ServeForm(k) ==
  /\ \E await \in Form : Waits(k, await)
  /\ Answer(k, "ok", None, {})
  /\ \/ UNCHANGED desk
     \/ LoggedIn(k) /\ \E o \in Order :
          LET own == Owner[o] = who[call[k].cookie]
          IN \/ /\ call[k].await = "pickup" /\ own /\ desk[o] = "released"
                /\ desk' = [desk EXCEPT ![o] = "gone"]
             \/ /\ call[k].await = "order" /\ own /\ desk[o] = "waiting"
                /\ desk' = [desk EXCEPT ![o] = "released"]
             \/ /\ call[k].await = "decision" /\ ~own /\ desk[o] = "waiting"
                /\ \E s \in {"released", "gone"} : desk' = [desk EXCEPT ![o] = s]
  /\ UNCHANGED <<who, live>>

ServeRead(k) ==
  /\ \E await \in {"me", "lists", "queue"} : Waits(k, await)
  /\ \/ /\ LoggedIn(k)
        /\ Answer(k, "ok", who[call[k].cookie], {o \in Order : desk[o] = "released"})
     \/ ~LoggedIn(k) /\ Answer(k, "refused", None, {})
     \/ Answer(k, "bare", None, {})
  /\ UNCHANGED <<desk, who, live>>

\* One of the order details; a refused one has no code to show.
ServeCode(k) ==
  /\ Waits(k, "codes")
  /\ \E o \in call[k].orders, raised \in BOOLEAN :
       LET sees == LoggedIn(k) /\ desk[o] = "released" /\ Owner[o] = who[call[k].cookie]
       IN call' = [call EXCEPT ![k].orders = @ \ {o},
            ![k].served = (call[k].orders = {o}),
            ![k].status = IF raised THEN "bare" ELSE @,
            ![k].shown = IF sees /\ ~raised THEN @ \cup {o} ELSE @]
  /\ UNCHANGED <<desk, who, live>>

Serve(k) ==
  /\ ServeLogin(k) \/ ServeLogout(k) \/ ServeForm(k) \/ ServeRead(k) \/ ServeCode(k)
  /\ UNCHANGED <<cookie, view, me, pickups, acts, cut, hasty>>
-----------------------------------------------------------------------------
Arrived(k, await) == call[k].await = await /\ call[k].served

Goes(k, request) == call' = [call EXCEPT ![k] = request] /\ UNCHANGED cut

\* The function ends, or an exception that nobody catches ends it.
Ends(k) == Goes(k, Nothing)
Refreshed(k) == call' = [call EXCEPT ![k] = Nothing] /\ cut' = FALSE
CutShort(k) ==
  /\ call' = [call EXCEPT ![k] = Nothing]
  /\ cut' = (cut \/ call[k].tail = "all")

AfterLogin(k) ==
  /\ Arrived(k, "login")
  /\ IF call[k].status = "ok"
     THEN cookie' = call[k].cookie /\ Goes(k, Asks("me", "all", cookie', None))
     ELSE UNCHANGED cookie /\ Ends(k)
  /\ UNCHANGED <<view, me, pickups>>

\* Mutant: the page is not refreshed after the logout.
AfterLogoutQuiet(k) ==
  /\ Arrived(k, "logout")
  /\ cookie' = IF call[k].status = "ok" THEN 0 ELSE cookie
  /\ Ends(k)
  /\ UNCHANGED <<view, me, pickups>>

AfterLogout(k) ==
  /\ Arrived(k, "logout")
  /\ cookie' = IF call[k].status = "ok" THEN 0 ELSE cookie
  /\ Goes(k, Asks("me", "all", cookie', None))
  /\ UNCHANGED <<view, me, pickups>>

AfterForm(k) ==
  /\ \E await \in Form : Arrived(k, await)
  /\ Goes(k, Asks("lists", call[k].tail, cookie, None))
  /\ UNCHANGED <<cookie, view, me, pickups>>

\* Mutant: a refused refresh leaves me as it was.
AfterMeKept(k) ==
  /\ Arrived(k, "me")
  /\ IF call[k].status = "ok"
     THEN /\ me' = call[k].person /\ view' = "app"
          /\ Goes(k, Asks("lists", "all", cookie, None))
     ELSE view' = "login" /\ Refreshed(k) /\ UNCHANGED me
  /\ UNCHANGED <<cookie, pickups>>

AfterMe(k) ==
  /\ Arrived(k, "me")
  /\ IF call[k].status = "ok"
     THEN /\ me' = call[k].person /\ view' = "app"
          /\ Goes(k, Asks("lists", "all", cookie, None))
     ELSE me' = None /\ view' = "login" /\ Refreshed(k)
  /\ UNCHANGED <<cookie, pickups>>

\* The body of a refusal is an object: it has no map and no filter.
AfterLists(k) ==
  /\ Arrived(k, "lists")
  /\ CASE call[k].status = "refused" -> CutShort(k)
       [] call[k].status # "refused" /\ call[k].tail = "none" -> Ends(k)
       [] OTHER -> Goes(k, Asks("queue", call[k].tail, cookie, None))
  /\ UNCHANGED <<cookie, view, me, pickups>>

\* The filter reads me now, not when the queue was asked for, and only if it has
\* rows to look at.
AfterQueue(k) ==
  /\ Arrived(k, "queue")
  /\ LET mine == {o \in call[k].orders : Owner[o] = me}
     IN IF call[k].status = "bare" \/ (call[k].status = "ok" /\ me # None)
        THEN Goes(k, [Asks("codes", call[k].tail, cookie, None) EXCEPT
               !.orders = mine, !.served = (mine = {})])
        ELSE CutShort(k)
  /\ UNCHANGED <<cookie, view, me, pickups>>

\* refresh then reads me.role.
AfterCodesThen(k) ==
  CASE call[k].tail = "all" /\ me = None -> CutShort(k)
    [] call[k].tail = "all" /\ me # None -> Refreshed(k)
    [] OTHER -> Ends(k)

\* Mutant: the codes are added to the element, not put in its place.
AfterCodesAdded(k) ==
  /\ Arrived(k, "codes")
  /\ IF call[k].status = "ok"
     THEN pickups' = pickups \cup call[k].shown /\ AfterCodesThen(k)
     ELSE UNCHANGED pickups /\ CutShort(k)
  /\ UNCHANGED <<cookie, view, me>>

\* A detail whose body is null has no id: nothing is rendered.
AfterCodes(k) ==
  /\ Arrived(k, "codes")
  /\ IF call[k].status = "ok"
     THEN pickups' = call[k].shown /\ AfterCodesThen(k)
     ELSE UNCHANGED pickups /\ CutShort(k)
  /\ UNCHANGED <<cookie, view, me>>

\* The request, its answer or the answer's body is lost, and fetch or json raises;
\* the header that sets or deletes the cookie may have arrived.
Lost(k) ==
  /\ call[k] # Nothing
  /\ CutShort(k)
  /\ \/ UNCHANGED cookie
     \/ call[k].status = "ok" /\ Arrived(k, "login") /\ cookie' = call[k].cookie
     \/ call[k].status = "ok" /\ Arrived(k, "logout") /\ cookie' = 0
  /\ UNCHANGED <<view, me, pickups>>

Arrive(k) ==
  /\ \/ AfterLogin(k) \/ AfterLogout(k) \/ AfterForm(k) \/ AfterMe(k)
     \/ AfterLists(k) \/ AfterQueue(k) \/ AfterCodes(k) \/ Lost(k)
  /\ UNCHANGED <<desk, who, live, acts, hasty>>
-----------------------------------------------------------------------------
Expire ==
  /\ \E c \in live : live' = live \ {c}
  /\ UNCHANGED <<desk, who, cookie, view, me, pickups, call, acts, cut, hasty>>

\* What other browsers do: an order is placed, released, collected or rejected.
Elsewhere ==
  /\ \E o \in Order : \/ desk[o] = "waiting" /\ desk' = [desk EXCEPT ![o] = "released"]
                      \/ desk[o] # "gone" /\ desk' = [desk EXCEPT ![o] = "gone"]
  /\ UNCHANGED <<who, live, cookie, view, me, pickups, call, acts, cut, hasty>>

PageInit ==
  /\ desk = [o \in Order |-> "waiting"]
  /\ who = <<>> /\ live = {} /\ cookie = 0
  /\ view = "blank" /\ me = None /\ pickups = {}
  /\ \E k \in Call :
       call = [j \in Call |-> IF j = k THEN Asks("me", "all", 0, None) ELSE Nothing]
  /\ acts = 0 /\ cut = FALSE /\ hasty = FALSE

AtBound ==
  /\ AtRest
  /\ acts = MaxActs \/ (hasty /\ acts >= MaxHasty)
  /\ UNCHANGED pageVars

PageNext ==
  \/ \E k \in Call : \/ SignIn(k) \/ SignOut(k) \/ UseCode(k) \/ PlaceOrder(k)
                     \/ Decide(k) \/ Load(k) \/ Serve(k) \/ Arrive(k)
  \/ Expire \/ Elsewhere \/ AtBound

PageSpec == PageInit /\ [][PageNext]_pageVars
-----------------------------------------------------------------------------
\* The page's variables are what they seem, and it names a user exactly when it
\* shows the application: refresh never leaves one without the other.
PageTypeOK ==
  /\ desk \in [Order -> {"waiting", "released", "gone"}]
  /\ who \in Seq(Person) /\ live \subseteq 1 .. Len(who) /\ cookie \in 0 .. Len(who)
  /\ me \in Person \cup {None} /\ view \in {"blank", "login", "app"}
  /\ view = "app" <=> me # None
  /\ pickups \subseteq Order
  /\ call \in [Call -> Request]
  /\ acts \in 0 .. MaxActs /\ cut \in BOOLEAN /\ hasty \in BOOLEAN

\* The codes of two people are never mixed: the details that renderMyPickups
\* shows were asked for together, with one cookie, and take the place of the
\* codes before them, whatever else the page was doing.
OnePersonsCodes == \A o, p \in pickups : Owner[o] = Owner[p]

\* If its users wait for the page to come to rest, and no load, sign-in or sign-out
\* was cut short since the last refresh that ended, then at every rest it names the
\* user its cookie is of and shows only codes of theirs: sign-out and every sign-in
\* end in a refresh, and what the forms do after that, cut short or not, leaves
\* nobody else's codes.
SettledShowsOwn ==
  AtRest /\ ~hasty /\ ~cut /\ view = "app" =>
    /\ cookie # 0 /\ who[cookie] = me
    /\ \A o \in pickups : Owner[o] = me
=============================================================================
