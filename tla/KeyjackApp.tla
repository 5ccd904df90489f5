----------------------------- MODULE KeyjackApp -----------------------------
(***************************************************************************)
(* The secure application behind its door: sessions, login and logout      *)
(* (register_auth), the look-up that turns a cookie into an actor, and the *)
(* reads (register_reads).  Every request of SecureApp comes from here.    *)
(*                                                                         *)
(* login is a coroutine that awaits nothing once its body is parsed: from  *)
(* the account read to its commit it occupies the event loop, so there is  *)
(* at most one login under way, beside the threads.  The DELETE or INSERT  *)
(* of these handlers is followed at once by its commit, so taking and      *)
(* releasing the write lock is one step.                                   *)
(***************************************************************************)
EXTENDS SecureApp

CONSTANTS
  Token,       \* session tokens; random, never issued twice
  SessionTTL,  \* settings.session_ttl_seconds, in ticks
  MaxLogins    \* bound: login requests received

ASSUME SessionsAssumption ==
  /\ SessionTTL \in Nat
  /\ MaxLogins \in Nat

(* A row of the sessions table.                                             *)
Session == [account : Account, expires_at : Nat]

(* What a thread knows before its handler has started anything: nothing,    *)
(* the actor of its request, the row a logout read and has yet to delete,   *)
(* or the order an owner asked for, whose code is not read yet.             *)
Entry ==
  [pc : {"none"}]
    \cup [pc : {"actor"}, actor : Account]
    \cup [pc : {"logout"}, token : Token]
    \cup [pc : {"detail"}, actor : Account, order : OrderId]

(* The login on the event loop: none, waiting to write its outcome, or with *)
(* its refusal saved and not yet answered.                                  *)
Login ==
  [pc : {"none"}]
    \cup [pc : {"open"}, account : Account, at : Nat]
    \cup [pc : {"refuse", "answer"}]

VARIABLES
  sessions,  \* the sessions table: from the tokens in it to Session
  entry,     \* Worker -> Entry
  login,     \* the login that occupies the event loop
  failed,    \* login_failed events: log lines, rows, 401 answers; and all logins
  issued,    \* history: tokens ever handed out
  ended,     \* history: tokens whose logout was answered
  proven,    \* history: accounts whose password was presented
  shown      \* history: released orders shown to their owner, with the code shown

site == <<sessions, entry, login, failed, issued, ended, proven, shown>>
allVars == <<vars, site>>

Failed == [lines : Nat, rows : Nat, answers : Nat, logins : Nat]

Detail == [account : Account, order : OrderId, code : CodeId \cup {None}]

SiteTypeOK ==
  /\ DOMAIN sessions \subseteq issued
  /\ sessions \in [DOMAIN sessions -> Session]
  /\ entry \in [Worker -> Entry]
  /\ \A w \in Worker : entry[w].pc = "logout" => entry[w].token \in issued
  /\ login \in Login
  /\ failed \in Failed
  /\ issued \subseteq Token
  /\ ended \subseteq issued
  /\ proven \subseteq Account
  /\ shown \subseteq Detail
-----------------------------------------------------------------------------
Nobody == [pc |-> "none"]

Free(w) == entry[w] = Nobody /\ task[w].pc = "idle"

\* The session row exists and is not past its expiry.
ValidSession(t) == t \in DOMAIN sessions /\ ~(sessions[t].expires_at < now)

\* Mutants: any password opens any account; the decoy's verdict is believed.
CredentialOkAnyPassword(claim, password) == claim \in Account

CredentialOkDecoy(claim, password) == password = claim

\* _kdf_login_ok: a password is named by the account it belongs to; None is
\* nobody's.  An unknown account is verified against a decoy and refused.
CredentialOk(claim, password) == claim \in Account /\ password = claim

(* _lookup_actor: the session row and the account, or 401.                  *)
CurrentActor(w) ==
  /\ Free(w)
  /\ \E t \in DOMAIN sessions :
       /\ ValidSession(t)
       /\ entry' = [entry EXCEPT ![w] = [pc |-> "actor", actor |-> sessions[t].account]]
  /\ UNCHANGED <<vars, sessions, login, failed, issued, ended, proven, shown>>

(* An authenticated request to one of SecureApp's handlers.                 *)
Handle(w) ==
  /\ entry[w].pc = "actor"
  /\ SecureRequest(w, entry[w].actor)
  /\ entry' = [entry EXCEPT ![w] = Nobody]
  /\ UNCHANGED <<sessions, login, failed, issued, ended, proven, shown>>

(* me, catalog, work_orders and list_orders answer from what one SELECT     *)
(* returns; so does get_order for an order that is not the actor's, or not  *)
(* to be collected, or not there.                                           *)
Browse(w) ==
  /\ entry[w].pc = "actor"
  /\ entry' = [entry EXCEPT ![w] = Nobody]
  /\ UNCHANGED <<vars, sessions, login, failed, issued, ended, proven, shown>>

\* Mutant: the code is shown whoever asks.
ShowsCodeAnyone(a, o) == orders[o].state \in COLLECTABLE_STATES

\* Whether get_order goes on to read the order's code.
ShowsCode(a, o) ==
  orders[o].account = a /\ orders[o].state \in COLLECTABLE_STATES

GetOrder(w) ==
  /\ entry[w].pc = "actor"
  /\ \E o \in DOMAIN orders :
       /\ ShowsCode(entry[w].actor, o)
       /\ entry' = [entry EXCEPT ![w] =
            [pc |-> "detail", actor |-> entry[w].actor, order |-> o]]
  /\ UNCHANGED <<vars, sessions, login, failed, issued, ended, proven, shown>>

\* Mutant: showing a code renews it.
GetOrderCodeRenewing(w) ==
  /\ entry[w].pc = "detail"
  /\ \E c \in {c \in DOMAIN codes : codes[c].order_id = entry[w].order} :
       /\ codes' = [codes EXCEPT ![c].expires_at = now + PickupTTL]
       /\ shown' = shown \cup
            {[account |-> entry[w].actor, order |-> entry[w].order, code |-> c]}
  /\ entry' = [entry EXCEPT ![w] = Nobody]
  /\ UNCHANGED <<orders, stock, audit, log, writer, task, now, served, handed,
                 sessions, login, failed, issued, ended, proven>>

(* The lazy load of order.pickup_code, a SELECT of its own.                 *)
GetOrderCode(w) ==
  /\ entry[w].pc = "detail"
  /\ LET o == entry[w].order
         found == {c \in DOMAIN codes : codes[c].order_id = o}
     IN  \E c \in IF found = {} THEN {None} ELSE found :
           shown' = shown \cup {[account |-> entry[w].actor, order |-> o, code |-> c]}
  /\ entry' = [entry EXCEPT ![w] = Nobody]
  /\ UNCHANGED <<vars, sessions, login, failed, issued, ended, proven>>
-----------------------------------------------------------------------------
(* logout reads the row of the cookie's token, expired or not, and answers  *)
(* at once when there is none.                                              *)
Logout(w) ==
  /\ Free(w)
  /\ \E t \in issued :
       \/ /\ t \in DOMAIN sessions
          /\ entry' = [entry EXCEPT ![w] = [pc |-> "logout", token |-> t]]
          /\ UNCHANGED ended
       \/ /\ t \notin DOMAIN sessions
          /\ ended' = ended \cup {t}
          /\ UNCHANGED entry
  /\ UNCHANGED <<vars, sessions, login, failed, issued, proven, shown>>

\* Mutant: the answer does not wait for the commit.
LogoutCommitForgotten(w) ==
  /\ entry[w].pc = "logout"
  /\ ended' = ended \cup {entry[w].token}
  /\ entry' = [entry EXCEPT ![w] = Nobody]
  /\ UNCHANGED <<vars, sessions, login, failed, issued, proven, shown>>

(* The DELETE and its commit.  A row another logout has deleted meanwhile   *)
(* is no error.                                                             *)
LogoutCommit(w) ==
  /\ entry[w].pc = "logout"
  /\ writer = None
  /\ LET t == entry[w].token
     IN  /\ sessions' = [s \in DOMAIN sessions \ {t} |-> sessions[s]]
         /\ ended' = ended \cup {t}
  /\ entry' = [entry EXCEPT ![w] = Nobody]
  /\ UNCHANGED <<vars, login, failed, issued, proven, shown>>

(* An exception before the handler has started its work: the lock timeout   *)
(* of a logout, a failing SELECT.  Nothing was written.                     *)
EntryFail(w) ==
  /\ entry[w] # Nobody
  /\ entry' = [entry EXCEPT ![w] = Nobody]
  /\ UNCHANGED <<vars, sessions, login, failed, issued, ended, proven, shown>>

(* login up to its commit.  Unreadable bodies, missing fields and a failing *)
(* read end in the except branch, which does what a wrong password does     *)
(* (in the name of "unknown"): the event is pending and its line is out.    *)
LoginBody(claim, password) ==
  /\ login = Nobody
  /\ failed.logins < MaxLogins
  /\ proven' = proven \cup ({claim} \cap {password} \cap Account)
  /\ \/ /\ CredentialOk(claim, password)
        /\ login' = [pc |-> "open", account |-> claim, at |-> now]
        /\ failed' = [failed EXCEPT !.logins = @ + 1]
     \/ /\ login' = [pc |-> "refuse"]
        /\ failed' = [failed EXCEPT !.logins = @ + 1, !.lines = @ + 1]
  /\ UNCHANGED <<vars, sessions, entry, issued, ended, shown>>

LoginOpen ==
  /\ login.pc = "open"
  /\ writer = None
  /\ \E t \in Token \ issued :
       /\ sessions' = Insert(sessions, t,
            [account |-> login.account, expires_at |-> login.at + SessionTTL])
       /\ issued' = issued \cup {t}
  /\ login' = Nobody
  /\ UNCHANGED <<vars, entry, failed, ended, proven, shown>>

\* Mutant: the 401 goes out without the commit.
LoginRefuseUnsaved ==
  /\ login.pc = "refuse"
  /\ login' = [pc |-> "answer"]
  /\ UNCHANGED <<vars, sessions, entry, failed, issued, ended, proven, shown>>

(* The commit of a refusal's audit event.                                   *)
LoginRefuse ==
  /\ login.pc = "refuse"
  /\ writer = None
  /\ failed' = [failed EXCEPT !.rows = @ + 1]
  /\ login' = [pc |-> "answer"]
  /\ UNCHANGED <<vars, sessions, entry, issued, ended, proven, shown>>

(* The 401.  The process may die before it.                                 *)
LoginAnswer ==
  /\ login.pc = "answer"
  /\ failed' = [failed EXCEPT !.answers = @ + 1]
  /\ login' = Nobody
  /\ UNCHANGED <<vars, sessions, entry, issued, ended, proven, shown>>

(* The commit raises, after the busy timeout or for a reason of its own:    *)
(* 500, and nothing of the login is written.                                *)
LoginFails ==
  /\ login.pc \in {"open", "refuse"}
  /\ login' = Nobody
  /\ UNCHANGED <<vars, sessions, entry, failed, issued, ended, proven, shown>>

(* The process dies and is started again over the same database.            *)
SiteCrash ==
  /\ \/ Crash
     \/ (\A w \in Worker : task[w].pc = "idle") /\ UNCHANGED vars
  /\ entry' = [w \in Worker |-> Nobody]
  /\ login' = Nobody
  /\ UNCHANGED <<sessions, failed, issued, ended, proven, shown>>

\* Nobody asks for anything any more.
Quiet ==
  /\ \A w \in Worker : Free(w)
  /\ login = Nobody
  /\ UNCHANGED allVars
-----------------------------------------------------------------------------
SiteInit ==
  /\ Init
  /\ sessions = <<>>
  /\ entry = [w \in Worker |-> Nobody]
  /\ login = Nobody
  /\ failed = [lines |-> 0, rows |-> 0, answers |-> 0, logins |-> 0]
  /\ issued = {}
  /\ ended = {}
  /\ proven = {}
  /\ shown = {}

\* The threads and the clock of the application do not look at the door.
AppStep ==
  /\ \/ \E w \in Worker : Advance(w) \/ Fail(w)
     \/ Tick
  /\ UNCHANGED site

LoginStep == LoginOpen \/ LoginRefuse \/ LoginAnswer \/ LoginFails

EntryStep(w) ==
  \/ CurrentActor(w) \/ Handle(w) \/ Browse(w) \/ GetOrder(w) \/ GetOrderCode(w)
  \/ Logout(w) \/ LogoutCommit(w) \/ EntryFail(w)

SiteNext ==
  \/ AppStep
  \/ \E w \in Worker : EntryStep(w)
  \/ \E claim, password \in Account \cup {None} : LoginBody(claim, password)
  \/ LoginStep
  \/ SiteCrash
  \/ Quiet

SiteSpec == SiteInit /\ [][SiteNext]_allVars
-----------------------------------------------------------------------------
\* Nothing is ordered, approved or rejected in the name of an account whose
\* password nobody presented: not through a session that ended or expired, a
\* thread that failed, or a restart over the same tables (current_actor, login).
OnlySignedInAct ==
  \A o \in DOMAIN orders :
    /\ orders[o].account \in proven
    /\ orders[o].approved_by \in proven \cup {None}

\* Once a logout has been answered its token opens nothing any more, whichever
\* other logouts, logins, failures and restarts were under way (logout).
LoggedOutStaysOut == \A t \in ended : t \notin DOMAIN sessions

\* No 401 without its audit row, and no row without its line, whatever failed or
\* died between the line, the row and the answer: a refusal whose commit raises
\* is a 500 with a line and no row, and the except branch saves the row it owes
\* before it answers, over the session whose statement failed (login, emit_audit).
FailedLoginsAudited ==
  failed.answers <= failed.rows /\ failed.rows <= failed.lines

\* An owner who is shown a released order is shown its code with it, and nobody
\* is shown another's: get_order reads the code after the order, in a statement
\* of its own, and the code is never missing by then.
OwnerSeesCode ==
  \A d \in shown :
    /\ d.code \in DOMAIN codes
    /\ codes[d.code].order_id = d.order
    /\ codes[d.code].owner = d.account

\* Behind its door the application is SecureApp: no step of the door touches an
\* order, a code, the stock or the lock.
ImplementsSecureApp == Spec
=============================================================================
