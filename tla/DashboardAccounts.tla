-------------------------- MODULE DashboardAccounts --------------------------
(***************************************************************************)
(* The accounts of the dashboard (admin_api/user_auth.py) and the handlers *)
(* of /auth/dashboard (admin_api/app.py), which FastAPI runs on a pool of  *)
(* threads.  The store is a singleton made by whoever needs it first; it   *)
(* is a PostgreSQL table, or two dictionaries of the process.              *)
(***************************************************************************)
EXTENDS Naturals

CONSTANTS Logins,       \* threads, each with a request
          Emails, AdminEmail,
          NoEmail,
          MaxStores,    \* bounds of the model
          MaxUsers

ASSUME AccountsAssumption == /\ AdminEmail \in Emails /\ NoEmail \notin Emails
                             /\ MaxStores \in Nat /\ MaxUsers \in Nat

\* What a request asks for: an account of either role, or a login.
Kinds == {"viewer", "admin", "login"}

VARIABLES userBackend,  \* chosen by DATABASE_URL
          stores,       \* how many stores were made; the table is store 1
          instance,     \* _store_instance, 0 if None
          users,        \* the users of every store
          byEmail,      \* the index of every store: store, email, id
          lastId,
          sessions,     \* ids in the session tokens that were issued
          apc, using,   \* per thread: where it is, and the store it got
          email, kind,  \* its arguments
          newId,        \* the user it has put into _users
          before,       \* history: who was registered when it was called
          racedStart    \* history: two threads set out to make the store

callVars == <<apc, using, email, kind, newId, before>>
userVars == <<users, byEmail, lastId>>
accountVars == <<userBackend, stores, instance, userVars, sessions, callVars, racedStart>>

InStore(s) == {u \in users : u.store = s}
Indexed(s) == {x \in byEmail : x.store = s}
Found(s, e) == {u \in InStore(s) : \E x \in Indexed(s) : x.email = e /\ x.id = u.id}

AccountsInit ==
  /\ userBackend \in {"memory", "postgres"}
  /\ stores = 0 /\ instance = 0
  /\ users = {} /\ byEmail = {} /\ lastId = 0 /\ sessions = {}
  /\ apc = [t \in Logins |-> "idle"] /\ using = [t \in Logins |-> 0]
  /\ email = [t \in Logins |-> NoEmail] /\ kind = [t \in Logins |-> "login"]
  /\ newId = [t \in Logins |-> 0] /\ before = [t \in Logins |-> {}]
  /\ racedStart = FALSE

AGoto(t, from, to) == apc[t] = from /\ apc' = [apc EXCEPT ![t] = to]
AEnd(t, from) ==
  /\ AGoto(t, from, "idle")
  /\ using' = [using EXCEPT ![t] = 0] /\ email' = [email EXCEPT ![t] = NoEmail]
  /\ kind' = [kind EXCEPT ![t] = "login"]
  /\ newId' = [newId EXCEPT ![t] = 0] /\ before' = [before EXCEPT ![t] = {}]

\* require_admin comes first, and both it and the handler call user_store.
WithStore(k) == IF k = "admin" THEN "admit" ELSE "fetch"

\* if _store_instance is None.
AskFor(t, e, k) ==
  /\ AGoto(t, "idle", IF instance = 0 THEN "make" ELSE WithStore(k))
  /\ email' = [email EXCEPT ![t] = e] /\ kind' = [kind EXCEPT ![t] = k]
  /\ racedStart' = (racedStart \/ (instance = 0 /\ \E q \in Logins : apc[q] = "make"))
  /\ UNCHANGED <<userBackend, stores, instance, userVars, sessions, using, newId, before>>

Enter(s, e, r, known) ==
  /\ lastId < MaxUsers
  /\ lastId' = lastId + 1
  /\ users' = users \cup {[id |-> lastId', store |-> s, email |-> e, role |-> r, after |-> known]}
IndexEntry(s, e, i) ==
  byEmail' = {x \in byEmail : x.store # s \/ x.email # e}
               \cup {[store |-> s, email |-> e, id |-> i]}

\* get_user_store, and its result becomes the singleton.  In memory it is a
\* new store, with an administrator in it.
MakeStore(t) ==
  /\ AGoto(t, "make", WithStore(kind[t]))
  /\ IF userBackend = "postgres"
     THEN stores' = 1 /\ instance' = 1 /\ UNCHANGED userVars
     ELSE /\ stores < MaxStores
          /\ stores' = stores + 1 /\ instance' = stores'
          /\ Enter(stores', AdminEmail, "admin", {})
          /\ IndexEntry(stores', AdminEmail, lastId')
  /\ UNCHANGED <<userBackend, sessions, using, email, kind, newId, before, racedStart>>

\* require_admin: the session names a user of the store that is an
\* administrator; or it does not, and the request is refused.
Admit(t) ==
  /\ UNCHANGED <<userBackend, stores, instance, userVars, sessions, racedStart>>
  /\ \/ /\ \E u \in InStore(instance) : u.id \in sessions /\ u.role = "admin"
        /\ AGoto(t, "admit", "fetch")
        /\ UNCHANGED <<using, email, kind, newId, before>>
     \/ AEnd(t, "admit")

FetchStore(t) ==
  /\ AGoto(t, "fetch", IF kind[t] = "login" THEN "login" ELSE "check")
  /\ using' = [using EXCEPT ![t] = instance]
  /\ before' = [before EXCEPT ![t] = {x.id : x \in Indexed(instance)}]
  /\ UNCHANGED <<userBackend, stores, instance, userVars, sessions, email, kind, newId, racedStart>>

\* dashboard_login, with the right password.
Login(t) ==
  /\ AEnd(t, "login")
  /\ sessions' = sessions \cup {u.id : u \in Found(using[t], email[t])}
  /\ UNCHANGED <<userBackend, stores, instance, userVars, racedStart>>

\* create_user looks for the e-mail address in memory only.
CheckNothing(t) ==
  /\ AGoto(t, "check", "insert") /\ UNCHANGED <<using, email, kind, newId, before>>
  /\ UNCHANGED <<userBackend, stores, instance, userVars, sessions, racedStart>>
CheckEmail(t) ==
  /\ IF userBackend = "memory" /\ \E x \in Indexed(using[t]) : x.email = email[t]
     THEN AEnd(t, "check")
     ELSE AGoto(t, "check", "insert") /\ UNCHANGED <<using, email, kind, newId, before>>
  /\ UNCHANGED <<userBackend, stores, instance, userVars, sessions, racedStart>>

\* After hash_password.  The unique constraint of the table raises an error
\* that the handler does not catch.
InsertUser(t) ==
  /\ IF userBackend = "memory"
     THEN /\ Enter(using[t], email[t], kind[t], before[t])
          /\ AGoto(t, "insert", "index")
          /\ newId' = [newId EXCEPT ![t] = lastId']
          /\ UNCHANGED <<byEmail, using, email, kind, before>>
     ELSE /\ AEnd(t, "insert")
          /\ IF \E u \in users : u.email = email[t]
             THEN UNCHANGED userVars
             ELSE Enter(1, email[t], kind[t], before[t]) /\ IndexEntry(1, email[t], lastId')
  /\ UNCHANGED <<userBackend, stores, instance, sessions, racedStart>>

IndexUser(t) ==
  /\ AEnd(t, "index")
  /\ IndexEntry(using[t], email[t], newId[t])
  /\ UNCHANGED <<userBackend, stores, instance, users, lastId, sessions, racedStart>>

\* The process ends and starts again; tokens stay valid.
RestartApi ==
  /\ instance # 0 /\ instance' = 0
  /\ apc' = [t \in Logins |-> "idle"] /\ using' = [t \in Logins |-> 0]
  /\ email' = [t \in Logins |-> NoEmail] /\ kind' = [t \in Logins |-> "login"]
  /\ newId' = [t \in Logins |-> 0] /\ before' = [t \in Logins |-> {}]
  /\ IF userBackend = "memory" THEN users' = {} /\ byEmail' = {} ELSE UNCHANGED <<users, byEmail>>
  /\ racedStart' = FALSE
  /\ UNCHANGED <<userBackend, stores, lastId, sessions>>

AccountsNext ==
  \/ \E t \in Logins :
       \/ \E e \in Emails, k \in Kinds : AskFor(t, e, k)
       \/ MakeStore(t) \/ Admit(t) \/ FetchStore(t) \/ Login(t)
       \/ CheckEmail(t) \/ InsertUser(t) \/ IndexUser(t)
  \/ RestartApi

AccountsSpec == AccountsInit /\ [][AccountsNext]_accountVars

-----------------------------------------------------------------------------
(* Properties.                                                             *)

\* A user once registered can log in until the process restarts: it is in the
\* store in use, and no later registration takes its e-mail address, unless
\* the first requests raced to make the store or the two registrations
\* overlapped ("raise ValueError(f"User {email} already exists")",
\* user_auth.py:144; the unique column, :180).
AccountsStay ==
  \A u \in users :
    /\ u.store # instance /\ instance # 0 => racedStart
    /\ \A v \in users \ {u} :
         v.store = u.store /\ v.email = u.email => userBackend = "memory" /\ u.id \notin v.after
=============================================================================
