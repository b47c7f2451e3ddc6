------------------------------ MODULE Accounts ------------------------------
(***************************************************************************)
(* Accounts and tokens (api/auth.py, auth/tokens.py, auth/deps.py): signup *)
(* requests that race for an email, which the unique constraint decides,   *)
(* and stateless access and refresh tokens that nothing but time ends.     *)
(*                                                                         *)
(* Time counts in steps of a second, the resolution of iat and exp.  Who   *)
(* logs in knows the password: other logins are refused and change nothing.*)
(***************************************************************************)
EXTENDS Naturals, Sequences

CONSTANTS Emails,
          NoEmail,
          Signups,      \* slots for concurrent POST /auth/signup
          AccessTTL,    \* ACCESS_TOKEN_TTL
          RefreshTTL,   \* REFRESH_TOKEN_TTL
          MaxTime       \* bound: the clock

ASSUME EmailsAssumption == NoEmail \notin Emails
ASSUME LifetimesAssumption ==
  AccessTTL \in Nat /\ RefreshTTL \in Nat /\ AccessTTL <= RefreshTTL /\ MaxTime \in Nat

VARIABLES
  now,       \* the clock of the server
  users,     \* committed users, by id: the email
  req,       \* per slot: where signup is, for which email, and its user
  tokens,    \* every token ever signed
  refused,   \* emails answered with 409 email_taken
  proved,    \* history: per email, when its user last signed up, logged in or
             \* renewed the session
  renewed,   \* history: emails whose user last did so with a refresh token
  served     \* per email, the last time current_user accepted a token of its user

vars == <<now, users, req, tokens, refused, proved, renewed, served>>

UserIds == 1..Len(users)
Taken(e) == \E u \in UserIds : users[u] = e
IdleReq == [pc |-> "idle", email |-> NoEmail, user |-> 0]
Never == 0       \* the clock starts at 1

\* create_access_token and create_refresh_token.
Pair(u) == {[user |-> u, type |-> "access", exp |-> now + AccessTTL],
            [user |-> u, type |-> "refresh", exp |-> now + RefreshTTL]}

\* Faulty variants: the type claim, or the expiry, is not looked at.
ValidAnyType(t, type) == now <= t.exp
ValidForever(t, type) == t.type = type

\* decode_token: a token is good through the second of its exp.
Valid(t, type) == t.type = type /\ now <= t.exp

Init ==
  /\ now = 1
  /\ users = <<>>
  /\ req = [k \in Signups |-> IdleReq]
  /\ tokens = {}
  /\ refused = {}
  /\ proved = [e \in Emails |-> Never]
  /\ renewed = {}
  /\ served = [e \in Emails |-> Never]
-----------------------------------------------------------------------------
(* POST /auth/signup. *)

SignupRefused(k, e) ==
  /\ req[k].pc = "idle"
  /\ Taken(e)
  /\ refused' = refused \cup {e}
  /\ UNCHANGED <<now, users, req, tokens, proved, renewed, served>>

\* The email is free when it is looked up; the password is hashed then.
SignupCheck(k, e) ==
  /\ req[k].pc = "idle"
  /\ ~Taken(e)
  /\ req' = [req EXCEPT ![k] = [pc |-> "checked", email |-> e, user |-> 0]]
  /\ UNCHANGED <<now, users, tokens, refused, proved, renewed, served>>

\* Faulty variant: the user is not committed before the tokens are signed.
SignupInsertUncommitted(k) ==
  /\ req[k].pc = "checked"
  /\ ~Taken(req[k].email)
  /\ req' = [req EXCEPT ![k].pc = "created", ![k].user = Len(users) + 1]
  /\ UNCHANGED <<now, users, tokens, refused, proved, renewed, served>>

\* UserRepository.create.
SignupInsert(k) ==
  /\ req[k].pc = "checked"
  /\ ~Taken(req[k].email)
  /\ users' = Append(users, req[k].email)
  /\ req' = [req EXCEPT ![k].pc = "created", ![k].user = Len(users) + 1]
  /\ UNCHANGED <<now, tokens, refused, proved, renewed, served>>

\* Faulty variant: any failure to insert is taken for the email's.
SignupCatchAll(k) ==
  /\ req[k].pc = "checked"
  /\ refused' = refused \cup {req[k].email}
  /\ req' = [req EXCEPT ![k] = IdleReq]
  /\ UNCHANGED <<now, users, tokens, proved, renewed, served>>

\* The unique constraint: another signup was faster.
SignupConflict(k) ==
  /\ req[k].pc = "checked"
  /\ Taken(req[k].email)
  /\ refused' = refused \cup {req[k].email}
  /\ req' = [req EXCEPT ![k] = IdleReq]
  /\ UNCHANGED <<now, users, tokens, proved, renewed, served>>

SignupAnswer(k) ==
  /\ req[k].pc = "created"
  /\ tokens' = tokens \cup Pair(req[k].user)
  /\ proved' = [proved EXCEPT ![req[k].email] = now]
  /\ renewed' = renewed \ {req[k].email}
  /\ req' = [req EXCEPT ![k] = IdleReq]
  /\ UNCHANGED <<now, users, refused, served>>

\* The request ends without an answer; what is committed stays.
SignupDies(k) ==
  /\ req[k].pc # "idle"
  /\ req' = [req EXCEPT ![k] = IdleReq]
  /\ UNCHANGED <<now, users, tokens, refused, proved, renewed, served>>
-----------------------------------------------------------------------------
(* The sessions. *)

\* POST /auth/login, with the right password.
Login(u) ==
  /\ tokens' = tokens \cup Pair(u)
  /\ proved' = [proved EXCEPT ![users[u]] = now]
  /\ renewed' = renewed \ {users[u]}
  /\ UNCHANGED <<now, users, req, refused, served>>

\* POST /auth/refresh: the old token stays good.
Refresh(t) ==
  /\ Valid(t, "refresh")
  /\ t.user \in UserIds
  /\ tokens' = tokens \cup Pair(t.user)
  /\ proved' = [proved EXCEPT ![users[t.user]] = now]
  /\ renewed' = renewed \cup {users[t.user]}
  /\ UNCHANGED <<now, users, req, refused, served>>

\* Any request that depends on current_user.
CurrentUser(t) ==
  /\ Valid(t, "access")
  /\ t.user \in UserIds
  /\ served' = [served EXCEPT ![users[t.user]] = now]
  /\ UNCHANGED <<now, users, req, tokens, refused, proved, renewed>>

Tick ==
  /\ now < MaxTime
  /\ now' = now + 1
  /\ UNCHANGED <<users, req, tokens, refused, proved, renewed, served>>

Next ==
  \/ \E k \in Signups : \E e \in Emails : SignupRefused(k, e) \/ SignupCheck(k, e)
  \/ \E k \in Signups : \/ SignupInsert(k)
                        \/ SignupConflict(k)
                        \/ SignupAnswer(k)
                        \/ SignupDies(k)
  \/ \E u \in UserIds : Login(u)
  \/ \E t \in tokens : Refresh(t) \/ CurrentUser(t)
  \/ Tick

Spec == Init /\ [][Next]_vars
-----------------------------------------------------------------------------
TokenRecord == [user : Nat, type : {"access", "refresh"}, exp : Nat]
ReqRecord == [pc : {"idle", "checked", "created"}, email : Emails \cup {NoEmail},
              user : Nat]

\* Every variable holds a value of its kind; tokens and requests name
\* committed users.
TypeOK ==
  /\ now \in Nat \ {Never}
  /\ users \in Seq(Emails)
  /\ req \in [Signups -> ReqRecord]
  /\ tokens \subseteq TokenRecord /\ \A t \in tokens : t.user \in UserIds
  /\ \A k \in Signups : req[k].pc # "idle" => req[k].email \in Emails
  /\ \A k \in Signups :
       req[k].pc = "created" => req[k].user \in UserIds /\ users[req[k].user] = req[k].email
  /\ refused \subseteq Emails /\ renewed \subseteq Emails
  /\ proved \in [Emails -> Nat] /\ served \in [Emails -> Nat]
-----------------------------------------------------------------------------
(* Safety. *)

\* Who is told that the email is taken can log in to it: the account exists,
\* also if the request that made it died (auth.py:40-52).
RefusedIsTaken == \A e \in refused : Taken(e)

\* A request is served only within AccessTTL of the last time its user gave
\* the password or renewed the session (tokens.py:9, 45-61, deps.py:28).
ServedRecently ==
  \A e \in Emails : served[e] # Never => served[e] <= proved[e] + AccessTTL

\* A session that is not renewed for RefreshTTL is over: from then on, only
\* the password helps (tokens.py:10, auth.py:90).
SilenceEndsSession ==
  [][\A e \in Emails :
       proved'[e] # proved[e] /\ now > proved[e] + RefreshTTL => e \notin renewed']_vars
=============================================================================
