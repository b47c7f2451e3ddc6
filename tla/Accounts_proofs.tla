--------------------------- MODULE Accounts_proofs ---------------------------
(***************************************************************************)
(* Proofs about Accounts for any emails, concurrent signups and lifetimes. *)
(*                                                                         *)
(* What holds of requests served and sessions renewed rests on what holds  *)
(* of every token ever signed: it ends no later than a lifetime after its  *)
(* user last proved who they are.                                          *)
(***************************************************************************)
EXTENDS Accounts, TLAPS

Lifetime(type) == IF type = "access" THEN AccessTTL ELSE RefreshTTL

\* No token outlives its user's last proof of identity by more than its
\* lifetime, and no proof lies in the future.
TokensOK ==
  /\ \A e \in Emails : proved[e] <= now
  /\ \A t \in tokens : t.exp <= proved[users[t.user]] + Lifetime(t.type)

\* The inductive invariant.
IInv ==
  /\ TypeOK
  /\ RefusedIsTaken
  /\ TokensOK
  /\ ServedRecently

\* The lifetimes are numbers.
LEMMA Lifetimes ==
  /\ AccessTTL \in Nat /\ RefreshTTL \in Nat
  /\ \A type : Lifetime(type) \in Nat
BY LifetimesAssumption DEF Lifetime

\* A user that is added is the only new one.
LEMMA NewUser ==
  ASSUME TypeOK, NEW e \in Emails, users' = Append(users, e)
  PROVE  /\ users' \in Seq(Emails)
         /\ Len(users') = Len(users) + 1
         /\ UserIds' = UserIds \cup {Len(users) + 1}
         /\ Len(users) + 1 \notin UserIds
         /\ users'[Len(users) + 1] = e
         /\ \A u \in UserIds : users'[u] = users[u]
BY DEF TypeOK, UserIds

\* A user's tokens are of their kind and end within their lifetime.
LEMMA PairTypes ==
  ASSUME TypeOK, NEW u \in UserIds
  PROVE  /\ Pair(u) \subseteq TokenRecord
         /\ \A t \in Pair(u) : t.user = u /\ t.exp = now + Lifetime(t.type)
BY Lifetimes DEF Pair, TokenRecord, TypeOK, UserIds, Never, Lifetime

\* Every initial state satisfies the invariant.
LEMMA InitInvariant == Init => IInv
BY DEF Init, IInv, TypeOK, IdleReq, ReqRecord, Never, UserIds,
       RefusedIsTaken, TokensOK, ServedRecently
-----------------------------------------------------------------------------
\* Steps of a signup up to its answer leave the sessions alone, and an
\* account that exists stays.
LEMMA SignupStep ==
  ASSUME IInv, NEW k \in Signups,
         \/ \E e \in Emails : SignupRefused(k, e) \/ SignupCheck(k, e)
         \/ SignupInsert(k) \/ SignupConflict(k) \/ SignupDies(k)
  PROVE  IInv'
<1> USE DEF IInv
<1>0. /\ req[k] \in ReqRecord
      /\ req[k].pc # "idle" => req[k].email \in Emails
  BY DEF TypeOK
<1>1. CASE \E e \in Emails : SignupRefused(k, e)
  <2> PICK e \in Emails : SignupRefused(k, e)
    BY <1>1
  <2>1. UNCHANGED <<now, users, req, tokens, proved, renewed, served>>
    BY DEF SignupRefused
  <2>2. TypeOK'
    BY <2>1 DEF SignupRefused, TypeOK, UserIds
  <2>3. RefusedIsTaken'
    BY DEF SignupRefused, RefusedIsTaken, Taken, UserIds
  <2> QED BY <2>1, <2>2, <2>3 DEF TokensOK, ServedRecently, UserIds
<1>2. CASE UNCHANGED users /\ refused' = refused
           /\ (\/ \E e \in Emails : SignupCheck(k, e)
               \/ SignupDies(k))
  <2>1. UNCHANGED <<now, users, tokens, refused, proved, renewed, served>>
    BY <1>2 DEF SignupCheck, SignupDies
  <2>2. \E r \in ReqRecord :
          /\ r.pc # "created" /\ (r.pc # "idle" => r.email \in Emails)
          /\ req' = [req EXCEPT ![k] = r]
    <3>1. ASSUME NEW e \in Emails, SignupCheck(k, e)
          PROVE  [pc |-> "checked", email |-> e, user |-> 0] \in ReqRecord
      BY DEF ReqRecord
    <3>2. IdleReq \in ReqRecord /\ IdleReq.pc = "idle"
      BY DEF IdleReq, ReqRecord
    <3> QED BY <1>2, <3>1, <3>2 DEF SignupCheck, SignupDies
  <2>3. TypeOK'
    BY <2>1, <2>2 DEF TypeOK, UserIds
  <2> QED BY <2>1, <2>3 DEF RefusedIsTaken, Taken, TokensOK,
                            ServedRecently, UserIds
<1>3. CASE SignupConflict(k)
  <2>1. UNCHANGED <<now, users, tokens, proved, renewed, served>>
    BY <1>3 DEF SignupConflict
  <2>2. IdleReq \in ReqRecord /\ IdleReq.pc = "idle"
    BY DEF IdleReq, ReqRecord
  <2>3. TypeOK'
    BY <1>0, <1>3, <2>1, <2>2 DEF SignupConflict, TypeOK, UserIds
  <2>4. RefusedIsTaken'
    BY <1>3 DEF SignupConflict, RefusedIsTaken, Taken, UserIds
  <2> QED BY <2>1, <2>3, <2>4 DEF TokensOK, ServedRecently, UserIds
<1>4. CASE SignupInsert(k)
  <2> DEFINE e == req[k].email
             n == Len(users) + 1
  <2>1. /\ e \in Emails /\ ~Taken(e) /\ users' = Append(users, e)
        /\ UNCHANGED <<now, tokens, refused, proved, renewed, served>>
    BY <1>0, <1>4 DEF SignupInsert
  <2>2. /\ users' \in Seq(Emails) /\ Len(users') = n
        /\ UserIds' = UserIds \cup {n} /\ n \notin UserIds
        /\ users'[n] = e /\ \A u \in UserIds : users'[u] = users[u]
    BY <2>1, NewUser
  <2>3. n \in Nat
    BY DEF TypeOK
  <2> HIDE DEF e, n
  <2>4. TypeOK'
    <3>1. /\ req'[k] \in ReqRecord /\ req'[k].pc = "created"
          /\ req'[k].user = n /\ req'[k].email = e
          /\ req' \in [Signups -> ReqRecord]
          /\ \A l \in Signups : l # k => req'[l] = req[l]
      BY <1>0, <1>4, <2>3 DEF SignupInsert, TypeOK, ReqRecord, e, n
    <3>2. \A l \in Signups : req'[l].pc = "created" =>
            req'[l].user \in UserIds' /\ users'[req'[l].user] = req'[l].email
      BY <2>2, <3>1 DEF TypeOK
    <3>3. \A l \in Signups : req'[l].pc # "idle" => req'[l].email \in Emails
      BY <2>1, <3>1 DEF TypeOK
    <3>4. \A t \in tokens : t.user \in UserIds'
      BY <2>2 DEF TypeOK
    <3> QED BY <2>1, <2>2, <3>1, <3>2, <3>3, <3>4 DEF TypeOK
  <2>5. RefusedIsTaken'
    BY <2>1, <2>2 DEF RefusedIsTaken, Taken
  <2>6. TokensOK'
    BY <2>1, <2>2 DEF TokensOK, TypeOK
  <2>7. ServedRecently'
    BY <2>1 DEF ServedRecently
  <2> QED BY <2>4, <2>5, <2>6, <2>7
<1> QED BY <1>1, <1>2, <1>3, <1>4 DEF SignupCheck, SignupDies

\* A pair is signed for a user who has just proved who they are.
LEMMA IssueStep ==
  ASSUME IInv, NEW u \in UserIds,
         tokens' = tokens \cup Pair(u),
         proved' = [proved EXCEPT ![users[u]] = now],
         req' = req \/ \E k \in Signups : req' = [req EXCEPT ![k] = IdleReq],
         renewed' \subseteq Emails,
         UNCHANGED <<now, users, refused, served>>
  PROVE  IInv'
<1> USE DEF IInv
<1>1. users[u] \in Emails /\ UserIds' = UserIds /\ now \in Nat /\ proved \in [Emails -> Nat]
  BY DEF TypeOK, UserIds
<1>2. IdleReq \in ReqRecord /\ IdleReq.pc = "idle"
  BY DEF IdleReq, ReqRecord
<1>3. TypeOK'
  <2>1. tokens' \subseteq TokenRecord /\ \A t \in tokens' : t.user \in UserIds
    BY PairTypes DEF TypeOK
  <2>2. proved' \in [Emails -> Nat]
    BY <1>1
  <2>3. /\ req' \in [Signups -> ReqRecord]
        /\ \A k \in Signups : req'[k].pc # "idle" => req'[k] = req[k]
    BY <1>2 DEF TypeOK
  <2> QED BY <1>1, <2>1, <2>2, <2>3 DEF TypeOK
<1>4. \A e \in Emails : proved[e] <= proved'[e] /\ proved'[e] <= now
  BY <1>1 DEF TokensOK
<1>5. TokensOK'
  <2> SUFFICES ASSUME NEW t \in tokens'
               PROVE  t.exp <= proved'[users[t.user]] + Lifetime(t.type)
    BY <1>4 DEF TokensOK
  <2>1. CASE t \in Pair(u)
    <3>1. t.user = u /\ t.exp = now + Lifetime(t.type)
      BY <2>1, PairTypes
    <3>2. proved'[users[u]] = now
      BY <1>1
    <3> QED BY <1>1, <3>1, <3>2, Lifetimes
  <2>2. CASE t \in tokens
    <3>1. t.exp <= proved[users[t.user]] + Lifetime(t.type)
      BY <2>2 DEF TokensOK
    <3>2. users[t.user] \in Emails /\ t.exp \in Nat
      BY <2>2 DEF TypeOK, TokenRecord, UserIds
    <3> DEFINE e == users[t.user]
    <3> HIDE DEF e
    <3>3. /\ e \in Emails /\ t.exp <= proved[e] + Lifetime(t.type)
          /\ proved[e] \in Nat /\ proved'[e] \in Nat /\ proved[e] <= proved'[e]
      BY <1>3, <1>4, <3>1, <3>2 DEF TypeOK, e
    <3>4. t.exp <= proved'[e] + Lifetime(t.type)
      BY <3>2, <3>3, Lifetimes
    <3> QED BY <3>4 DEF e
  <2> QED BY <2>1, <2>2
<1>6. ServedRecently'
  <2> SUFFICES ASSUME NEW e \in Emails, served[e] # Never
               PROVE  served[e] <= proved'[e] + AccessTTL
    BY DEF ServedRecently
  <2>1. served[e] <= proved[e] + AccessTTL /\ proved[e] <= proved'[e]
    BY <1>4 DEF ServedRecently
  <2>2. served[e] \in Nat /\ proved[e] \in Nat /\ proved'[e] \in Nat
    BY <1>3 DEF TypeOK
  <2> QED BY <2>1, <2>2, Lifetimes
<1>7. RefusedIsTaken'
  BY <1>1 DEF RefusedIsTaken, Taken
<1> QED BY <1>3, <1>5, <1>6, <1>7

\* Who is served has a token that has not ended.
LEMMA ServeStep ==
  ASSUME IInv, NEW t \in tokens, CurrentUser(t)
  PROVE  IInv'
<1> USE DEF IInv
<1>1. /\ t.type = "access" /\ now <= t.exp
      /\ served' = [served EXCEPT ![users[t.user]] = now]
      /\ UNCHANGED <<now, users, req, tokens, refused, proved, renewed>>
  BY DEF CurrentUser, Valid
<1>2. t.user \in UserIds /\ users[t.user] \in Emails /\ t.exp \in Nat /\ now \in Nat
  BY DEF TypeOK, TokenRecord, UserIds
<1>3. TypeOK'
  BY <1>1, <1>2 DEF TypeOK, UserIds
<1>4. ServedRecently'
  <2>1. t.exp <= proved[users[t.user]] + AccessTTL
    BY <1>1 DEF TokensOK, Lifetime
  <2>2. now <= proved[users[t.user]] + AccessTTL
    BY <1>1, <1>2, <2>1, Lifetimes DEF TypeOK
  <2> QED BY <1>1, <1>2, <2>2 DEF ServedRecently, TypeOK
<1>5. RefusedIsTaken' /\ TokensOK'
  BY <1>1 DEF RefusedIsTaken, Taken, TokensOK, UserIds
<1> QED BY <1>3, <1>4, <1>5

\* Every step preserves the invariant.
LEMMA StepInvariant == IInv /\ [Next]_vars => IInv'
<1> SUFFICES ASSUME IInv, [Next]_vars PROVE IInv'
  OBVIOUS
<1>1. ASSUME NEW k \in Signups, SignupAnswer(k) PROVE IInv'
  <2>1. req[k].user \in UserIds /\ users[req[k].user] = req[k].email
    BY <1>1 DEF SignupAnswer, IInv, TypeOK
  <2>2. renewed' \subseteq Emails
    BY <1>1 DEF SignupAnswer, IInv, TypeOK
  <2> QED BY <1>1, <2>1, <2>2, IssueStep DEF SignupAnswer
<1>2. ASSUME NEW u \in UserIds, Login(u) PROVE IInv'
  <2>1. renewed' \subseteq Emails
    BY <1>2 DEF Login, IInv, TypeOK
  <2> QED BY <1>2, <2>1, IssueStep DEF Login
<1>3. ASSUME NEW t \in tokens, Refresh(t) PROVE IInv'
  <2>1. renewed' \subseteq Emails /\ t.user \in UserIds
    BY <1>3 DEF Refresh, IInv, TypeOK, UserIds
  <2> QED BY <1>3, <2>1, IssueStep DEF Refresh
<1>4. CASE Tick
  <2>1. now \in Nat /\ now' = now + 1 /\ proved \in [Emails -> Nat]
        /\ UNCHANGED <<users, req, tokens, refused, proved, renewed, served>>
    BY <1>4 DEF Tick, IInv, TypeOK
  <2>2. TypeOK'
    BY <2>1 DEF IInv, TypeOK, UserIds, Never
  <2>3. TokensOK'
    BY <2>1 DEF IInv, TokensOK
  <2> QED BY <2>1, <2>2, <2>3 DEF IInv, RefusedIsTaken, Taken,
                                  ServedRecently, UserIds
<1>5. CASE UNCHANGED vars
  BY <1>5 DEF vars, IInv, TypeOK, RefusedIsTaken, Taken, TokensOK,
              ServedRecently, UserIds
<1> QED BY <1>1, <1>2, <1>3, <1>4, <1>5, SignupStep, ServeStep DEF Next

\* The inductive invariant holds throughout.
THEOREM Invariant == Spec => []IInv
BY InitInvariant, StepInvariant, PTL DEF Spec
-----------------------------------------------------------------------------
\* The specification keeps its types: what is signed names an account.
THEOREM TypeCorrect == Spec => []TypeOK
<1>1. IInv => TypeOK
  BY DEF IInv
<1> QED BY <1>1, Invariant, PTL

\* A refused email has its account.
THEOREM RefusalIsRight == Spec => []RefusedIsTaken
<1>1. IInv => RefusedIsTaken
  BY DEF IInv
<1> QED BY <1>1, Invariant, PTL

\* Nobody is served longer than AccessTTL after the last renewal.
THEOREM ServiceEnds == Spec => []ServedRecently
<1>1. IInv => ServedRecently
  BY DEF IInv
<1> QED BY <1>1, Invariant, PTL

\* Once silent for RefreshTTL, a session is only renewed by the password.
THEOREM SilenceEnds == Spec => SilenceEndsSession
<1> DEFINE A == \A e \in Emails :
                  proved'[e] # proved[e] /\ now > proved[e] + RefreshTTL => e \notin renewed'
<1>1. IInv /\ [Next]_vars => [A]_vars
  <2> SUFFICES ASSUME IInv, Next, NEW e \in Emails,
                      proved'[e] # proved[e], now > proved[e] + RefreshTTL
               PROVE  e \notin renewed'
    OBVIOUS
  <2>0. proved \in [Emails -> Nat] /\ now \in Nat
    BY DEF IInv, TypeOK
  <2>1. ASSUME NEW u \in UserIds, Login(u)
        PROVE  e \notin renewed'
    BY <2>0, <2>1 DEF Login
  <2>2. ASSUME NEW k \in Signups, SignupAnswer(k)
        PROVE  e \notin renewed'
    BY <2>0, <2>2 DEF SignupAnswer
  <2>3. ASSUME NEW t \in tokens, Refresh(t)
        PROVE  FALSE
    <3>1. users[t.user] = e
      BY <2>0, <2>3 DEF Refresh
    <3>2. t.exp <= proved[e] + RefreshTTL
      BY <2>3, <3>1 DEF IInv, TokensOK, Refresh, Valid, Lifetime
    <3>3. now <= t.exp /\ t.exp \in Nat
      BY <2>3 DEF Refresh, Valid, IInv, TypeOK, TokenRecord
    <3> QED BY <2>0, <3>2, <3>3, Lifetimes
  <2> QED BY <2>1, <2>2, <2>3
      DEF Next, SignupRefused, SignupCheck, SignupInsert, SignupConflict, SignupDies,
          CurrentUser, Tick
<1> QED BY <1>1, Invariant, PTL DEF Spec, SilenceEndsSession
=============================================================================
