-------------------------- MODULE AuthTokensProofs --------------------------
(***************************************************************************)
(* For every set of accounts and requests: a link that did its work is not *)
(* found again and does it twice only for requests that met inside         *)
(* redeemToken, two links that work at once come from requests that met    *)
(* inside issueToken, an erased account leaves no token behind, only its   *)
(* own links act on an account, and of links withdrawn by one another the  *)
(* newest works.                                                           *)
(*                                                                         *)
(* The first three rest on the life of one row: it is not there before its *)
(* request stored it, it is marked before its link is acted upon, and it   *)
(* never becomes redeemable again.  The last two rest on whose a link is.  *)
(***************************************************************************)
EXTENDS AuthTokens, TLAPS

(* Type correctness. *)
LEMMA TypeInit == Init => TypeOK
<1> SUFFICES ASSUME Init PROVE TypeOK
  OBVIOUS
<1>1. account \in [Accounts -> AccountRow]
  BY DEF Init, AccountRow
<1>2. about \in [Requests -> Locals]
  BY DEF Init, Locals, Purpose
<1>3. /\ token \in [Requests -> TokenState] /\ pc \in [Requests -> Stage]
      /\ usedBy \in [Requests -> SUBSET Requests]
  BY DEF Init, TokenState, Stage
<1>4. QED
  BY <1>1, <1>2, <1>3 DEF Init, TypeOK

\* A request that turns to a link.
LEMMA BeginTyped ==
  ASSUME TypeOK, NEW r \in Requests, NEW to \in Stage, NEW a \in Accounts \cup {Nobody},
         NEW p \in Purpose, NEW t \in Requests, Begin(r, to, a, p, t)
  PROVE  pc' \in [Requests -> Stage] /\ about' \in [Requests -> Locals]
<1>1. [user |-> a, purpose |-> p, link |-> t] \in Locals
  BY DEF Locals
<1>2. QED
  BY <1>1 DEF Begin, GoTo, TypeOK

LEMMA TypeBegin ==
  ASSUME TypeOK, NEW r \in Requests, NEW a \in Accounts,
         Register(r, a) \/ ResendVerification(r, a) \/ RequestPasswordReset(r, a)
  PROVE  TypeOK'
<1>1. \E p \in Purpose : Begin(r, "clear", a, p, r)
  BY DEF Register, ResendVerification, RequestPasswordReset, Purpose
<1>2. pc' \in [Requests -> Stage] /\ about' \in [Requests -> Locals]
  <2>1. "clear" \in Stage
    BY DEF Stage
  <2>2. QED
    BY <1>1, <2>1, BeginTyped
<1>3. account' \in [Accounts -> AccountRow]
  <2>1. [status |-> "open", verified |-> FALSE, password |-> r] \in AccountRow
    BY DEF AccountRow
  <2>2. QED
    BY <2>1 DEF Register, ResendVerification, RequestPasswordReset, TypeOK
<1>4. UNCHANGED <<token, inbox, usedBy, met>>
  BY DEF Register, ResendVerification, RequestPasswordReset
<1>5. QED
  BY <1>2, <1>3, <1>4 DEF TypeOK

LEMMA TypeIssue ==
  ASSUME TypeOK, NEW r \in Requests, ClearOld(r) \/ StoreToken(r) \/ MailLink(r)
  PROVE  TypeOK'
<1>1. CASE ClearOld(r)
  <2>1. met' \subseteq Requests \X Requests
    BY <1>1 DEF ClearOld, Meets, TypeOK
  <2>2. QED
    BY <1>1, <2>1 DEF ClearOld, DeleteTokens, GoTo, TypeOK, TokenState, Stage
<1>2. CASE StoreToken(r)
  BY <1>2 DEF StoreToken, GoTo, TypeOK, TokenState, Stage
<1>3. CASE MailLink(r)
  BY <1>3 DEF MailLink, GoTo, TypeOK, Stage
<1>4. QED
  BY <1>1, <1>2, <1>3

LEMMA TypeRedeem ==
  ASSUME TypeOK, NEW r \in Requests,
         \/ \E t \in Requests, p \in Purpose : Redeem(r, t, p)
         \/ MarkUsed(r) \/ Apply(r) \/ BurnOthers(r)
  PROVE  TypeOK'
<1>1. ASSUME NEW t \in Requests, NEW p \in Purpose, Redeem(r, t, p)
      PROVE  TypeOK'
  <2>1. about[t].user \in Accounts \cup {Nobody} /\ "mark" \in Stage
    BY DEF TypeOK, Locals, Stage
  <2>2. pc' \in [Requests -> Stage] /\ about' \in [Requests -> Locals]
    BY <1>1, <2>1, BeginTyped DEF Redeem
  <2>3. met' \subseteq Requests \X Requests
    BY <1>1 DEF Redeem, Meets, TypeOK
  <2>4. QED
    BY <1>1, <2>2, <2>3 DEF Redeem, TypeOK
<1>2. CASE MarkUsed(r)
  BY <1>2 DEF MarkUsed, GoTo, Marked, TypeOK, TokenState, Stage
<1>3. CASE Apply(r)
  <2>1. \A a \in Accounts : Applied(r, account[a]) \in AccountRow
    BY DEF Applied, TypeOK, AccountRow
  <2>2. account' \in [Accounts -> AccountRow]
    BY <1>3, <2>1 DEF Apply, TypeOK
  <2>3. usedBy' \in [Requests -> SUBSET Requests]
    <3>1. \A t \in Requests : usedBy[t] \cup {r} \in SUBSET Requests
      BY DEF TypeOK
    <3>2. about[r].link \in Requests
      BY DEF TypeOK, Locals
    <3>3. QED
      BY <1>3, <3>1, <3>2 DEF Apply, TypeOK
  <2>4. QED
    BY <1>3, <2>2, <2>3 DEF Apply, GoTo, TypeOK, Stage
<1>4. CASE BurnOthers(r)
  BY <1>4 DEF BurnOthers, DeleteTokens, GoTo, TypeOK, TokenState, Stage
<1>5. QED
  BY <1>1, <1>2, <1>3, <1>4

LEMMA TypeStep == TypeOK /\ [Next]_vars => TypeOK'
<1> SUFFICES ASSUME TypeOK, [Next]_vars PROVE TypeOK'
  OBVIOUS
<1>1. ASSUME NEW r \in Requests, Serve(r) PROVE TypeOK'
  <2>1. CASE Fail(r)
    BY <2>1 DEF Fail, TypeOK, Stage
  <2>2. QED
    BY <1>1, <2>1, TypeBegin, TypeIssue, TypeRedeem DEF Serve
<1>2. ASSUME NEW t \in Requests, Expire(t) PROVE TypeOK'
  BY <1>2 DEF Expire, TypeOK, TokenState
<1>3. ASSUME NEW a \in Accounts, Erase(a) PROVE TypeOK'
  BY <1>3 DEF Erase, DeleteTokens, TypeOK, TokenState, AccountRow
<1>4. CASE UNCHANGED vars
  BY <1>4 DEF vars, TypeOK
<1>5. QED
  BY <1>1, <1>2, <1>3, <1>4 DEF Next

(* Every reachable state is well typed: auth.go's statements leave the     *)
(* rows of users and auth_tokens in the states the tables can be in.       *)
THEOREM TokensTyped == Spec => []TypeOK
<1>1. QED
  BY TypeInit, TypeStep, PTL DEF Spec

-----------------------------------------------------------------------------
(* The life of a row. *)
Gone == {"used", "deleted"}

KnownUser      == \A r \in Requests : pc[r] # "ready" => about[r].user \in Accounts
UnstoredIsNone == \A r \in Requests : pc[r] \in {"ready", "clear", "store"} => ~Stored(r)
LinkIsStored   == \A r \in Requests : pc[r] = "mark" => Stored(about[r].link)
MarkedFirst    == \A r \in Requests : pc[r] = "apply" => token[about[r].link] \in Gone
SpentIsGone    == \A t \in Requests : usedBy[t] # {} => token[t] \in Gone

\* The inductive invariant of the rows.
RowInv == /\ KnownUser /\ UnstoredIsNone /\ LinkIsStored /\ MarkedFirst
          /\ SpentIsGone /\ NothingLeftBehind

LEMMA RowInit == Init => RowInv
BY DEF Init, RowInv, KnownUser, UnstoredIsNone, LinkIsStored, MarkedFirst, SpentIsGone,
       NothingLeftBehind, Stored

\* A request that begins to issue touches no row of auth_tokens, and it is not
\* the request of any row.
LEMMA RowBegin ==
  ASSUME TypeOK, RowInv, NEW r \in Requests, NEW a \in Accounts,
         Register(r, a) \/ ResendVerification(r, a) \/ RequestPasswordReset(r, a)
  PROVE  RowInv'
<1>1. /\ pc[r] = "ready" /\ pc' = [pc EXCEPT ![r] = "clear"]
      /\ \A q \in Requests : q # r => about'[q] = about[q]
      /\ UNCHANGED <<token, usedBy>>
  BY DEF Register, ResendVerification, RequestPasswordReset, Begin, GoTo, TypeOK
<1>2. \A b \in Accounts : Open(b) => Open(b)'
  BY DEF Register, ResendVerification, RequestPasswordReset, Open, TypeOK
<1>3. ~Stored(r)
  BY <1>1 DEF RowInv, UnstoredIsNone
<1>4. /\ \A q \in Requests : q # r => pc'[q] = pc[q] /\ about'[q] = about[q]
      /\ pc'[r] = "clear"
  BY <1>1 DEF TypeOK
<1>5. KnownUser'
  <2>1. about'[r].user \in Accounts
    BY DEF Register, ResendVerification, RequestPasswordReset, Begin, TypeOK
  <2>2. QED
    BY <1>4, <2>1 DEF RowInv, KnownUser
<1>6. (UnstoredIsNone /\ LinkIsStored /\ MarkedFirst /\ SpentIsGone)'
  BY <1>1, <1>3, <1>4 DEF RowInv, UnstoredIsNone, LinkIsStored, MarkedFirst, SpentIsGone,
       Stored
<1>7. NothingLeftBehind'
  <2>1. \A t \in Requests : token[t] \notin {"none", "deleted"} =>
          t # r /\ Open(about[t].user) /\ about[t].user \in Accounts
    BY <1>1, <1>3 DEF RowInv, KnownUser, UnstoredIsNone, NothingLeftBehind, Stored
  <2>2. QED
    BY <1>1, <1>2, <1>4, <2>1 DEF NothingLeftBehind
<1>8. QED
  BY <1>5, <1>6, <1>7 DEF RowInv

\* Stored rows in S are deleted, and nothing else happens to the rows.
Withdrawn(S) ==
  /\ \A t \in S : Stored(t)
  /\ \A t \in Requests : token'[t] = IF t \in S THEN "deleted" ELSE token[t]

LEMMA RowWithdraw ==
  ASSUME TypeOK, RowInv, NEW r \in Requests, NEW S, Withdrawn(S),
         \/ pc[r] = "clear" /\ pc'[r] = "store"
         \/ pc[r] = "burn" /\ pc'[r] = "done",
         \A q \in Requests : q # r => pc'[q] = pc[q],
         UNCHANGED <<account, about, usedBy>>
  PROVE  RowInv'
<1>1. \A q \in Requests : about[q].link \in Requests
  BY DEF TypeOK, Locals
<1>2. /\ \A t \in Requests : token[t] = "none" <=> token'[t] = "none"
      /\ \A t \in Requests : token'[t] # token[t] => token'[t] = "deleted"
  BY DEF Withdrawn, Stored
<1>3. KnownUser' /\ UnstoredIsNone'
  BY <1>2 DEF RowInv, KnownUser, UnstoredIsNone, Stored
<1>4. LinkIsStored'
  BY <1>1, <1>2 DEF RowInv, LinkIsStored, Stored
<1>5. MarkedFirst'
  BY <1>1, <1>2 DEF RowInv, MarkedFirst, Gone
<1>6. SpentIsGone'
  BY <1>2 DEF RowInv, SpentIsGone, Gone
<1>7. NothingLeftBehind'
  BY <1>2 DEF RowInv, NothingLeftBehind, Open
<1>8. QED
  BY <1>3, <1>4, <1>5, <1>6, <1>7 DEF RowInv

LEMMA RowIssue ==
  ASSUME TypeOK, RowInv, NEW r \in Requests, ClearOld(r) \/ StoreToken(r) \/ MailLink(r)
  PROVE  RowInv'
<1>1. CASE ClearOld(r)
  <2>1. /\ pc[r] = "clear" /\ pc'[r] = "store"
        /\ \A q \in Requests : q # r => pc'[q] = pc[q]
        /\ Withdrawn(Outstanding(Key(r)))
        /\ UNCHANGED <<account, about, usedBy>>
    BY <1>1 DEF ClearOld, DeleteTokens, GoTo, Withdrawn, Outstanding, TypeOK
  <2>2. QED
    BY <2>1, RowWithdraw
<1>2. CASE StoreToken(r)
  <2>1. /\ ~Stored(r) /\ token'[r] = "valid" /\ Open(about[r].user)
        /\ pc[r] = "store" /\ pc'[r] = "mail"
        /\ \A t \in Requests : t # r => token'[t] = token[t] /\ pc'[t] = pc[t]
        /\ UNCHANGED <<account, about, usedBy>>
    BY <1>2 DEF StoreToken, OwnerExists, GoTo, TypeOK, RowInv, UnstoredIsNone
  <2>2. KnownUser' /\ UnstoredIsNone'
    BY <2>1 DEF RowInv, KnownUser, UnstoredIsNone, Stored
  <2>3. /\ LinkIsStored' /\ MarkedFirst'
    <3>1. \A q \in Requests : about[q].link \in Requests
      BY DEF TypeOK, Locals
    <3>2. LinkIsStored'
      BY <2>1, <3>1 DEF RowInv, LinkIsStored, Stored
    <3>3. MarkedFirst'
      BY <2>1, <3>1 DEF RowInv, MarkedFirst, Stored, Gone
    <3>4. QED
      BY <3>2, <3>3
  <2>4. SpentIsGone'
    BY <2>1 DEF RowInv, SpentIsGone, Stored, Gone
  <2>5. NothingLeftBehind'
    BY <2>1 DEF RowInv, NothingLeftBehind, Open
  <2>6. QED
    BY <2>2, <2>3, <2>4, <2>5 DEF RowInv
<1>3. CASE MailLink(r)
  BY <1>3 DEF MailLink, GoTo, Stored, Open, Gone, TypeOK, RowInv,
     KnownUser, UnstoredIsNone, LinkIsStored, MarkedFirst, SpentIsGone, NothingLeftBehind
<1>4. QED
  BY <1>1, <1>2, <1>3

LEMMA RowRedeem ==
  ASSUME TypeOK, RowInv, NEW r \in Requests,
         \/ \E t \in Requests, p \in Purpose : Redeem(r, t, p)
         \/ MarkUsed(r) \/ Apply(r) \/ BurnOthers(r)
  PROVE  RowInv'
<1>1. ASSUME NEW t \in Requests, NEW p \in Purpose, Redeem(r, t, p)
      PROVE  RowInv'
  <2>1. /\ pc[r] = "ready" /\ pc'[r] = "mark" /\ token[t] = "valid"
        /\ about'[r].link = t /\ about'[r].user = about[t].user
        /\ \A q \in Requests : q # r => pc'[q] = pc[q] /\ about'[q] = about[q]
        /\ UNCHANGED <<account, token, usedBy>>
    BY <1>1 DEF Redeem, Begin, Live, GoTo, TypeOK
  <2>2. ~Stored(r) /\ about[t].user \in Accounts
    BY <2>1 DEF RowInv, KnownUser, UnstoredIsNone, Stored
  <2>3. KnownUser' /\ UnstoredIsNone' /\ LinkIsStored'
    BY <2>1, <2>2 DEF RowInv, KnownUser, UnstoredIsNone, LinkIsStored, Stored
  <2>4. MarkedFirst' /\ SpentIsGone'
    BY <2>1 DEF RowInv, MarkedFirst, SpentIsGone
  <2>5. NothingLeftBehind'
    BY <2>1, <2>2 DEF RowInv, NothingLeftBehind, Open, Stored
  <2>6. QED
    BY <2>3, <2>4, <2>5 DEF RowInv
<1>2. CASE MarkUsed(r)
  <2>1. /\ pc[r] = "mark" /\ pc'[r] = "apply" /\ about[r].link \in Requests
        /\ \A q \in Requests : q # r => pc'[q] = pc[q]
        /\ \A t \in Requests : token'[t] =
             IF t = about[r].link THEN Marked(token[t]) ELSE token[t]
        /\ UNCHANGED <<account, about, usedBy>>
    BY <1>2 DEF MarkUsed, GoTo, TypeOK, Locals
  <2>2. Stored(about[r].link)
    BY <2>1 DEF RowInv, LinkIsStored
  <2>3. \A t \in Requests : /\ token[t] = "none" <=> token'[t] = "none"
                            /\ token'[t] # token[t] => token'[t] = "used" /\ token[t] # "deleted"
    BY <2>1, <2>2 DEF Marked, Stored
  <2>4. \A q \in Requests : about[q].link \in Requests
    BY DEF TypeOK, Locals
  <2>5. KnownUser' /\ UnstoredIsNone'
    BY <2>1, <2>3 DEF RowInv, KnownUser, UnstoredIsNone, Stored
  <2>6. LinkIsStored'
    BY <2>1, <2>3, <2>4 DEF RowInv, LinkIsStored, Stored
  <2>7. MarkedFirst'
    BY <2>1, <2>3, <2>4 DEF RowInv, MarkedFirst, Gone, Marked
  <2>8. SpentIsGone'
    BY <2>1, <2>3 DEF RowInv, SpentIsGone, Gone
  <2>9. NothingLeftBehind'
    BY <2>1, <2>3 DEF RowInv, NothingLeftBehind, Open
  <2>10. QED
    BY <2>5, <2>6, <2>7, <2>8, <2>9 DEF RowInv
<1>3. CASE Apply(r)
  <2>1. /\ pc[r] = "apply" /\ pc'[r] = "burn" /\ about[r].link \in Requests
        /\ \A q \in Requests : q # r => pc'[q] = pc[q]
        /\ \A t \in Requests : t # about[r].link => usedBy'[t] = usedBy[t]
        /\ UNCHANGED <<token, about>>
    BY <1>3 DEF Apply, GoTo, TypeOK, Locals
  <2>2. \A a \in Accounts : account'[a].status = account[a].status
    BY <1>3 DEF Apply, Applied, TypeOK, AccountRow
  <2>3. KnownUser' /\ UnstoredIsNone' /\ LinkIsStored' /\ MarkedFirst'
    BY <2>1 DEF RowInv, KnownUser, UnstoredIsNone, LinkIsStored, MarkedFirst, Stored
  <2>4. SpentIsGone'
    BY <2>1 DEF RowInv, MarkedFirst, SpentIsGone
  <2>5. NothingLeftBehind'
    BY <2>1, <2>2 DEF RowInv, KnownUser, UnstoredIsNone, NothingLeftBehind, Open, Stored
  <2>6. QED
    BY <2>3, <2>4, <2>5 DEF RowInv
<1>4. CASE BurnOthers(r)
  <2>1. /\ pc[r] = "burn" /\ pc'[r] = "done"
        /\ \A q \in Requests : q # r => pc'[q] = pc[q]
        /\ Withdrawn(Outstanding(Key(r)))
        /\ UNCHANGED <<account, about, usedBy>>
    BY <1>4 DEF BurnOthers, DeleteTokens, GoTo, Withdrawn, Outstanding, TypeOK
  <2>2. QED
    BY <2>1, RowWithdraw
<1>5. QED
  BY <1>1, <1>2, <1>3, <1>4

LEMMA RowOther ==
  ASSUME TypeOK, RowInv,
         \/ \E r \in Requests : Fail(r)
         \/ \E t \in Requests : Expire(t)
         \/ \E a \in Accounts : Erase(a)
  PROVE  RowInv'
<1>1. ASSUME NEW r \in Requests, Fail(r) PROVE RowInv'
  BY <1>1 DEF Fail, Stored, Open, Gone, TypeOK, RowInv,
     KnownUser, UnstoredIsNone, LinkIsStored, MarkedFirst, SpentIsGone, NothingLeftBehind
<1>2. ASSUME NEW t \in Requests, Expire(t) PROVE RowInv'
  BY <1>2 DEF Expire, Live, Stored, Open, Gone, TypeOK, RowInv,
     KnownUser, UnstoredIsNone, LinkIsStored, MarkedFirst, SpentIsGone, NothingLeftBehind
<1>3. ASSUME NEW a \in Accounts, Erase(a) PROVE RowInv'
  <2>1. /\ \A b \in Accounts : b # a => account'[b] = account[b]
        /\ \A t \in Requests : token'[t] =
             IF token[t] # "none" /\ about[t].user = a THEN "deleted" ELSE token[t]
        /\ UNCHANGED <<pc, about, usedBy>>
    BY <1>3 DEF Erase, DeleteTokens, Stored, TypeOK
  <2>2. KnownUser' /\ UnstoredIsNone' /\ LinkIsStored'
    BY <2>1 DEF RowInv, KnownUser, UnstoredIsNone, LinkIsStored, Stored, TypeOK, Locals
  <2>3. MarkedFirst' /\ SpentIsGone'
    BY <2>1 DEF RowInv, MarkedFirst, SpentIsGone, Gone, TypeOK, Locals
  <2>4. NothingLeftBehind'
    BY <2>1 DEF RowInv, KnownUser, UnstoredIsNone, NothingLeftBehind, Open, Stored
  <2>5. QED
    BY <2>2, <2>3, <2>4 DEF RowInv
<1>4. QED
  BY <1>1, <1>2, <1>3

LEMMA RowStep == TypeOK /\ RowInv /\ [Next]_vars => RowInv'
<1> SUFFICES ASSUME TypeOK, RowInv, [Next]_vars PROVE RowInv'
  OBVIOUS
<1>1. ASSUME NEW r \in Requests, Serve(r) PROVE RowInv'
  BY <1>1, RowBegin, RowIssue, RowRedeem, RowOther DEF Serve
<1>2. CASE UNCHANGED vars
  BY <1>2 DEF vars, Stored, Open, RowInv, KnownUser, UnstoredIsNone, LinkIsStored,
     MarkedFirst, SpentIsGone, NothingLeftBehind
<1>3. QED
  BY <1>1, <1>2, RowOther DEF Next

(* No row of auth_tokens belongs to an account that is not there.          *)
THEOREM ErasedIsErased == Spec => []NothingLeftBehind
<1>1. RowInv => NothingLeftBehind
  BY DEF RowInv
<1>2. QED
  BY TypeInit, TypeStep, RowInit, RowStep, <1>1, PTL DEF Spec

-----------------------------------------------------------------------------
(* A link used twice.  A request that redeems, or did so successfully.     *)
Redeems(q) == pc[q] \in {"mark", "apply"} \/ q \in usedBy[about[q].link]

UsersActed   == \A t \in Requests : \A q \in usedBy[t] :
                  about[q].link = t /\ pc[q] \in {"burn", "done", "failed"}
RedeemersMet == \A q, r \in Requests :
                  Redeems(q) /\ Redeems(r) /\ q # r /\ about[q].link = about[r].link
                  => <<q, r>> \in met

\* The inductive invariant of the redemptions.
UseInv == UsersActed /\ RedeemersMet

LEMMA UseInit == Init => UseInv
BY DEF Init, UseInv, UsersActed, RedeemersMet, Redeems

\* No request turns to redeem and no link is used.
LEMMA UseKept ==
  ASSUME TypeOK, TypeOK', UseInv, usedBy' = usedBy, met \subseteq met',
         \A q \in Requests : pc'[q] \in {"mark", "apply"} => pc[q] \in {"mark", "apply"},
         \A q \in Requests : pc[q] # "ready" => about'[q] = about[q],
         \A q \in Requests : pc[q] \in {"burn", "done", "failed"} =>
                              pc'[q] \in {"burn", "done", "failed"}
  PROVE  UseInv'
<1>1. UsersActed'
  BY DEF TypeOK, UseInv, UsersActed
<1>2. ASSUME NEW q \in Requests, Redeems(q)'
      PROVE  Redeems(q) /\ about'[q] = about[q]
  <2>1. CASE pc'[q] \in {"mark", "apply"}
    BY <2>1 DEF Redeems
  <2>2. CASE q \in usedBy'[about'[q].link]
    <3>1. about'[q].link \in Requests /\ q \in usedBy[about'[q].link]
      BY <2>2 DEF TypeOK, Locals
    <3>2. about[q].link = about'[q].link /\ pc[q] # "ready"
      BY <3>1 DEF UseInv, UsersActed
    <3>3. QED
      BY <3>1, <3>2 DEF Redeems
  <2>3. QED
    BY <1>2, <2>1, <2>2 DEF Redeems
<1>3. RedeemersMet'
  BY <1>2 DEF UseInv, RedeemersMet
<1>4. QED
  BY <1>1, <1>3 DEF UseInv

\* A request that finds a link meets all that redeem it: the link is live, so
\* none of them is past the mark.
LEMMA UseRedeem ==
  ASSUME TypeOK, RowInv, UseInv, NEW r \in Requests, NEW t \in Requests,
         NEW p \in Purpose, Redeem(r, t, p)
  PROVE  UseInv'
<1> DEFINE S == {s \in Requests : pc[s] = "mark" /\ about[s].link = t}
<1>1. /\ pc[r] = "ready" /\ pc'[r] = "mark" /\ about'[r].link = t /\ Live(t)
      /\ \A q \in Requests : q # r => pc'[q] = pc[q] /\ about'[q] = about[q]
      /\ usedBy' = usedBy
      /\ met' = met \cup ({r} \X S) \cup (S \X {r})
  BY DEF Redeem, Meets, Begin, GoTo, TypeOK
<1>2. \A u \in Requests : r \notin usedBy[u]
  BY <1>1 DEF UseInv, UsersActed
<1>3. UsersActed'
  <2>1. ASSUME NEW u \in Requests, NEW q \in usedBy'[u]
        PROVE  about'[q].link = u /\ pc'[q] \in {"burn", "done", "failed"}
    <3>1. q \in usedBy[u] /\ q \in Requests /\ q # r
      BY <1>1, <1>2, <2>1 DEF TypeOK
    <3>2. QED
      BY <1>1, <3>1 DEF UseInv, UsersActed
  <2>2. QED
    BY <2>1 DEF UsersActed
<1>4. ASSUME NEW q \in Requests, q # r, Redeems(q)', about'[q].link = t
      PROVE  q \in S
  <2>1. /\ about[q].link = t /\ token[t] = "valid"
        /\ pc[q] \in {"mark", "apply"} \/ q \in usedBy[t]
    BY <1>1, <1>4 DEF Redeems, Live
  <2>2. pc[q] # "apply"
    BY <2>1 DEF RowInv, MarkedFirst, Gone
  <2>3. q \notin usedBy[t]
    BY <2>1 DEF RowInv, SpentIsGone, Gone
  <2>4. QED
    BY <2>1, <2>2, <2>3
<1>5. ASSUME NEW q \in Requests, NEW s \in Requests,
             Redeems(q)', Redeems(s)', q # s, about'[q].link = about'[s].link
      PROVE  <<q, s>> \in met'
  <2>1. CASE q = r
    BY <1>1, <1>4, <1>5, <2>1
  <2>2. CASE s = r
    BY <1>1, <1>4, <1>5, <2>2
  <2>3. CASE q # r /\ s # r
    BY <1>1, <1>5, <2>3 DEF UseInv, RedeemersMet, Redeems
  <2>4. QED
    BY <2>1, <2>2, <2>3
<1>6. QED
  BY <1>3, <1>5 DEF UseInv, RedeemersMet

\* The request that uses the link is among those that redeem it.
LEMMA UseApply ==
  ASSUME TypeOK, UseInv, NEW r \in Requests, Apply(r)
  PROVE  UseInv'
<1> DEFINE t == about[r].link
<1>1. /\ pc[r] = "apply" /\ pc'[r] = "burn" /\ t \in Requests
      /\ \A q \in Requests : q # r => pc'[q] = pc[q]
      /\ \A u \in Requests : usedBy'[u] \subseteq usedBy[u] \cup {r}
      /\ \A u \in Requests : u # t => usedBy'[u] = usedBy[u]
      /\ about' = about /\ met' = met
  BY DEF Apply, GoTo, TypeOK, Locals
<1>2. UsersActed'
  <2>1. ASSUME NEW u \in Requests, NEW q, q \in usedBy'[u]
        PROVE  about'[q].link = u /\ pc'[q] \in {"burn", "done", "failed"}
    <3>1. CASE q = r
      <4>1. r \notin usedBy[u]
        BY <1>1 DEF UseInv, UsersActed
      <4>2. u = t
        BY <1>1, <2>1, <3>1, <4>1
      <4>3. QED
        BY <1>1, <3>1, <4>2
    <3>2. CASE q # r
      <4>1. q \in usedBy[u] /\ q \in Requests
        BY <1>1, <2>1, <3>2 DEF TypeOK
      <4>2. QED
        BY <1>1, <3>2, <4>1 DEF UseInv, UsersActed
    <3>3. QED
      BY <3>1, <3>2
  <2>2. QED
    BY <2>1 DEF UsersActed
<1>3. \A q \in Requests : about[q].link \in Requests
  BY DEF TypeOK, Locals
<1>4. \A q \in Requests : Redeems(q)' => Redeems(q)
  BY <1>1, <1>3 DEF Redeems
<1>5. RedeemersMet'
  BY <1>1, <1>4 DEF UseInv, RedeemersMet
<1>6. QED
  BY <1>2, <1>5 DEF UseInv

LEMMA UseStep == TypeOK /\ RowInv /\ UseInv /\ [Next]_vars => UseInv'
<1> SUFFICES ASSUME TypeOK, RowInv, UseInv, [Next]_vars PROVE UseInv'
  OBVIOUS
<1>0. TypeOK'
  BY TypeStep
<1>1. ASSUME NEW r \in Requests, NEW a \in Accounts,
             Register(r, a) \/ ResendVerification(r, a) \/ RequestPasswordReset(r, a)
      PROVE  UseInv'
  <2>1. /\ pc[r] = "ready" /\ pc' = [pc EXCEPT ![r] = "clear"]
        /\ \A q \in Requests : q # r => about'[q] = about[q]
        /\ UNCHANGED <<usedBy, met>>
    BY <1>1 DEF Register, ResendVerification, RequestPasswordReset, Begin, GoTo, TypeOK
  <2>2. QED
    BY <1>0, <2>1, UseKept DEF TypeOK
<1>2. ASSUME NEW r \in Requests, ClearOld(r) PROVE UseInv'
  BY <1>0, <1>2, UseKept DEF ClearOld, Meets, GoTo, TypeOK
<1>3. ASSUME NEW r \in Requests,
             StoreToken(r) \/ MailLink(r) \/ MarkUsed(r) \/ BurnOthers(r) \/ Fail(r)
      PROVE  UseInv'
  BY <1>0, <1>3, UseKept DEF StoreToken, MailLink, MarkUsed, BurnOthers, Fail, GoTo, TypeOK
<1>4. CASE \/ \E t \in Requests : Expire(t)
           \/ \E a \in Accounts : Erase(a)
           \/ UNCHANGED vars
  BY <1>0, <1>4, UseKept DEF Expire, Erase, vars
<1>5. QED
  BY <1>1, <1>2, <1>3, <1>4, UseRedeem, UseApply DEF Next, Serve

(* migration 0003 calls a link single-use.  One that confirmed an address  *)
(* or changed a password is not found again, whatever fails, and requests  *)
(* that used the same link were in redeemToken at the same time.           *)
THEOREM UsedOnceUnlessMet == Spec => []SingleUseUnlessMet
<1>1. TypeOK /\ RowInv /\ UseInv => SingleUseUnlessMet
  <2>1. SUFFICES ASSUME TypeOK, RowInv, UseInv, NEW t \in Requests
                 PROVE  /\ usedBy[t] # {} => ~Live(t)
                        /\ \A q, r \in usedBy[t] : q # r => <<q, r>> \in met
    BY DEF SingleUseUnlessMet
  <2>2. usedBy[t] # {} => ~Live(t)
    BY <2>1 DEF RowInv, SpentIsGone, Live, Gone
  <2>3. \A q \in usedBy[t] : q \in Requests /\ about[q].link = t /\ Redeems(q)
    BY <2>1 DEF TypeOK, UseInv, UsersActed, Redeems
  <2>4. QED
    BY <2>1, <2>2, <2>3 DEF UseInv, RedeemersMet
<1>2. QED
  BY TypeInit, TypeStep, RowInit, RowStep, UseInit, UseStep, <1>1, PTL DEF Spec

-----------------------------------------------------------------------------
(* Two links that work.  Pairs of requests between the two statements have *)
(* met; so have a request in between and the issuer of a link that works,  *)
(* for the request's deletion would have withdrawn an earlier one.         *)
StoringMet == \A r, s \in Requests :
  pc[r] = "store" /\ pc[s] = "store" /\ r # s /\ Key(r) = Key(s) => <<r, s>> \in met
LiveMet == \A s, t \in Requests :
  pc[s] = "store" /\ Live(t) /\ s # t /\ Key(s) = Key(t) => <<s, t>> \in met /\ <<t, s>> \in met

\* The inductive invariant of the pairs.
PairInv == StoringMet /\ LiveMet /\ TwoLinksMet

LEMMA PairInit == Init => PairInv
BY DEF Init, PairInv, StoringMet, LiveMet, TwoLinksMet, Live

\* No request comes between the two statements and no link becomes live.
LEMMA NoNewPair ==
  ASSUME PairInv, met \subseteq met',
         \A r \in Requests : pc'[r] = "store" => pc[r] = "store",
         \A t \in Requests : token'[t] = "valid" => token[t] = "valid",
         \A r \in Requests : pc[r] = "store" \/ token[r] = "valid" => about'[r] = about[r]
  PROVE  PairInv'
<1>1. \A r \in Requests : pc[r] = "store" \/ token[r] = "valid" => Key(r)' = Key(r)
  BY DEF Key
<1>2. StoringMet'
  BY <1>1 DEF PairInv, StoringMet
<1>3. LiveMet'
  BY <1>1 DEF PairInv, LiveMet, Live
<1>4. TwoLinksMet'
  BY <1>1 DEF PairInv, TwoLinksMet, Live
<1>5. QED
  BY <1>2, <1>3, <1>4 DEF PairInv

\* Those in between with the same user and purpose are recorded; no link of
\* theirs is left.
LEMMA PairClear ==
  ASSUME TypeOK, RowInv, PairInv, NEW r \in Requests, ClearOld(r)
  PROVE  PairInv'
<1> DEFINE S == {s \in Requests : s # r /\ pc[s] = "store" /\ Key(s) = Key(r)}
<1>1. /\ met' = met \cup ({r} \X S) \cup (S \X {r})
      /\ pc'[r] = "store" /\ \A q \in Requests : q # r => pc'[q] = pc[q]
      /\ UNCHANGED about
  BY DEF ClearOld, Meets, GoTo, TypeOK
<1>2. \A t \in Requests : Live(t)' => Live(t) /\ Key(t) # Key(r)
  BY DEF ClearOld, DeleteTokens, Outstanding, Stored, Live
<1>3. \A q \in Requests : Key(q)' = Key(q)
  BY <1>1 DEF Key
<1>4. StoringMet'
  BY <1>1, <1>3 DEF PairInv, StoringMet
<1>5. LiveMet'
  BY <1>1, <1>2, <1>3 DEF PairInv, LiveMet
<1>6. TwoLinksMet'
  BY <1>1, <1>2, <1>3 DEF PairInv, TwoLinksMet
<1>7. QED
  BY <1>4, <1>5, <1>6 DEF PairInv

\* The new link met those in between and the links that work.
LEMMA PairStore ==
  ASSUME TypeOK, RowInv, PairInv, NEW r \in Requests, StoreToken(r)
  PROVE  PairInv'
<1>1. /\ pc[r] = "store" /\ pc'[r] = "mail"
      /\ \A q \in Requests : q # r => pc'[q] = pc[q]
      /\ UNCHANGED <<about, met>>
  BY DEF StoreToken, GoTo, TypeOK
<1>2. \A t \in Requests : t # r => (Live(t)' <=> Live(t))
  BY DEF StoreToken, Live, TypeOK
<1>3. \A q \in Requests : Key(q)' = Key(q)
  BY <1>1 DEF Key
<1>4. StoringMet'
  BY <1>1, <1>3 DEF PairInv, StoringMet
<1>5. LiveMet'
  BY <1>1, <1>2, <1>3 DEF PairInv, LiveMet, StoringMet
<1>6. TwoLinksMet'
  BY <1>1, <1>2, <1>3 DEF PairInv, TwoLinksMet, LiveMet
<1>7. QED
  BY <1>4, <1>5, <1>6 DEF PairInv

LEMMA PairStep == TypeOK /\ RowInv /\ PairInv /\ [Next]_vars => PairInv'
<1> SUFFICES ASSUME TypeOK, RowInv, PairInv, [Next]_vars PROVE PairInv'
  OBVIOUS
<1>1. ASSUME NEW r \in Requests, Serve(r) PROVE PairInv'
  <2>1. ASSUME NEW to \in Stage \ {"store"}, NEW a \in Accounts \cup {Nobody},
               NEW p \in Purpose, NEW t \in Requests, Begin(r, to, a, p, t),
               token' = token, met \subseteq met'
        PROVE  PairInv'
    <3>1. /\ pc[r] = "ready" /\ pc'[r] # "store"
          /\ \A q \in Requests : q # r => pc'[q] = pc[q] /\ about'[q] = about[q]
      BY <2>1 DEF Begin, GoTo, TypeOK
    <3>2. token[r] # "valid"
      BY <3>1 DEF RowInv, UnstoredIsNone, Stored
    <3>3. QED
      BY <2>1, <3>1, <3>2, NoNewPair
  <2>2. ASSUME NEW a \in Accounts,
               Register(r, a) \/ ResendVerification(r, a) \/ RequestPasswordReset(r, a)
        PROVE  PairInv'
    BY <2>1, <2>2 DEF Register, ResendVerification, RequestPasswordReset, Purpose, Stage
  <2>3. ASSUME NEW t \in Requests, NEW p \in Purpose, Redeem(r, t, p)
        PROVE  PairInv'
    <3>1. about[t].user \in Accounts \cup {Nobody} /\ "mark" \in Stage \ {"store"}
      BY DEF TypeOK, Locals, Stage
    <3>2. QED
      BY <2>1, <2>3, <3>1 DEF Redeem, Meets
  <2>4. CASE MailLink(r) \/ Fail(r)
    BY <2>4, NoNewPair DEF MailLink, GoTo, Fail, TypeOK
  <2>5. CASE MarkUsed(r)
    BY <2>5, NoNewPair DEF MarkUsed, GoTo, Marked, TypeOK
  <2>6. CASE Apply(r)
    BY <2>6, NoNewPair DEF Apply, GoTo, TypeOK
  <2>7. CASE BurnOthers(r)
    BY <2>7, NoNewPair DEF BurnOthers, DeleteTokens, GoTo, TypeOK
  <2>8. QED
    BY <1>1, <2>2, <2>3, <2>4, <2>5, <2>6, <2>7, PairClear, PairStore DEF Serve
<1>2. ASSUME NEW t \in Requests, Expire(t) PROVE PairInv'
  BY <1>2, NoNewPair DEF Expire, TypeOK
<1>3. ASSUME NEW a \in Accounts, Erase(a) PROVE PairInv'
  BY <1>3, NoNewPair DEF Erase, DeleteTokens, TypeOK
<1>4. CASE UNCHANGED vars
  BY <1>4, NoNewPair DEF vars
<1>5. QED
  BY <1>1, <1>2, <1>3, <1>4 DEF Next

(* Two links of an account and a purpose work at once only if the requests *)
(* that issued them were inside issueToken at the same time.               *)
THEOREM OneLinkUnlessMet == Spec => []TwoLinksMet
<1>1. PairInv => TwoLinksMet
  BY DEF PairInv
<1>2. QED
  BY TypeInit, TypeStep, RowInit, RowStep, PairInit, PairStep, <1>1, PTL DEF Spec
-----------------------------------------------------------------------------
(* Whose links act, and which of them is left. *)

\* A link in the inbox was mailed by the request of its row, which is done.
MailedIsOwn  == \A t \in inbox : pc[t] = "done" /\ about[t].link = t
\* A request that redeems does so with a mailed link of its user and purpose.
RedeemsOwn   == \A r \in Requests : pc[r] \in {"mark", "apply", "burn"} =>
                  about[r].link \in inbox /\ Key(about[r].link) = Key(r)
\* A request that issues ends with its own link in the inbox.
IssuesOwn    == \A r \in Requests :
                  /\ pc[r] \in {"clear", "store", "mail"} => about[r].link = r
                  /\ pc[r] = "done" /\ about[r].link = r => r \in inbox
\* A request before its first statement is about nobody, and gave no password.
ReadyIsFresh == \A r \in Requests : pc[r] = "ready" =>
                  /\ about[r].user = Nobody
                  /\ \A a \in Accounts : account[a].password # r
SetByRequest == \A a \in Accounts : Open(a) => account[a].password \in Requests

LinkInv == MailedIsOwn /\ RedeemsOwn /\ IssuesOwn /\ ReadyIsFresh /\ SetByRequest

LEMMA LinkInit == Init => LinkInv /\ OwnLinksOnly
<1>1. SUFFICES ASSUME Init PROVE LinkInv /\ OwnLinksOnly
  OBVIOUS
<1>2. \A a \in Accounts : ~Open(a)
  BY <1>1 DEF Init, Open
<1>3. LinkInv
  BY <1>1, <1>2, NobodyAssumption
  DEF Init, LinkInv, MailedIsOwn, RedeemsOwn, IssuesOwn, ReadyIsFresh, SetByRequest
<1>4. QED
  BY <1>2, <1>3 DEF OwnLinksOnly

\* What a step that begins leaves of the others.
LEMMA BeginFrame ==
  ASSUME TypeOK, NEW r \in Requests, NEW to, NEW a, NEW p, NEW t, Begin(r, to, a, p, t)
  PROVE  /\ pc[r] = "ready" /\ pc'[r] = to
         /\ about'[r] = [user |-> a, purpose |-> p, link |-> t]
         /\ \A q \in Requests : q # r => pc'[q] = pc[q] /\ about'[q] = about[q]
BY DEF Begin, GoTo, TypeOK

LEMMA LinkBegin ==
  ASSUME TypeOK, LinkInv, NEW r \in Requests, NEW a \in Accounts,
         Register(r, a) \/ ResendVerification(r, a) \/ RequestPasswordReset(r, a)
  PROVE  LinkInv'
<1>1. PICK p \in Purpose : Begin(r, "clear", a, p, r)
  BY DEF Register, ResendVerification, RequestPasswordReset, Purpose
<1>2. /\ pc[r] = "ready" /\ pc'[r] = "clear"
      /\ about'[r].link = r /\ about'[r].user = a
      /\ \A q \in Requests : q # r => pc'[q] = pc[q] /\ about'[q] = about[q]
  <2>1. /\ pc[r] = "ready" /\ pc'[r] = "clear"
        /\ about'[r] = [user |-> a, purpose |-> p, link |-> r]
        /\ \A q \in Requests : q # r => pc'[q] = pc[q] /\ about'[q] = about[q]
    BY <1>1, BeginFrame
  <2>2. QED
    BY <2>1
<1>3. inbox' = inbox /\ inbox \subseteq Requests
  BY DEF Register, ResendVerification, RequestPasswordReset, TypeOK
<1>4. r \notin inbox
  BY <1>2 DEF LinkInv, MailedIsOwn
<1>5. MailedIsOwn' /\ IssuesOwn'
  BY <1>2, <1>3, <1>4 DEF LinkInv, MailedIsOwn, IssuesOwn
<1>6. RedeemsOwn'
  BY <1>2, <1>3, <1>4 DEF LinkInv, RedeemsOwn, Key
<1>7. ReadyIsFresh' /\ SetByRequest'
  <2>1. \A b \in Accounts :
          \/ account'[b] = account[b]
          \/ account'[b].password = r
    BY DEF Register, ResendVerification, RequestPasswordReset, TypeOK
  <2>2. QED
    BY <1>2, <2>1 DEF LinkInv, ReadyIsFresh, SetByRequest, Open
<1>8. QED
  BY <1>5, <1>6, <1>7 DEF LinkInv

LEMMA LinkRedeem ==
  ASSUME TypeOK, LinkInv, NEW r \in Requests, NEW t \in Requests, NEW p \in Purpose,
         Redeem(r, t, p)
  PROVE  LinkInv'
<1>1. /\ pc[r] = "ready" /\ pc'[r] = "mark"
      /\ about'[r] = [user |-> about[t].user, purpose |-> p, link |-> t]
      /\ \A q \in Requests : q # r => pc'[q] = pc[q] /\ about'[q] = about[q]
  BY BeginFrame DEF Redeem
<1>2. /\ t \in inbox /\ about[t].purpose = p /\ inbox' = inbox /\ account' = account
      /\ inbox \subseteq Requests
  BY DEF Redeem, Fits, TypeOK
<1>3. r \notin inbox
  BY <1>1 DEF LinkInv, MailedIsOwn
<1>4. RedeemsOwn'
  BY <1>1, <1>2, <1>3 DEF LinkInv, RedeemsOwn, Key
<1>5. MailedIsOwn' /\ IssuesOwn'
  BY <1>1, <1>2, <1>3 DEF LinkInv, MailedIsOwn, IssuesOwn
<1>6. ReadyIsFresh' /\ SetByRequest'
  BY <1>1, <1>2 DEF LinkInv, ReadyIsFresh, SetByRequest, Open
<1>7. QED
  BY <1>4, <1>5, <1>6 DEF LinkInv

\* A request moves on past its beginning.
LEMMA LinkMoves ==
  ASSUME TypeOK, LinkInv, NEW r \in Requests,
         \/ ClearOld(r) \/ StoreToken(r) \/ MailLink(r) \/ MarkUsed(r) \/ Apply(r)
         \/ BurnOthers(r) \/ Fail(r)
  PROVE  LinkInv'
<1>1. /\ about' = about
      /\ inbox' = IF MailLink(r) THEN inbox \cup {r} ELSE inbox
      /\ inbox \subseteq Requests
  BY DEF ClearOld, StoreToken, MailLink, MarkUsed, Apply, BurnOthers, Fail, TypeOK, GoTo
<1>2. /\ \A q \in Requests : q # r => pc'[q] = pc[q]
      /\ \/ <<pc[r], pc'[r]>> \in {<<"clear", "store">>, <<"store", "mail">>,
                                    <<"mail", "done">>, <<"mark", "apply">>,
                                    <<"apply", "burn">>, <<"burn", "done">>}
         \/ pc'[r] = "failed" /\ pc[r] \notin {"ready", "done", "failed"}
      /\ pc[r] = "mail" /\ pc'[r] = "done" => r \in inbox'
      /\ MailLink(r) => pc[r] = "mail" /\ pc'[r] = "done"
  BY <1>1 DEF ClearOld, StoreToken, MailLink, MarkUsed, Apply, BurnOthers, Fail, GoTo, TypeOK
<1>3. pc[r] # "done" /\ pc[r] # "ready" /\ pc'[r] # "ready"
  BY <1>2
<1>4. r \notin inbox
  BY <1>3 DEF LinkInv, MailedIsOwn
<1>5. MailedIsOwn'
  <2>1. ASSUME NEW t \in inbox' PROVE pc'[t] = "done" /\ about'[t].link = t
    <3>1. CASE t = r
      BY <1>1, <1>2, <1>4, <3>1 DEF LinkInv, IssuesOwn
    <3>2. CASE t # r
      BY <1>1, <1>2, <3>2 DEF LinkInv, MailedIsOwn
    <3>3. QED
      BY <3>1, <3>2
  <2>2. QED
    BY <2>1 DEF MailedIsOwn
<1>6. RedeemsOwn'
  <2>1. ASSUME NEW q \in Requests, pc'[q] \in {"mark", "apply", "burn"}
        PROVE  about[q].link \in inbox' /\ Key(about[q].link) = Key(q)
    <3>1. pc[q] \in {"mark", "apply", "burn"}
      BY <1>2, <2>1
    <3>2. QED
      BY <1>1, <3>1 DEF LinkInv, RedeemsOwn
  <2>2. QED
    BY <1>1, <2>1 DEF RedeemsOwn, Key
<1>7. IssuesOwn'
  <2>1. ASSUME NEW q \in Requests
        PROVE  /\ pc'[q] \in {"clear", "store", "mail"} => about'[q].link = q
               /\ pc'[q] = "done" /\ about'[q].link = q => q \in inbox'
    <3>1. CASE q # r
      BY <1>1, <1>2, <3>1 DEF LinkInv, IssuesOwn
    <3>2. CASE q = r
      <4>1. pc'[r] \in {"clear", "store", "mail"} => pc[r] \in {"clear", "store", "mail"}
        BY <1>2
      <4>2. pc[r] = "burn" => about[r].link # r
        BY <1>4 DEF LinkInv, RedeemsOwn
      <4>3. QED
        BY <1>1, <1>2, <3>2, <4>1, <4>2 DEF LinkInv, IssuesOwn
    <3>3. QED
      BY <3>1, <3>2
  <2>2. QED
    BY <2>1 DEF IssuesOwn
<1>8. ReadyIsFresh' /\ SetByRequest'
  <2>1. \A a \in Accounts :
          /\ Open(a)' => Open(a)
          /\ account'[a].password = account[a].password \/ account'[a].password = r
    <3>1. CASE Apply(r)
      <4>1. \A a \in Accounts :
              account'[a] = account[a] \/ account'[a] = Applied(r, account[a])
        BY <3>1 DEF Apply, TypeOK
      <4>2. \A a \in Accounts : /\ Applied(r, account[a]).status = account[a].status
                                /\ \/ Applied(r, account[a]).password = account[a].password
                                   \/ Applied(r, account[a]).password = r
        BY DEF Applied, TypeOK, AccountRow
      <4>3. QED
        BY <4>1, <4>2 DEF Open
    <3>2. CASE ~Apply(r)
      <4>1. account' = account
        BY <3>2 DEF ClearOld, StoreToken, MailLink, MarkUsed, BurnOthers, Fail
      <4>2. QED
        BY <4>1 DEF Open
    <3>3. QED
      BY <3>1, <3>2
  <2>2. QED
    BY <1>1, <1>2, <1>3, <2>1 DEF LinkInv, ReadyIsFresh, SetByRequest
<1>9. QED
  BY <1>5, <1>6, <1>7, <1>8 DEF LinkInv

LEMMA LinkStep == TypeOK /\ LinkInv /\ [Next]_vars => LinkInv'
<1> SUFFICES ASSUME TypeOK, LinkInv, [Next]_vars PROVE LinkInv'
  OBVIOUS
<1>1. ASSUME NEW r \in Requests, Serve(r) PROVE LinkInv'
  BY <1>1, LinkBegin, LinkRedeem, LinkMoves DEF Serve
<1>2. ASSUME UNCHANGED <<pc, about, inbox>>,
             \A a \in Accounts : /\ account'[a].password = account[a].password
                                 /\ Open(a)' => Open(a)
      PROVE  LinkInv'
  <2>1. MailedIsOwn' /\ RedeemsOwn' /\ IssuesOwn'
    BY <1>2 DEF LinkInv, MailedIsOwn, RedeemsOwn, IssuesOwn, Key
  <2>2. ReadyIsFresh'
    BY <1>2 DEF LinkInv, ReadyIsFresh
  <2>3. SetByRequest'
    BY <1>2 DEF LinkInv, SetByRequest
  <2>4. QED
    BY <2>1, <2>2, <2>3 DEF LinkInv
<1>3. ASSUME NEW t \in Requests, Expire(t) PROVE LinkInv'
  BY <1>2, <1>3 DEF Expire, Open
<1>4. ASSUME NEW a \in Accounts, Erase(a) PROVE LinkInv'
  <2>1. \A b \in Accounts : /\ account'[b].password = account[b].password
                            /\ Open(b)' => Open(b)
    BY <1>4 DEF Erase, Open, TypeOK, AccountRow
  <2>2. QED
    BY <1>2, <1>4, <2>1 DEF Erase
<1>5. CASE UNCHANGED vars
  BY <1>2, <1>5 DEF vars, Open
<1>6. QED
  BY <1>1, <1>3, <1>4, <1>5 DEF Next

\* The words of an account: which link confirmed it, which set its password.
Confirmed(a) == \E t \in inbox : usedBy[t] # {} /\ Key(t) = <<a, "verify_email">>
Given(a, q)  == LET t == about[q].link
                IN  \/ t = q /\ about[t].user = a
                    \/ t \in inbox /\ Key(t) = <<a, "password_reset">>

LEMMA OwnLinksByAccount ==
  OwnLinksOnly <=>
    \A a \in Accounts : Open(a) =>
      /\ account[a].verified => Confirmed(a)
      /\ Given(a, account[a].password)
BY DEF OwnLinksOnly, Confirmed, Given

\* Neither is lost while a request that has begun goes on, or another begins.
LEMMA WordsKept ==
  ASSUME TypeOK, LinkInv, NEW a \in Accounts,
         inbox \subseteq inbox',
         \A q \in Requests : pc[q] # "ready" => about'[q] = about[q],
         \A q \in Requests : usedBy[q] # {} => usedBy'[q] # {}
  PROVE  /\ Confirmed(a) => Confirmed(a)'
         /\ \A q \in Requests : pc[q] # "ready" /\ Given(a, q) => Given(a, q)'
<1>1. ASSUME NEW t \in inbox
      PROVE  t \in Requests /\ t \in inbox' /\ about'[t] = about[t] /\ Key(t)' = Key(t)
  BY <1>1 DEF LinkInv, MailedIsOwn, TypeOK, Key
<1>2. Confirmed(a) => Confirmed(a)'
  BY <1>1 DEF Confirmed
<1>3. ASSUME NEW q \in Requests, pc[q] # "ready", Given(a, q) PROVE Given(a, q)'
  <2>1. about'[q] = about[q]
    BY <1>3
  <2>2. CASE about[q].link = q /\ about[q].user = a
    BY <2>1, <2>2 DEF Given
  <2>3. CASE about[q].link \in inbox /\ Key(about[q].link) = <<a, "password_reset">>
    BY <1>1, <2>1, <2>3 DEF Given
  <2>4. QED
    BY <1>3, <2>2, <2>3 DEF Given
<1>4. QED
  BY <1>2, <1>3

\* An account a step leaves as it was keeps its words.
LEMMA OwnLinksKept ==
  ASSUME TypeOK, LinkInv, OwnLinksOnly, NEW a \in Accounts, Open(a),
         account'[a] = account[a],
         inbox \subseteq inbox',
         \A q \in Requests : pc[q] # "ready" => about'[q] = about[q],
         \A q \in Requests : usedBy[q] # {} => usedBy'[q] # {}
  PROVE  (account'[a].verified => Confirmed(a)') /\ Given(a, account[a].password)'
<1>1. account[a].password \in Requests /\ pc[account[a].password] # "ready"
  BY DEF LinkInv, SetByRequest, ReadyIsFresh
<1>2. (account[a].verified => Confirmed(a)) /\ Given(a, account[a].password)
  BY OwnLinksByAccount
<1>3. \A q \in Requests : pc[q] # "ready" /\ Given(a, q) => Given(a, q)'
  BY WordsKept
<1>4. Given(a, account[a].password)'
  BY <1>1, <1>2, <1>3 DEF Given
<1>5. account'[a].verified => Confirmed(a)'
  BY <1>2, WordsKept
<1>6. QED
  BY <1>4, <1>5

\* The password an account is registered with.
LEMMA OwnLinksRegister ==
  ASSUME TypeOK, LinkInv, OwnLinksOnly, NEW r \in Requests, NEW a \in Accounts,
         Register(r, a)
  PROVE  OwnLinksOnly'
<1>1. /\ account'[a] = [status |-> "open", verified |-> FALSE, password |-> r]
      /\ about'[r] = [user |-> a, purpose |-> "verify_email", link |-> r]
      /\ \A b \in Accounts : b # a => account'[b] = account[b]
      /\ pc[r] = "ready" /\ \A q \in Requests : q # r => about'[q] = about[q]
      /\ inbox' = inbox /\ usedBy' = usedBy
  BY BeginFrame DEF Register, TypeOK
<1>2. ASSUME NEW b \in Accounts, Open(b)'
      PROVE  (account'[b].verified => Confirmed(b)') /\ Given(b, account[b].password)'
  <2>1. CASE b = a
    BY <1>1, <2>1 DEF Given
  <2>2. CASE b # a
    <3>1. Open(b) /\ account'[b] = account[b]
      BY <1>1, <1>2, <2>2 DEF Open
    <3>2. /\ \A q \in Requests : pc[q] # "ready" => about'[q] = about[q]
          /\ \A q \in Requests : usedBy[q] # {} => usedBy'[q] # {}
      BY <1>1
    <3>3. QED
      BY <1>1, <3>1, <3>2, OwnLinksKept
  <2>3. QED
    BY <2>1, <2>2
<1>3. QED
  BY <1>2 DEF OwnLinksOnly, Confirmed, Given

\* A link acts on the account it was mailed for, as its purpose says.
LEMMA OwnLinksApply ==
  ASSUME TypeOK, LinkInv, OwnLinksOnly, NEW r \in Requests, Apply(r)
  PROVE  OwnLinksOnly'
<1> DEFINE u == about[r].user
           t == about[r].link
<1>1. /\ t \in Requests /\ about[r].purpose \in Purpose
      /\ t \in inbox /\ Key(t) = <<u, about[r].purpose>>
  BY DEF Apply, GoTo, LinkInv, RedeemsOwn, Key, TypeOK, Locals
<1>2. /\ inbox' = inbox /\ about' = about
      /\ usedBy' = [usedBy EXCEPT ![t] = IF Open(u) THEN usedBy[t] \cup {r} ELSE usedBy[t]]
      /\ account' = [account EXCEPT ![u] = Applied(r, account[u])]
  BY DEF Apply
<1>3. \A q \in Requests : usedBy[q] # {} => usedBy'[q] # {}
  BY <1>2 DEF TypeOK
<1>4. ASSUME NEW a \in Accounts, Open(a)'
      PROVE  (account'[a].verified => Confirmed(a)') /\ Given(a, account[a].password)'
  <2>1. CASE a # u
    <3>1. account'[a] = account[a] /\ Open(a)
      BY <1>2, <1>4, <2>1 DEF TypeOK, Open
    <3>2. QED
      BY <1>2, <1>3, <3>1, OwnLinksKept
  <2>2. CASE a = u
    <3>1. account'[a] = Applied(r, account[a]) /\ account[a] \in AccountRow
      BY <1>2, <2>2 DEF TypeOK
    <3>2. Open(a)
      BY <1>4, <3>1 DEF Open, Applied
    <3>3. /\ account[a].password \in Requests /\ pc[account[a].password] # "ready"
          /\ Given(a, account[a].password) /\ (account[a].verified => Confirmed(a))
      BY <3>2, OwnLinksByAccount DEF LinkInv, SetByRequest, ReadyIsFresh
    <3>4. CASE about[r].purpose = "verify_email"
      <4>1. account'[a].password = account[a].password
        BY <3>1, <3>2, <3>4 DEF Applied, Open, AccountRow
      <4>2. usedBy'[t] # {} /\ Key(t)' = <<a, "verify_email">>
        BY <1>1, <1>2, <2>2, <3>2, <3>4 DEF TypeOK, Key
      <4>3. Confirmed(a)'
        BY <1>1, <1>2, <4>2 DEF Confirmed
      <4>4. Given(a, account[a].password)'
        BY <1>2, <3>3, <4>1 DEF Given, Key
      <4>5. QED
        BY <4>3, <4>4
    <3>5. CASE about[r].purpose = "password_reset"
      <4>1. account'[a].password = r /\ account'[a].verified = account[a].verified
        BY <3>1, <3>2, <3>5 DEF Applied, Open, AccountRow
      <4>2. Given(a, account[a].password)'
        BY <1>1, <1>2, <2>2, <3>5, <4>1 DEF Given, Key
      <4>3. Confirmed(a) => Confirmed(a)'
        BY <1>2, <1>3, WordsKept
      <4>4. QED
        BY <3>3, <4>1, <4>2, <4>3
    <3>6. QED
      BY <1>1, <3>4, <3>5 DEF Purpose
  <2>3. QED
    BY <2>1, <2>2
<1>5. QED
  BY <1>4 DEF OwnLinksOnly, Confirmed, Given

LEMMA OwnLinksStep == TypeOK /\ LinkInv /\ OwnLinksOnly /\ [Next]_vars => OwnLinksOnly'
<1> SUFFICES ASSUME TypeOK, LinkInv, OwnLinksOnly, [Next]_vars PROVE OwnLinksOnly'
  OBVIOUS
<1>1. ASSUME inbox \subseteq inbox', usedBy' = usedBy,
             \A q \in Requests : pc[q] # "ready" => about'[q] = about[q],
             \A a \in Accounts : Open(a)' => account'[a] = account[a]
      PROVE  OwnLinksOnly'
  <2>1. ASSUME NEW a \in Accounts, Open(a)'
        PROVE  (account'[a].verified => Confirmed(a)') /\ Given(a, account[a].password)'
    <3>1. account'[a] = account[a] /\ Open(a)
      BY <1>1, <2>1 DEF Open
    <3>2. \A q \in Requests : usedBy[q] # {} => usedBy'[q] # {}
      BY <1>1
    <3>3. QED
      BY <1>1, <3>1, <3>2, OwnLinksKept
  <2>2. QED
    BY <2>1 DEF OwnLinksOnly, Confirmed, Given
<1>2. ASSUME NEW r \in Requests,
             \/ \E a \in Accounts : ResendVerification(r, a) \/ RequestPasswordReset(r, a)
             \/ \E t \in Requests, p \in Purpose : Redeem(r, t, p)
      PROVE  OwnLinksOnly'
  <2>1. /\ UNCHANGED <<account, inbox, usedBy>>
        /\ \A q \in Requests : pc[q] # "ready" => about'[q] = about[q]
    BY <1>2, BeginFrame DEF ResendVerification, RequestPasswordReset, Redeem
  <2>2. QED
    BY <1>1, <2>1
<1>3. ASSUME NEW r \in Requests,
             \/ ClearOld(r) \/ StoreToken(r) \/ MailLink(r) \/ MarkUsed(r)
             \/ BurnOthers(r) \/ Fail(r)
      PROVE  OwnLinksOnly'
  <2>1. UNCHANGED <<account, about, usedBy>> /\ inbox \subseteq inbox'
    BY <1>3 DEF ClearOld, StoreToken, MailLink, MarkUsed, BurnOthers, Fail
  <2>2. QED
    BY <1>1, <2>1
<1>4. ASSUME NEW t \in Requests, Expire(t) PROVE OwnLinksOnly'
  BY <1>1, <1>4 DEF Expire
<1>5. ASSUME NEW a \in Accounts, Erase(a) PROVE OwnLinksOnly'
  <2>1. \A b \in Accounts : Open(b)' => account'[b] = account[b]
    BY <1>5 DEF Erase, Open, TypeOK, AccountRow
  <2>2. QED
    BY <1>1, <1>5, <2>1 DEF Erase
<1>6. CASE UNCHANGED vars
  BY <1>1, <1>6 DEF vars
<1>7. QED
  BY <1>2, <1>3, <1>4, <1>5, <1>6, OwnLinksRegister, OwnLinksApply DEF Next, Serve

(* auth.go: an account is confirmed and its password is set only by links  *)
(* that were mailed for it and for that purpose, however the requests that *)
(* issue and redeem them interleave, fail, or meet its erasure.            *)
THEOREM OnlyOwnLinksAct == Spec => []OwnLinksOnly
BY TypeInit, TypeStep, LinkInit, LinkStep, OwnLinksStep, PTL DEF Spec
-----------------------------------------------------------------------------
(* The newest link. *)

\* Nothing else than issuing happened to user a's links of purpose p.
Quiet(a, p) ==
  \A r \in Asked(a, p) : pc[r] # "failed" /\ about[r].link = r /\ token[r] # "expired"

\* A request that will still store its link, or has and it works.
Newest(a, p) ==
  \E r \in Asked(a, p) :
    \/ pc[r] \in {"clear", "store"}
    \/ pc[r] \in {"mail", "done"} /\ Live(r)

NewestWorks ==
  \A a \in Accounts, p \in Purpose :
    Open(a) /\ Asked(a, p) # {} /\ Quiet(a, p) => Newest(a, p)

\* Nobody asks for the links of an account that was never registered.
AskedIsBorn ==
  \A r \in Requests : about[r].user \in Accounts =>
                       account[about[r].user].status # "none"

NewestInv == NewestWorks /\ AskedIsBorn

LEMMA NewestInit == Init => NewestInv
BY NobodyAssumption DEF Init, NewestInv, NewestWorks, AskedIsBorn, Asked, Open

\* A step that leaves the requests of one account and purpose as they were, but
\* for how far they are.
LEMMA NewestKept ==
  ASSUME TypeOK, NewestWorks, NEW a \in Accounts, NEW p \in Purpose,
         Open(a)' => Open(a),
         Asked(a, p)' = Asked(a, p),
         \A q \in Asked(a, p) :
           /\ token'[q] = token[q] /\ about'[q] = about[q]
           /\ pc[q] = "failed" => pc'[q] = "failed"
           /\ pc[q] \in {"clear", "store"} => pc'[q] \in {"clear", "store"}
           /\ pc[q] \in {"mail", "done"} => pc'[q] \in {"mail", "done"}
  PROVE  (Open(a) /\ Asked(a, p) # {} /\ Quiet(a, p) => Newest(a, p))'
<1>1. SUFFICES ASSUME Open(a)', Asked(a, p)' # {}, Quiet(a, p)' PROVE Newest(a, p)'
  OBVIOUS
<1>2. Quiet(a, p)
  BY <1>1 DEF Quiet
<1>3. PICK r \in Asked(a, p) :
        \/ pc[r] \in {"clear", "store"}
        \/ pc[r] \in {"mail", "done"} /\ Live(r)
  BY <1>1, <1>2 DEF NewestWorks, Newest
<1>4. QED
  BY <1>3 DEF Newest, Live

LEMMA AskedByKey ==
  ASSUME NEW a, NEW p
  PROVE  \A r \in Requests : r \in Asked(a, p) <=> Key(r) = <<a, p>>
BY DEF Asked, Key

\* A request that begins to issue.
LEMMA NewestBegin ==
  ASSUME TypeOK, LinkInv, NewestInv, NEW r \in Requests, NEW b \in Accounts,
         Register(r, b) \/ ResendVerification(r, b) \/ RequestPasswordReset(r, b)
  PROVE  NewestInv'
<1>1. PICK k \in Purpose : Begin(r, "clear", b, k, r)
  BY DEF Register, ResendVerification, RequestPasswordReset, Purpose
<1>2. /\ pc[r] = "ready" /\ pc'[r] = "clear"
      /\ about'[r] = [user |-> b, purpose |-> k, link |-> r]
      /\ \A q \in Requests : q # r => pc'[q] = pc[q] /\ about'[q] = about[q]
  BY <1>1, BeginFrame
<1>3. token' = token
  BY DEF Register, ResendVerification, RequestPasswordReset
<1>4. /\ account'[b].status = "open"
      /\ \A a \in Accounts : a # b => account'[a] = account[a]
      /\ Open(b) \/ account[b].status = "none"
  BY DEF Register, ResendVerification, RequestPasswordReset, Open, TypeOK
<1>5. ASSUME NEW a \in Accounts, NEW p \in Purpose
      PROVE  (Open(a) /\ Asked(a, p) # {} /\ Quiet(a, p) => Newest(a, p))'
  <2>1. CASE a = b /\ p = k
    <3>1. r \in Asked(a, p)'
      BY <1>2, <2>1 DEF Asked
    <3>2. QED
      BY <1>2, <3>1 DEF Newest
  <2>2. CASE ~(a = b /\ p = k)
    <3>1. r \notin Asked(a, p) /\ r \notin Asked(a, p)'
      BY <1>2, <2>2, NobodyAssumption DEF Asked, LinkInv, ReadyIsFresh
    <3>2. Asked(a, p)' = Asked(a, p)
      BY <1>2, <3>1 DEF Asked
    <3>3. \A q \in Asked(a, p) :
            /\ token'[q] = token[q] /\ about'[q] = about[q] /\ pc'[q] = pc[q]
      BY <1>2, <1>3, <3>1 DEF Asked
    <3>4. CASE Open(a)
      BY <3>2, <3>3, <3>4, NewestKept DEF NewestInv
    <3>5. CASE ~Open(a)
      <4>1. ~Open(a)' \/ account[a].status = "none"
        BY <1>4, <3>5 DEF Open
      <4>2. account[a].status = "none" => Asked(a, p) = {}
        BY DEF NewestInv, AskedIsBorn, Asked
      <4>3. QED
        BY <3>2, <4>1, <4>2
    <3>6. QED
      BY <3>4, <3>5
  <2>3. QED
    BY <2>1, <2>2
<1>6. AskedIsBorn'
  BY <1>2, <1>4 DEF NewestInv, AskedIsBorn
<1>7. QED
  BY <1>5, <1>6 DEF NewestInv, NewestWorks

\* A request that begins to redeem.
LEMMA NewestRedeem ==
  ASSUME TypeOK, LinkInv, NewestInv, NEW r \in Requests, NEW t \in Requests,
         NEW k \in Purpose, Redeem(r, t, k)
  PROVE  NewestInv'
<1>1. /\ pc[r] = "ready" /\ t \in inbox
      /\ about'[r] = [user |-> about[t].user, purpose |-> k, link |-> t]
      /\ \A q \in Requests : q # r => pc'[q] = pc[q] /\ about'[q] = about[q]
      /\ UNCHANGED <<token, account>>
  BY BeginFrame DEF Redeem
<1>2. t # r
  BY <1>1 DEF LinkInv, MailedIsOwn
<1>3. ASSUME NEW a \in Accounts, NEW p \in Purpose
      PROVE  (Open(a) /\ Asked(a, p) # {} /\ Quiet(a, p) => Newest(a, p))'
  <2>1. r \notin Asked(a, p)
    BY <1>1, NobodyAssumption DEF Asked, LinkInv, ReadyIsFresh
  <2>2. CASE r \in Asked(a, p)'
    <3>1. about'[r].link # r
      BY <1>1, <1>2
    <3>2. QED
      BY <2>2, <3>1 DEF Quiet
  <2>3. CASE r \notin Asked(a, p)'
    <3>1. Asked(a, p)' = Asked(a, p)
      BY <1>1, <2>1, <2>3 DEF Asked
    <3>2. \A q \in Asked(a, p) :
            /\ token'[q] = token[q] /\ about'[q] = about[q] /\ pc'[q] = pc[q]
      BY <1>1, <2>1 DEF Asked
    <3>3. QED
      BY <1>1, <3>1, <3>2, NewestKept DEF NewestInv, Open
  <2>4. QED
    BY <2>2, <2>3
<1>4. AskedIsBorn'
  BY <1>1 DEF NewestInv, AskedIsBorn
<1>5. QED
  BY <1>3, <1>4 DEF NewestInv, NewestWorks

\* The statements, the mail, a failure: of the requests of one account and
\* purpose, either r is the newest after it, or all is not quiet, or the step
\* is not about them.
LEMMA NewestMoves ==
  ASSUME TypeOK, LinkInv, NewestInv, NEW r \in Requests,
         \/ ClearOld(r) \/ StoreToken(r) \/ MailLink(r) \/ MarkUsed(r) \/ Apply(r)
         \/ BurnOthers(r) \/ Fail(r)
  PROVE  NewestInv'
<1>1. about' = about
  BY DEF ClearOld, StoreToken, MailLink, MarkUsed, Apply, BurnOthers, Fail
<1>2. /\ \A q \in Requests : q # r => pc'[q] = pc[q]
      /\ \/ pc'[r] = "store"
         \/ pc'[r] = "mail" /\ token'[r] = "valid"
         \/ pc[r] = "mail" /\ pc'[r] = "done" /\ token' = token
         \/ pc[r] \in {"mark", "apply", "burn"}
         \/ pc'[r] = "failed"
  BY DEF ClearOld, StoreToken, MailLink, MarkUsed, Apply, BurnOthers, Fail, GoTo, TypeOK
<1>3. \A q \in Requests : Key(q) # Key(r) => token'[q] = token[q]
  <2>1. CASE MarkUsed(r)
    <3>1. Key(about[r].link) = Key(r)
      BY <2>1 DEF MarkUsed, GoTo, LinkInv, RedeemsOwn
    <3>2. QED
      BY <2>1, <3>1 DEF MarkUsed, TypeOK
  <2>2. CASE ~MarkUsed(r)
    BY <2>2 DEF ClearOld, StoreToken, MailLink, Apply, BurnOthers, Fail, DeleteTokens,
       Outstanding, TypeOK
  <2>3. QED
    BY <2>1, <2>2
<1>4. \A a \in Accounts : account'[a].status = account[a].status
  <2>1. CASE Apply(r)
    <3>1. \A a \in Accounts : Applied(r, account[a]).status = account[a].status
      BY DEF Applied, TypeOK, AccountRow
    <3>2. \A a \in Accounts :
            account'[a] = account[a] \/ account'[a] = Applied(r, account[a])
      BY <2>1 DEF Apply, TypeOK
    <3>3. QED
      BY <3>1, <3>2
  <2>2. CASE ~Apply(r)
    BY <2>2 DEF ClearOld, StoreToken, MailLink, MarkUsed, BurnOthers, Fail
  <2>3. QED
    BY <2>1, <2>2
<1>5. ASSUME NEW a \in Accounts, NEW p \in Purpose
      PROVE  (Open(a) /\ Asked(a, p) # {} /\ Quiet(a, p) => Newest(a, p))'
  <2>0. Asked(a, p)' = Asked(a, p) /\ (Open(a)' => Open(a))
    BY <1>1, <1>4 DEF Asked, Open
  <2>1. CASE r \notin Asked(a, p)
    <3>1. \A q \in Asked(a, p) : q \in Requests /\ q # r /\ Key(q) # Key(r)
      BY <2>1, AskedByKey DEF Asked
    <3>2. \A q \in Asked(a, p) :
            /\ token'[q] = token[q] /\ about'[q] = about[q] /\ pc'[q] = pc[q]
      BY <1>1, <1>2, <1>3, <3>1
    <3>3. QED
      BY <2>0, <3>2, NewestKept DEF NewestInv
  <2>2. CASE r \in Asked(a, p)
    <3>1. CASE pc'[r] = "store" \/ (pc'[r] = "mail" /\ token'[r] = "valid")
      BY <2>0, <2>2, <3>1 DEF Newest, Live
    <3>2. CASE pc[r] \in {"mark", "apply", "burn"} \/ pc'[r] = "failed"
      <4>1. about[r].link # r \/ pc'[r] = "failed"
        BY <3>2 DEF LinkInv, RedeemsOwn, MailedIsOwn
      <4>2. ~Quiet(a, p)'
        BY <1>1, <2>0, <2>2, <4>1 DEF Quiet
      <4>3. QED
        BY <4>2
    <3>3. CASE pc[r] = "mail" /\ pc'[r] = "done" /\ token' = token
      <4>1. \A q \in Asked(a, p) :
              /\ token'[q] = token[q] /\ about'[q] = about[q]
              /\ pc[q] = "failed" => pc'[q] = "failed"
              /\ pc[q] \in {"clear", "store"} => pc'[q] \in {"clear", "store"}
              /\ pc[q] \in {"mail", "done"} => pc'[q] \in {"mail", "done"}
        BY <1>1, <1>2, <3>3 DEF Asked
      <4>2. QED
        BY <2>0, <4>1, NewestKept DEF NewestInv
    <3>4. QED
      BY <1>2, <3>1, <3>2, <3>3
  <2>3. QED
    BY <2>1, <2>2
<1>6. AskedIsBorn'
  BY <1>1, <1>4 DEF NewestInv, AskedIsBorn
<1>7. QED
  BY <1>5, <1>6 DEF NewestInv, NewestWorks

LEMMA NewestOther ==
  ASSUME TypeOK, NewestInv,
         \/ \E t \in Requests : Expire(t)
         \/ \E b \in Accounts : Erase(b)
         \/ UNCHANGED vars
  PROVE  NewestInv'
<1>1. /\ pc' = pc /\ about' = about
      /\ \A a \in Accounts :
           /\ Open(a)' => Open(a)
           /\ account'[a].status = "none" => account[a].status = "none"
  BY DEF Expire, Erase, vars, Open, TypeOK, AccountRow
<1>2. ASSUME NEW a \in Accounts, NEW p \in Purpose, Open(a)',
             \A q \in Asked(a, p) : token'[q] = token[q]
      PROVE  (Open(a) /\ Asked(a, p) # {} /\ Quiet(a, p) => Newest(a, p))'
  <2>1. Asked(a, p)' = Asked(a, p)
    BY <1>1 DEF Asked
  <2>2. QED
    BY <1>1, <1>2, <2>1, NewestKept DEF NewestInv
<1>3. ASSUME NEW a \in Accounts, NEW p \in Purpose
      PROVE  (Open(a) /\ Asked(a, p) # {} /\ Quiet(a, p) => Newest(a, p))'
  <2>1. CASE \E t \in Requests : Expire(t)
    <3>1. PICK t \in Requests : Expire(t)
      BY <2>1
    <3>2. CASE t \in Asked(a, p)
      BY <1>1, <3>1, <3>2 DEF Quiet, Expire, Asked, TypeOK
    <3>3. CASE t \notin Asked(a, p)
      BY <1>2, <3>1, <3>3 DEF Expire, TypeOK, Asked
    <3>4. QED
      BY <3>2, <3>3
  <2>2. CASE \E b \in Accounts : Erase(b)
    <3>1. PICK b \in Accounts : Erase(b)
      BY <2>2
    <3>2. CASE a = b
      BY <3>1, <3>2 DEF Erase, Open, TypeOK, AccountRow
    <3>3. CASE a # b
      BY <1>2, <3>1, <3>3 DEF Erase, DeleteTokens, Asked
    <3>4. QED
      BY <3>2, <3>3
  <2>3. CASE UNCHANGED vars
    BY <1>2, <2>3 DEF vars
  <2>4. QED
    BY <2>1, <2>2, <2>3
<1>4. AskedIsBorn'
  BY <1>1 DEF NewestInv, AskedIsBorn
<1>5. QED
  BY <1>3, <1>4 DEF NewestInv, NewestWorks

(* Requests that withdraw each other's links leave one that works: when    *)
(* all of an account's requests for a purpose are done, undisturbed, the   *)
(* link stored last can be redeemed (auth.go: issueToken).                 *)
THEOREM NewestLinkWorks == Spec => []SomeLinkWorks
<1>1. TypeOK /\ LinkInv /\ NewestInv /\ [Next]_vars => NewestInv'
  BY NewestBegin, NewestRedeem, NewestMoves, NewestOther DEF Next, Serve
<1>2. LinkInv /\ NewestInv => SomeLinkWorks
  <2>1. SUFFICES ASSUME LinkInv, NewestInv, NEW a \in Accounts, NEW p \in Purpose,
                        Open(a), Asked(a, p) # {},
                        \A r \in Asked(a, p) :
                          pc[r] = "done" /\ about[r].link = r /\ token[r] # "expired"
                 PROVE  \E t \in Asked(a, p) \cap inbox : Live(t)
    BY DEF SomeLinkWorks
  <2>2. Quiet(a, p)
    BY <2>1 DEF Quiet
  <2>3. PICK t \in Asked(a, p) : Live(t)
    BY <2>1, <2>2 DEF NewestInv, NewestWorks, Newest
  <2>4. t \in inbox
    BY <2>1 DEF LinkInv, IssuesOwn, Asked
  <2>5. QED
    BY <2>3, <2>4
<1>3. QED
  BY <1>1, <1>2, TypeInit, TypeStep, LinkInit, LinkStep, NewestInit, PTL DEF Spec
=============================================================================
