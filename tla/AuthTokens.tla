----------------------------- MODULE AuthTokens -----------------------------
(***************************************************************************)
(* The e-mailed links of internal/service/auth.go: registration, the two   *)
(* requests that issue a link, and the two that redeem one, database       *)
(* statement by database statement, for the successive accounts of one     *)
(* address (every statement is keyed by one user id or by one address).    *)
(*                                                                         *)
(* A request issues at most one token, so the token a request issues goes  *)
(* by the request's name.  Any statement or mail may fail, which ends the  *)
(* request; a crash is the failure of every request under way.             *)
(***************************************************************************)
EXTENDS Naturals

CONSTANTS
  Accounts,   \* user ids the address is given, one account after the other
  Requests,   \* requests, each served once
  Nobody      \* no account or request yet

ASSUME NobodyAssumption == Nobody \notin Accounts \cup Requests

VARIABLES
  account,    \* the users rows of the address
  token,      \* the auth_tokens rows, by the request that issues them
  inbox,      \* tokens that were mailed: the raw value exists nowhere else
  pc,         \* where each request stands
  about,      \* each request's locals: the user id, the purpose, and the
              \* link it issues (its own) or redeems
  usedBy,     \* history: the requests that confirmed or changed an account
              \* through a link
  met         \* history: requests that were at the same time between the two
              \* statements of issueToken, for the same user and purpose, or
              \* between the two of redeemToken, for the same link

vars == <<account, token, inbox, pc, about, usedBy, met>>

-----------------------------------------------------------------------------
Purpose == {"verify_email", "password_reset"}

AccountRow == [status: {"none", "open", "erased"}, verified: BOOLEAN,
               password: Requests \cup {Nobody}]   \* the request that set it

\* A row is redeemable as long as it is "valid".
TokenState == {"none", "valid", "expired", "used", "deleted"}

Stage == {"ready", "clear", "store", "mail", "mark", "apply", "burn", "done", "failed"}

Locals == [user: Accounts \cup {Nobody}, purpose: Purpose, link: Requests]

TypeOK ==
  /\ account \in [Accounts -> AccountRow]
  /\ token \in [Requests -> TokenState]
  /\ inbox \subseteq Requests
  /\ pc \in [Requests -> Stage]
  /\ about \in [Requests -> Locals]
  /\ usedBy \in [Requests -> SUBSET Requests]
  /\ met \subseteq Requests \X Requests

Init ==
  /\ account = [a \in Accounts |->
                  [status |-> "none", verified |-> FALSE, password |-> Nobody]]
  /\ token = [t \in Requests |-> "none"]
  /\ inbox = {}
  /\ pc = [r \in Requests |-> "ready"]
  /\ about = [r \in Requests |->
                [user |-> Nobody, purpose |-> "verify_email", link |-> r]]
  /\ usedBy = [t \in Requests |-> {}]
  /\ met = {}

-----------------------------------------------------------------------------
Open(a) == account[a].status = "open"

Key(r)     == <<about[r].user, about[r].purpose>>
Stored(t)  == token[t] # "none"
Live(t)    == token[t] = "valid"

\* Requests met by r when it comes between two statements where those in S are.
Meets(r, S) == met' = met \cup ({r} \X S) \cup (S \X {r})

GoTo(r, from, to) == pc[r] = from /\ pc' = [pc EXCEPT ![r] = to]

\* A request turns to user a's links of purpose p.
Begin(r, to, a, p, t) ==
  /\ GoTo(r, "ready", to)
  /\ about' = [about EXCEPT ![r] = [user |-> a, purpose |-> p, link |-> t]]

\* Register: CreateUser; the address is unique among the users rows.
Register(r, a) ==
  /\ account[a].status = "none"
  /\ \A b \in Accounts : ~Open(b)
  /\ account' = [account EXCEPT ![a] =
                   [status |-> "open", verified |-> FALSE, password |-> r]]
  /\ Begin(r, "clear", a, "verify_email", r)
  /\ UNCHANGED <<token, inbox, usedBy, met>>

\* ResendVerification: GetUserByID, and the return of ErrAlreadyVerified.
ResendVerification(r, a) ==
  /\ Open(a) /\ ~account[a].verified
  /\ Begin(r, "clear", a, "verify_email", r)
  /\ UNCHANGED <<account, token, inbox, usedBy, met>>

\* RequestPasswordReset: GetUserByEmail.
RequestPasswordReset(r, a) ==
  /\ Open(a)
  /\ Begin(r, "clear", a, "password_reset", r)
  /\ UNCHANGED <<account, token, inbox, usedBy, met>>

\* The rows DeleteAuthTokensForUser deletes.  Mutants: of any purpose; only
\* those that can no longer be redeemed.
MutAnyPurpose(k) == {t \in Requests : Stored(t) /\ Key(t)[1] = k[1]}
MutNotLive(k)    == {t \in Requests : Stored(t) /\ ~Live(t) /\ Key(t) = k}
Outstanding(k)   == {t \in Requests : Stored(t) /\ Key(t) = k}

DeleteTokens(S) == token' = [t \in Requests |-> IF t \in S THEN "deleted" ELSE token[t]]

\* issueToken, first statement.
ClearOld(r) ==
  /\ GoTo(r, "clear", "store")
  /\ DeleteTokens(Outstanding(Key(r)))
  /\ Meets(r, {s \in Requests : s # r /\ pc[s] = "store" /\ Key(s) = Key(r)})
  /\ UNCHANGED <<account, inbox, about, usedBy>>

\* The foreign key of auth_tokens.  Mutant: there is none.
MutOwnerExists(a) == account[a].status \in {"open", "erased"}
OwnerExists(a)    == Open(a)

\* issueToken, second statement: CreateAuthToken, refused without its user.
StoreToken(r) ==
  /\ GoTo(r, "store", "mail")
  /\ OwnerExists(about[r].user)
  /\ token' = [token EXCEPT ![r] = "valid"]
  /\ UNCHANGED <<account, inbox, about, usedBy, met>>

MailLink(r) ==
  /\ GoTo(r, "mail", "done")
  /\ inbox' = inbox \cup {r}
  /\ UNCHANGED <<account, token, about, usedBy, met>>

-----------------------------------------------------------------------------
\* Mutant: the purpose is not part of GetValidAuthToken.
MutFits(t, p) == p \in Purpose
Fits(t, p) == about[t].purpose = p

\* VerifyEmail, ResetPassword: redeemToken, GetValidAuthToken.  Without such a
\* row the request ends in ErrInvalidToken and nothing changes.
Redeem(r, t, p) ==
  /\ t \in inbox /\ Live(t) /\ Fits(t, p)
  /\ Begin(r, "mark", about[t].user, p, t)
  /\ Meets(r, {s \in Requests : pc[s] = "mark" /\ about[s].link = t})
  /\ UNCHANGED <<account, token, inbox, usedBy>>

\* What MarkAuthTokenUsed leaves of a row.  Mutant: used_at is not written.
MutMarked(s) == s
Marked(s) == IF s = "deleted" THEN "deleted" ELSE "used"

\* redeemToken, MarkAuthTokenUsed: an UPDATE by id, of a row that may be gone.
MarkUsed(r) ==
  /\ GoTo(r, "mark", "apply")
  /\ token' = [token EXCEPT ![about[r].link] = Marked(@)]
  /\ UNCHANGED <<account, inbox, about, usedBy, met>>

\* MarkEmailVerified or UpdateUserPassword: no row and no error once the
\* account is erased.  Mutant: the two arguments of the UPDATE are swapped.
MutApplied(r, row) ==
  IF row.status # "open" THEN row
  ELSE IF about[r].purpose = "verify_email" THEN [row EXCEPT !.verified = TRUE]
  ELSE [row EXCEPT !.password = about[r].user]
Applied(r, row) ==
  IF row.status # "open" THEN row
  ELSE IF about[r].purpose = "verify_email" THEN [row EXCEPT !.verified = TRUE]
  ELSE [row EXCEPT !.password = r]

Apply(r) ==
  /\ GoTo(r, "apply", "burn")
  /\ account' = [account EXCEPT ![about[r].user] = Applied(r, @)]
  /\ usedBy' = [usedBy EXCEPT ![about[r].link] =
                  IF Open(about[r].user) THEN @ \cup {r} ELSE @]
  /\ UNCHANGED <<token, inbox, about, met>>

\* The other links of the purpose are burnt; an error is ignored.
BurnOthers(r) ==
  /\ GoTo(r, "burn", "done")
  /\ DeleteTokens(Outstanding(Key(r)))
  /\ UNCHANGED <<account, inbox, about, usedBy, met>>

-----------------------------------------------------------------------------
\* A statement, the mail or HashPassword fails (a password bcrypt refuses), or
\* StoreToken violates the foreign key.
Fail(r) ==
  /\ pc[r] \notin {"ready", "done", "failed"}
  /\ pc' = [pc EXCEPT ![r] = "failed"]
  /\ UNCHANGED <<account, token, inbox, about, usedBy, met>>

\* expires_at is reached.
Expire(t) ==
  /\ Live(t)
  /\ token' = [token EXCEPT ![t] = "expired"]
  /\ UNCHANGED <<account, inbox, pc, about, usedBy, met>>

\* AccountService.Delete: the tokens go with the users row (ON DELETE CASCADE).
Erase(a) ==
  /\ Open(a)
  /\ account' = [account EXCEPT ![a].status = "erased"]
  /\ DeleteTokens({t \in Requests : Stored(t) /\ about[t].user = a})
  /\ UNCHANGED <<inbox, pc, about, usedBy, met>>

-----------------------------------------------------------------------------
Serve(r) ==
  \/ \E a \in Accounts :
       Register(r, a) \/ ResendVerification(r, a) \/ RequestPasswordReset(r, a)
  \/ ClearOld(r) \/ StoreToken(r) \/ MailLink(r)
  \/ \E t \in Requests, p \in Purpose : Redeem(r, t, p)
  \/ MarkUsed(r) \/ Apply(r) \/ BurnOthers(r)
  \/ Fail(r)

Next ==
  \/ \E r \in Requests : Serve(r)
  \/ \E t \in Requests : Expire(t)
  \/ \E a \in Accounts : Erase(a)

Spec == Init /\ [][Next]_vars

-----------------------------------------------------------------------------
(* A link is for a single use (migration 0003; queries.sql: redeemable     *)
(* only while unused), although marking it, acting on it and deleting the  *)
(* others are separate statements and the last one's error is ignored.     *)
(* One that confirmed an address or changed a password is not found again, *)
(* and when two requests both did it with the same link, they were between *)
(* the lookup and the mark at the same time: nothing else uses a link      *)
(* twice.                                                                  *)
SingleUseUnlessMet ==
  \A t \in Requests :
    /\ usedBy[t] # {} => ~Live(t)
    /\ \A q, r \in usedBy[t] : q # r => <<q, r>> \in met

(* Issuing a link withdraws the earlier ones of its purpose (auth.go:      *)
(* issueToken): when two links work at once, their requests were between   *)
(* the deletion and the insert at the same time.                           *)
TwoLinksMet ==
  \A s, t \in Requests :
    Live(s) /\ Live(t) /\ s # t /\ Key(s) = Key(t) => <<s, t>> \in met

(* Requests that withdraw each other's links leave one that works: when    *)
(* all of an account's requests for a purpose have ended, none of them     *)
(* failed, none redeemed a link and no link expired, one in the inbox can  *)
(* be redeemed.                                                            *)
Asked(a, p) == {r \in Requests : about[r].user = a /\ about[r].purpose = p}

SomeLinkWorks ==
  \A a \in Accounts, p \in Purpose :
    /\ Open(a) /\ Asked(a, p) # {}
    /\ \A r \in Asked(a, p) :
         pc[r] = "done" /\ about[r].link = r /\ token[r] # "expired"
    => \E t \in Asked(a, p) \cap inbox : Live(t)

(* Erasing an account leaves no token of it behind (account.go), nor does  *)
(* a request that looked the account up before it was erased.              *)
NothingLeftBehind ==
  \A t \in Requests : token[t] \notin {"none", "deleted"} => Open(about[t].user)

(* An account is confirmed only by a confirmation link mailed for it, and  *)
(* its password is the one it was registered with or one set through a     *)
(* reset link mailed for it -- never through a link of the other purpose   *)
(* or of an earlier account of the same address.                           *)
OwnLinksOnly ==
  \A a \in Accounts : Open(a) =>
    /\ account[a].verified =>
         \E t \in inbox : usedBy[t] # {} /\ Key(t) = <<a, "verify_email">>
    /\ LET t == about[account[a].password].link
       IN  \/ t = account[a].password /\ about[t].user = a
           \/ t \in inbox /\ Key(t) = <<a, "password_reset">>
=============================================================================
