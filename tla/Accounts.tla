------------------------------- MODULE Accounts -----------------------------
(***************************************************************************)
(* Accounts: signup, login by password and through OAuth providers,        *)
(* logout, deletion, e-mail verification, password reset and the profile.  *)
(*                                                                         *)
(* A user row is named by its e-mail address: the address is UNIQUE and no *)
(* row is ever removed, so an account and its address are one thing.  The  *)
(* RPCs are goroutines; every statement outside of a transaction is an     *)
(* action, and a transaction is split where it waits for a row or where    *)
(* what it read may be out of date when it commits.  lock[e] is the        *)
(* transaction that holds the row of e FOR UPDATE, or that has inserted it *)
(* and not yet committed; nobody else sees the row before that.            *)
(***************************************************************************)
EXTENDS Naturals

CONSTANTS Emails,       \* addresses, normalised
          Identities,   \* <<provider, provider_id>>
          Calls,        \* RPCs and OAuth callbacks
          Nobody        \* no account, no call

ASSUME NobodyAssumption == Nobody \notin Emails /\ Nobody \notin Calls

VARIABLES
    exists, deleted, verified, named, password,     \* users
    trial,          \* accounts with their free_grant
    link,           \* oauth_accounts: the account of an identity
    session,        \* auth_sessions: the account of the row each call wrote
    lock,           \* row locks and uncommitted inserts
    tokens,         \* signed tokens in mails, still valid: <<purpose, account>>
    at,             \* where each call is
    path,           \* what kind of call it is
    about,          \* the account it is about
    ident,          \* the identity that logs in
    nameless,       \* logins that read a user row without a display name
    sweep,          \* auth_sessions that a deletion has seen
    answer          \* what the client is told

userRows     == <<exists, deleted, verified, named, password>>
otherRows    == <<trial, link, session, tokens>>
callVars     == <<at, path, about, ident, nameless, sweep, answer>>
accountsVars == <<userRows, otherRows, lock, callVars>>

Purposes == {"verify-email", "reset-password"}

AccountsInit ==
    /\ exists = {} /\ deleted = {} /\ verified = {} /\ named = {} /\ password = {}
    /\ trial = {} /\ link = [i \in Identities |-> Nobody]
    /\ session = [c \in Calls |-> Nobody] /\ tokens = {}
    /\ lock = [e \in Emails |-> Nobody]
    /\ at = [c \in Calls |-> "idle"] /\ path = [c \in Calls |-> "none"]
    /\ about = [c \in Calls |-> Nobody] /\ ident = [c \in Calls |-> Nobody]
    /\ nameless = {} /\ sweep = [c \in Calls |-> {}]
    /\ answer = [c \in Calls |-> "none"]
-----------------------------------------------------------------------------
(***************************************************************************)
(* What each RPC makes of the outcomes of its backend method               *)
(***************************************************************************)
SignupCode  == [ok |-> "ok", duplicate |-> "already_exists", invalid |-> "invalid_argument",
                failed |-> "internal"]
LoginCode   == [ok |-> "ok", credentials |-> "unauthenticated", failed |-> "internal"]
LogoutCode  == [ok |-> "ok"]
VerifyCode  == [ok |-> "ok", invalid |-> "invalid_argument", failed |-> "internal"]
ForgotCode  == [ok |-> "ok", unknown |-> "ok", failed |-> "ok"]
ResetCode   == [ok |-> "ok", invalid |-> "invalid_argument", failed |-> "internal"]
DeleteCode  == [ok |-> "ok", session |-> "unauthenticated", failed |-> "internal"]
ProfileCode == [ok |-> "ok", session |-> "unauthenticated", invalid |-> "invalid_argument",
                failed |-> "internal"]
CallbackRedirect == [ok |-> "home", nameless |-> "complete-profile", failed |-> "login"]

Failure(c) == CASE path[c] = "signup" -> SignupCode.failed
                [] path[c] = "login"  -> LoginCode.failed
                [] path[c] = "reset"  -> ResetCode.failed
                [] path[c] = "delete" -> DeleteCode.failed
                [] path[c] = "rename" -> ProfileCode.failed
                [] OTHER              -> CallbackRedirect.failed

Go(c, to) == at[c] # "done" /\ at' = [at EXCEPT ![c] = to]
Start(c, kind, e) ==
    /\ at[c] = "idle"
    /\ path' = [path EXCEPT ![c] = kind] /\ about' = [about EXCEPT ![c] = e]
Finish(c, code) == Go(c, "done") /\ answer' = [answer EXCEPT ![c] = code]

\* Nobody else holds the row.
Free(e, c) == lock[e] \in {Nobody, c}
Lock(e, c) == Free(e, c) /\ lock' = [lock EXCEPT ![e] = c]
Unlock(c)  == lock' = [e \in Emails |-> IF lock[e] = c THEN Nobody ELSE lock[e]]

\* TokenSigner.Verify: signed, for this purpose, not expired.
Valid(purpose, e) == <<purpose, e>> \in tokens
\* TokenSigner.Sign
Sign(purpose, e) == tokens' = tokens \cup {<<purpose, e>>}
-----------------------------------------------------------------------------
(***************************************************************************)
(* The statements on users, oauth_accounts and auth_sessions               *)
(***************************************************************************)
\* No account that is deleted is found.
GetUserByEmail(e) == e \in exists \ deleted
\* Deleted or not; waits for the row, which it locks.
GetUserByEmailForUpdate(c, e) == e \in exists /\ Lock(e, c)
\* A name is required to sign up; an identity provider may give none.
InsertUser(e) ==
    exists' = exists \cup {e} /\ password' = password \cup {e} /\ named' = named \cup {e}
InsertOAuthUser(e, name) ==
    /\ exists' = exists \cup {e} /\ verified' = verified \cup {e}
    /\ named' = IF name THEN named \cup {e} ELSE named
VerifyUserEmail(e)      == verified' = verified \cup {e}
UpdateUserPassword(e)   == password' = password \cup {e}
UpdateUserDisplayName(e) == e \notin deleted /\ named' = named \cup {e}
ReactivateUser(e)       == deleted' = deleted \ {e} /\ VerifyUserEmail(e)
SoftDelete(e)           == deleted' = deleted \cup {e}

GetOAuthAccount(i) == link[i]

\* An unexpired session of an account not deleted.
GetAuthSessionByToken(c) == session[c] # Nobody /\ session[c] \notin deleted
\* Its foreign key takes a share lock on the user row.
CreateAuthSession(c, e) == Free(e, c) /\ session' = [session EXCEPT ![c] = e]
DeleteAuthSession(d)    == session' = [session EXCEPT ![d] = Nobody]
DeleteAuthSessions(ds)  == session' = [d \in Calls |-> IF d \in ds THEN Nobody ELSE session[d]]

\* AuthenticateSession, for the RPCs, the interceptor and RequireAuth.
AuthenticateSession(d) == GetAuthSessionByToken(d)
\* HashPassword, CheckPassword: an account without a password never matches.
CheckPassword(e, right) == e \in password /\ right
-----------------------------------------------------------------------------
(***************************************************************************)
(* Signup                                                                  *)
(***************************************************************************)
\* A field is missing or the password has the wrong length.
RefuseSignup(c, e) ==
    /\ Start(c, "signup", e) /\ Finish(c, SignupCode.invalid)
    /\ UNCHANGED <<userRows, otherRows, lock, ident, nameless, sweep>>

\* Mutant: the mail is queued by the pool and not by the transaction.
CreateUserAndMail(c, e) ==
    /\ Start(c, "signup", e)
    /\ \/ e \in exists /\ Finish(c, SignupCode.duplicate) /\ UNCHANGED <<lock, tokens>>
       \/ /\ e \notin exists
          /\ Lock(e, c) /\ Go(c, "signing") /\ Sign("verify-email", e) /\ UNCHANGED answer
    /\ UNCHANGED <<userRows, trial, link, session, ident, nameless, sweep>>

\* CreateUser: a duplicate is refused, deleted or not; a row that another
\* transaction is inserting is waited for.
CreateUser(c, e) ==
    /\ Start(c, "signup", e)
    /\ \/ e \in exists /\ Finish(c, SignupCode.duplicate) /\ UNCHANGED lock
       \/ e \notin exists /\ Lock(e, c) /\ Go(c, "signing") /\ UNCHANGED answer
    /\ UNCHANGED <<userRows, otherRows, ident, nameless, sweep>>

\* provisionNewUser, EnsureFreeGrant
ProvisionNewUser(e) == trial' = trial \cup {e}

\* The user, the trial and the verification mail are committed together.
CommitSignup(c) ==
    /\ at[c] = "signing"
    /\ InsertUser(about[c]) /\ ProvisionNewUser(about[c]) /\ Sign("verify-email", about[c])
    /\ Unlock(c) /\ Finish(c, SignupCode.ok)
    /\ UNCHANGED <<deleted, verified, link, session, path, about, ident, nameless, sweep>>
-----------------------------------------------------------------------------
(***************************************************************************)
(* Login and Logout                                                        *)
(***************************************************************************)
LookUpPassword(c, e) ==
    /\ Start(c, "login", e)
    /\ \E right \in BOOLEAN :
          IF GetUserByEmail(e) /\ CheckPassword(e, right)
            THEN Go(c, "opening") /\ UNCHANGED answer
            ELSE Finish(c, LoginCode.credentials)
    /\ UNCHANGED <<userRows, otherRows, lock, ident, nameless, sweep>>

\* The account may have been deleted since.
OpenSession(c) ==
    /\ at[c] = "opening"
    /\ CreateAuthSession(c, about[c]) /\ Finish(c, LoginCode.ok)
    /\ UNCHANGED <<userRows, trial, link, tokens, lock, path, about, ident, nameless, sweep>>

\* The session of a deleted account is not found and stays.
Logout(c, d) ==
    /\ Start(c, "logout", session[d]) /\ Finish(c, LogoutCode.ok)
    /\ IF AuthenticateSession(d) THEN DeleteAuthSession(d) ELSE UNCHANGED session
    /\ UNCHANGED <<userRows, trial, link, tokens, lock, ident, nameless, sweep>>
-----------------------------------------------------------------------------
(***************************************************************************)
(* OAuthLogin: one transaction, READ COMMITTED                             *)
(***************************************************************************)
\* GetUserByIDIncludingDeleted, GetUserByEmailForUpdate: the path that the
\* row found leads to.
PathOf(e, found) == IF e \in deleted THEN "reactivated" ELSE found

ReadUser(c, e, found) ==
    /\ path' = [path EXCEPT ![c] = PathOf(e, found)]
    /\ about' = [about EXCEPT ![c] = e]
    /\ nameless' = IF e \in named THEN nameless ELSE nameless \cup {c}
    /\ Go(c, "resolved")

\* (A) The provider's address may have changed since the last login.  The
\* row of the user is read without a lock.
ReadLink(c, i, e) ==
    /\ at[c] = "idle"
    /\ ident' = [ident EXCEPT ![c] = i]
    /\ IF GetOAuthAccount(i) # Nobody
         THEN ReadUser(c, GetOAuthAccount(i), "existing")
         ELSE Start(c, "oauth", e) /\ Go(c, "finding") /\ UNCHANGED nameless
    /\ UNCHANGED <<userRows, otherRows, lock, sweep, answer>>

\* Mutant: GetUserByEmailForUpdate without FOR UPDATE.
FindByEmailUnlocked(c) ==
    /\ at[c] = "finding"
    /\ IF about[c] \in exists
         THEN Free(about[c], c) /\ ReadUser(c, about[c], "linked")
         ELSE Go(c, "creating") /\ UNCHANGED <<path, about, nameless>>
    /\ UNCHANGED <<userRows, otherRows, lock, ident, sweep, answer>>

\* (B) FOR UPDATE waits for a committed row; it does not see another one.
FindByEmail(c) ==
    /\ at[c] = "finding"
    /\ IF about[c] \in exists
         THEN GetUserByEmailForUpdate(c, about[c]) /\ ReadUser(c, about[c], "linked")
         ELSE Go(c, "creating") /\ UNCHANGED <<lock, path, about, nameless>>
    /\ UNCHANGED <<userRows, otherRows, ident, sweep, answer>>

\* (C) ON CONFLICT DO NOTHING waits for an insert in progress; if that is
\* committed, the row is selected again.  The provider may know no name.
CreateOAuthUserOrNoop(c) ==
    /\ at[c] = "creating"
    /\ IF about[c] \in exists
         THEN Go(c, "finding") /\ UNCHANGED <<lock, path, nameless>>
         ELSE /\ Lock(about[c], c) /\ Go(c, "resolved")
              /\ path' = [path EXCEPT ![c] = "new"]
              /\ nameless' \in {nameless, nameless \cup {c}}
    /\ UNCHANGED <<userRows, otherRows, about, ident, sweep, answer>>

\* Mutant: ON CONFLICT DO UPDATE SET user_id.
MoveLink(c) == link' = [link EXCEPT ![ident[c]] = about[c]]

\* LinkOAuthAccount: ON CONFLICT DO NOTHING, and no row is no error.
LinkOAuthAccount(c) ==
    link' = IF link[ident[c]] = Nobody THEN [link EXCEPT ![ident[c]] = about[c]] ELSE link

\* The writes of each path.
RegisterUser(c) ==
    /\ path[c] = "new"
    /\ InsertOAuthUser(about[c], c \notin nameless)
    /\ ProvisionNewUser(about[c]) /\ LinkOAuthAccount(c)
    /\ UNCHANGED <<deleted, password>>

Reactivate(c) ==
    /\ path[c] = "reactivated"
    /\ ReactivateUser(about[c])
    /\ LinkOAuthAccount(c)
    /\ UNCHANGED <<exists, named, password, trial>>

LinkExisting(c) ==
    /\ path[c] = "linked"
    /\ VerifyUserEmail(about[c])
    /\ LinkOAuthAccount(c)
    /\ UNCHANGED <<exists, deleted, named, password, trial>>

KnownIdentity(c) == path[c] = "existing" /\ UNCHANGED <<userRows, trial, link>>

\* The callback sets the session cookie and redirects.
CommitOAuth(c) ==
    /\ at[c] = "resolved" /\ Free(about[c], c)
    /\ RegisterUser(c) \/ Reactivate(c) \/ LinkExisting(c) \/ KnownIdentity(c)
    /\ CreateAuthSession(c, about[c]) /\ Unlock(c)
    /\ Finish(c, IF c \in nameless THEN CallbackRedirect.nameless ELSE CallbackRedirect.ok)
    /\ UNCHANGED <<tokens, path, about, ident, nameless, sweep>>
-----------------------------------------------------------------------------
(***************************************************************************)
(* DeleteAccount and UpdateProfile, for a session cookie                   *)
(***************************************************************************)
\* AuthenticateSession, by DeleteAccount itself or by the interceptor.
Authenticate(c, d, kind) ==
    /\ Start(c, kind, session[d])
    /\ IF AuthenticateSession(d)
         THEN Go(c, kind) /\ UNCHANGED answer
         ELSE Finish(c, IF kind = "delete" THEN DeleteCode.session ELSE ProfileCode.session)
    /\ UNCHANGED <<userRows, otherRows, lock, ident, nameless, sweep>>

\* The snapshot of the statement; the rows it sees are deleted first.
BeginDeletion(c) ==
    /\ at[c] = "delete" /\ Go(c, "deleting")
    /\ sweep' = [sweep EXCEPT ![c] = {d \in Calls : session[d] = about[c]}]
    /\ UNCHANGED <<userRows, otherRows, lock, path, about, ident, nameless, answer>>

\* Its UPDATE waits for the row; all of it is committed at once.
DeleteAccount(c) ==
    /\ at[c] = "deleting" /\ Free(about[c], c)
    /\ SoftDelete(about[c]) /\ DeleteAuthSessions(sweep[c])
    /\ Finish(c, DeleteCode.ok)
    /\ UNCHANGED <<exists, verified, named, password, trial, link, tokens, lock,
                   path, about, ident, nameless, sweep>>

\* UpdateProfile: the update mask or the name is refused, or the update finds
\* no row because the account has been deleted, which is an error.
UpdateProfile(c) ==
    /\ at[c] = "rename"
    /\ \/ Finish(c, ProfileCode.invalid) /\ UNCHANGED named
       \/ about[c] \in deleted /\ Finish(c, ProfileCode.failed) /\ UNCHANGED named
       \/ /\ Free(about[c], c) /\ UpdateUserDisplayName(about[c])
          /\ Finish(c, ProfileCode.ok)
    /\ UNCHANGED <<exists, deleted, verified, password, otherRows, lock,
                   path, about, ident, nameless, sweep>>
-----------------------------------------------------------------------------
(***************************************************************************)
(* The mails: ForgotPassword, ResetPassword and VerifyEmail                *)
(***************************************************************************)
\* Success is reported whatever happens.
ForgotPassword(c, e) ==
    /\ Start(c, "forgot", e) /\ Finish(c, ForgotCode.ok)
    /\ \/ GetUserByEmail(e) /\ Sign("reset-password", e)
       \/ UNCHANGED tokens
    /\ UNCHANGED <<userRows, trial, link, session, lock, ident, nameless, sweep>>

VerifyResetToken(c, e) ==
    /\ Start(c, "reset", e)
    /\ IF Valid("reset-password", e) THEN Go(c, "resetting") /\ UNCHANGED answer
                                     ELSE Finish(c, ResetCode.invalid)
    /\ UNCHANGED <<userRows, otherRows, lock, ident, nameless, sweep>>

UpdatePassword(c) ==
    /\ at[c] = "resetting" /\ Free(about[c], c) /\ Go(c, "clearing")
    /\ UpdateUserPassword(about[c])
    /\ UNCHANGED <<exists, deleted, verified, named, otherRows, lock,
                   path, about, ident, nameless, sweep, answer>>

\* A statement of its own, outside of any transaction.
DeleteUserAuthSessions(c) ==
    /\ at[c] = "clearing" /\ Finish(c, ResetCode.ok)
    /\ DeleteAuthSessions({d \in Calls : session[d] = about[c]})
    /\ UNCHANGED <<userRows, trial, link, tokens, lock, path, about, ident, nameless, sweep>>

\* Deleted accounts too.
VerifyEmail(c, e) ==
    /\ Start(c, "verify", e) /\ Free(e, c)
    /\ IF Valid("verify-email", e)
         THEN VerifyUserEmail(e) /\ Finish(c, VerifyCode.ok)
         ELSE UNCHANGED verified /\ Finish(c, VerifyCode.invalid)
    /\ UNCHANGED <<exists, deleted, named, password, otherRows, lock, ident, nameless, sweep>>

TokenExpires(token) ==
    /\ token \in tokens /\ tokens' = tokens \ {token}
    /\ UNCHANGED <<userRows, trial, link, session, lock, callVars>>
-----------------------------------------------------------------------------
\* A statement fails or the client hangs up; a transaction is rolled back.
CallFails(c) ==
    /\ at[c] \notin {"idle", "done"}
    /\ Unlock(c) /\ Finish(c, Failure(c))
    /\ UNCHANGED <<userRows, otherRows, path, about, ident, nameless, sweep>>

OAuthStep(c) == FindByEmail(c) \/ CreateOAuthUserOrNoop(c) \/ CommitOAuth(c)

CallStep(c) ==
    \/ \E e \in Emails : RefuseSignup(c, e) \/ CreateUser(c, e) \/ LookUpPassword(c, e)
    \/ CommitSignup(c) \/ OpenSession(c)
    \/ \E i \in Identities, e \in Emails : ReadLink(c, i, e)
    \/ OAuthStep(c)
    \/ \E d \in Calls : Logout(c, d) \/ Authenticate(c, d, "delete") \/ Authenticate(c, d, "rename")
    \/ BeginDeletion(c) \/ DeleteAccount(c) \/ UpdateProfile(c)
    \/ \E e \in Emails : ForgotPassword(c, e) \/ VerifyResetToken(c, e) \/ VerifyEmail(c, e)
    \/ UpdatePassword(c) \/ DeleteUserAuthSessions(c) \/ CallFails(c)

AccountsNext == (\E c \in Calls : CallStep(c)) \/ (\E token \in tokens : TokenExpires(token))

AccountsSpec == AccountsInit /\ [][AccountsNext]_accountsVars
-----------------------------------------------------------------------------
AccountsTypeOK ==
    /\ exists \subseteq Emails /\ deleted \subseteq exists /\ verified \subseteq Emails
    /\ named \subseteq Emails /\ password \subseteq Emails /\ trial \subseteq Emails
    /\ link \in [Identities -> Emails \cup {Nobody}]
    /\ session \in [Calls -> Emails \cup {Nobody}]
    /\ lock \in [Emails -> Calls \cup {Nobody}]
    /\ tokens \subseteq Purposes \X Emails
    /\ at \in [Calls -> {"idle", "signing", "opening", "finding", "creating", "resolved",
                         "delete", "deleting", "rename", "resetting", "clearing", "done"}]
    /\ about \in [Calls -> Emails \cup {Nobody}]
    /\ ident \in [Calls -> Identities \cup {Nobody}]
    /\ nameless \subseteq Calls /\ sweep \in [Calls -> SUBSET Calls]

(***************************************************************************)
(* Whatever registrations, logins, rollbacks and deletions cross, an       *)
(* account comes with its one free trial, and no trial, session, linked    *)
(* identity or mail belongs to an account that does not exist ("User       *)
(* creation and email enqueue are atomic: both succeed or both roll        *)
(* back").  What the client is told of a signup stays true: of a duplicate *)
(* the account exists, and a success has left one with a password.         *)
(***************************************************************************)
AllOrNothing ==
    /\ trial = exists
    /\ \A token \in tokens : token[2] \in exists
    /\ \A c \in Calls : session[c] # Nobody => session[c] \in exists
    /\ \A i \in Identities : link[i] # Nobody => link[i] \in exists
    /\ \A c \in Calls :
          path[c] = "signup" =>
              /\ answer[c] = SignupCode.duplicate => about[c] \in exists
              /\ answer[c] = SignupCode.ok => about[c] \in exists \cap password

(***************************************************************************)
(* An identity is linked once and never moves to another account, even     *)
(* when its first logins race with different addresses.                    *)
(***************************************************************************)
IdentityStays ==
    [][\A i \in Identities : link[i] # Nobody => link'[i] = link[i]]_accountsVars

(***************************************************************************)
(* The login that registers, links or reactivates an account ends in one   *)
(* that is not deleted, although deletions may run beside it ("FOR UPDATE  *)
(* blocks concurrent access to existing rows").                            *)
(***************************************************************************)
FirstLoginUsable ==
    [][\A c \in Calls :
          at[c] = "resolved" /\ session'[c] # session[c] /\ path[c] # "existing"
              => session'[c] \in exists' \ deleted']_accountsVars
=============================================================================
