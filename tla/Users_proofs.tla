--------------------------- MODULE Users_proofs -----------------------------
(***************************************************************************)
(* Proofs about accounts and about what they pay, for any addresses,       *)
(* identities, calls, checkouts and number of events.                      *)
(***************************************************************************)
EXTENDS Accounts, Subscriptions, SequenceTheorems, TLAPS
-----------------------------------------------------------------------------
(***************************************************************************)
(* Accounts: the types, that an account comes with all that belongs to it, *)
(* that an identity never moves, and that a first login is usable.         *)
(***************************************************************************)
Stages == {"idle", "signing", "opening", "finding", "creating", "resolved",
           "delete", "deleting", "rename", "resetting", "clearing", "done"}
Paths  == {"none", "signup", "login", "logout", "oauth", "existing", "linked", "reactivated",
           "new", "delete", "rename", "forgot", "reset", "verify"}

\* What the client may be told, and no answer yet.
Answers == {"none", "ok", "already_exists", "invalid_argument", "unauthenticated", "internal",
            "home", "complete-profile", "login"}

CallTypes == AccountsTypeOK /\ path \in [Calls -> Paths] /\ answer \in [Calls -> Answers]

\* A call is about an account that exists once it has found it, and of one
\* that nobody else can insert while it inserts it.
CallsInOrder ==
    \A c \in Calls :
        /\ at[c] = "idle" => path[c] = "none"
        /\ at[c] # "done" => answer[c] = "none" /\ session[c] = Nobody
        /\ at[c] = "signing" => path[c] = "signup"
        /\ at[c] \notin {"idle", "signing", "done"} => path[c] # "signup"
        /\ at[c] \in {"signing", "finding", "creating", "resolved"} => about[c] \in Emails
        /\ at[c] \in {"finding", "creating", "resolved"} => ident[c] \in Identities
        /\ at[c] = "resolved" => path[c] \in {"existing", "linked", "reactivated", "new"}
        /\ at[c] = "resolved" /\ path[c] # "new" => about[c] \in exists
        /\ at[c] \in {"opening", "delete", "deleting", "rename", "resetting", "clearing"}
              => about[c] \in exists

Inserting(c) == at[c] = "signing" \/ (at[c] = "resolved" /\ path[c] = "new")

\* Whoever inserts a row or has found it FOR UPDATE holds its lock, so that
\* nobody inserts it first, and nobody deletes it.
LocksHeld ==
    \A c \in Calls :
        /\ Inserting(c) => lock[about[c]] = c /\ about[c] \notin exists
        /\ at[c] = "resolved" /\ path[c] = "linked"
              => lock[about[c]] = c /\ about[c] \notin deleted

AccountsInv == CallTypes /\ CallsInOrder /\ LocksHeld /\ AllOrNothing
-----------------------------------------------------------------------------
(***************************************************************************)
(* There is no account at the start.                                       *)
(***************************************************************************)
LEMMA AccountsInitInv == AccountsInit => AccountsInv
  BY DEF AccountsInit, AccountsInv, CallTypes, AccountsTypeOK, CallsInOrder, LocksHeld, Inserting,
         AllOrNothing, Stages, Paths, Answers, SignupCode, Purposes

(***************************************************************************)
(* The RPCs that take an address and are answered at once, or go on to     *)
(* their next statement.                                                   *)
(***************************************************************************)
LEMMA StartsKeep ==
    ASSUME AccountsInv, NEW c \in Calls, NEW e \in Emails,
           \/ RefuseSignup(c, e) \/ CreateUser(c, e) \/ LookUpPassword(c, e)
           \/ ForgotPassword(c, e) \/ VerifyResetToken(c, e) \/ VerifyEmail(c, e)
    PROVE  AccountsInv'
  <1> USE NobodyAssumption
  <1> USE DEF AccountsInv, CallTypes, AccountsTypeOK, CallsInOrder, LocksHeld, Inserting,
              AllOrNothing, Paths, Answers, userRows, otherRows, Go, Start, Finish
  <1>1. CASE RefuseSignup(c, e)
    BY <1>1 DEF RefuseSignup, SignupCode
  <1>2. CASE CreateUser(c, e)
    BY <1>2 DEF CreateUser, SignupCode, Lock, Free
  <1>3. CASE LookUpPassword(c, e)
    BY <1>3 DEF LookUpPassword, LoginCode, GetUserByEmail
  <1>4. CASE ForgotPassword(c, e)
    BY <1>4 DEF ForgotPassword, ForgotCode, GetUserByEmail, Sign, Purposes
  <1>5. CASE VerifyResetToken(c, e)
    BY <1>5 DEF VerifyResetToken, ResetCode, Valid
  <1>6. CASE VerifyEmail(c, e)
    BY <1>6 DEF VerifyEmail, VerifyCode, VerifyUserEmail
  <1>7. QED
    BY <1>1, <1>2, <1>3, <1>4, <1>5, <1>6

(***************************************************************************)
(* The RPCs for a session cookie.                                          *)
(***************************************************************************)
LEMMA CookiesKeep ==
    ASSUME AccountsInv, NEW c \in Calls, NEW d \in Calls,
           Logout(c, d) \/ Authenticate(c, d, "delete") \/ Authenticate(c, d, "rename")
    PROVE  AccountsInv'
  <1> USE NobodyAssumption
  <1> USE DEF AccountsInv, CallTypes, AccountsTypeOK, CallsInOrder, LocksHeld, Inserting,
              AllOrNothing, Paths, Answers, userRows, otherRows, Go, Start, Finish,
              AuthenticateSession, GetAuthSessionByToken
  <1>1. CASE Logout(c, d)
    BY <1>1 DEF Logout, LogoutCode, DeleteAuthSession
  <1>2. ASSUME NEW kind \in {"delete", "rename"}, Authenticate(c, d, kind) PROVE AccountsInv'
    BY <1>2 DEF Authenticate, DeleteCode, ProfileCode
  <1>3. QED
    BY <1>1, <1>2

(***************************************************************************)
(* The statements that follow.                                             *)
(***************************************************************************)
LEMMA StatementsKeep ==
    ASSUME AccountsInv, NEW c \in Calls,
           \/ OpenSession(c) \/ BeginDeletion(c) \/ DeleteAccount(c) \/ UpdateProfile(c)
           \/ UpdatePassword(c) \/ DeleteUserAuthSessions(c) \/ CallFails(c)
    PROVE  AccountsInv'
  <1> USE NobodyAssumption
  <1> USE DEF AccountsInv, CallTypes, AccountsTypeOK, CallsInOrder, LocksHeld, Inserting,
              AllOrNothing, Paths, Answers, userRows, otherRows, Go, Finish, SignupCode
  <1>1. CASE OpenSession(c)
    BY <1>1 DEF OpenSession, LoginCode, CreateAuthSession
  <1>2. CASE BeginDeletion(c)
    BY <1>2 DEF BeginDeletion
  <1>3. CASE DeleteAccount(c)
    BY <1>3 DEF DeleteAccount, DeleteCode, SoftDelete, DeleteAuthSessions, Free
  <1>4. CASE UpdateProfile(c)
    BY <1>4 DEF UpdateProfile, ProfileCode, UpdateUserDisplayName
  <1>5. CASE UpdatePassword(c)
    BY <1>5 DEF UpdatePassword, UpdateUserPassword
  <1>6. CASE DeleteUserAuthSessions(c)
    BY <1>6 DEF DeleteUserAuthSessions, ResetCode, DeleteAuthSessions
  <1>7. CASE CallFails(c)
    <2>1. Failure(c) \in {"internal", "login"}
      BY DEF Failure, SignupCode, LoginCode, ResetCode, DeleteCode, ProfileCode, CallbackRedirect
    <2>2. QED
      BY <1>7, <2>1 DEF CallFails, Unlock
  <1>8. QED
    BY <1>1, <1>2, <1>3, <1>4, <1>5, <1>6, <1>7

(***************************************************************************)
(* OAuthLogin up to its writes.                                            *)
(***************************************************************************)
LEMMA FindingKeeps ==
    ASSUME AccountsInv, NEW c \in Calls,
           \/ \E i \in Identities, e \in Emails : ReadLink(c, i, e)
           \/ FindByEmail(c) \/ CreateOAuthUserOrNoop(c)
    PROVE  AccountsInv'
  <1> USE NobodyAssumption
  <1> USE DEF AccountsInv, CallTypes, AccountsTypeOK, CallsInOrder, LocksHeld, Inserting,
              AllOrNothing, Paths, Answers, userRows, otherRows, Go, Start, SignupCode, PathOf
  <1>1. ASSUME NEW i \in Identities, NEW e \in Emails, ReadLink(c, i, e) PROVE AccountsInv'
    BY <1>1 DEF ReadLink, ReadUser, GetOAuthAccount
  <1>2. CASE FindByEmail(c)
    BY <1>2 DEF FindByEmail, ReadUser, GetUserByEmailForUpdate, Lock, Free
  <1>3. CASE CreateOAuthUserOrNoop(c)
    BY <1>3 DEF CreateOAuthUserOrNoop, Lock, Free
  <1>4. QED
    BY <1>1, <1>2, <1>3

(***************************************************************************)
(* The two commits that insert or change a user row: nobody else is about  *)
(* to insert the same, because the row is locked.                          *)
(***************************************************************************)
LEMMA CommitsKeep ==
    ASSUME AccountsInv, NEW c \in Calls, CommitSignup(c) \/ CommitOAuth(c)
    PROVE  AccountsInv'
  <1> USE NobodyAssumption
  <1> USE DEF AccountsInv, CallTypes, AccountsTypeOK, CallsInOrder, LocksHeld, Inserting,
              AllOrNothing, Paths, Answers, Go, Finish, Unlock, SignupCode
  <1>1. CASE CommitSignup(c)
    BY <1>1 DEF CommitSignup, InsertUser, ProvisionNewUser, Sign, Purposes
  <1>2. CASE CommitOAuth(c) /\ RegisterUser(c)
    BY <1>2 DEF CommitOAuth, RegisterUser, InsertOAuthUser, ProvisionNewUser, LinkOAuthAccount,
                CreateAuthSession, Free, CallbackRedirect
  <1>3. CASE CommitOAuth(c) /\ Reactivate(c)
    BY <1>3 DEF CommitOAuth, Reactivate, ReactivateUser, VerifyUserEmail, LinkOAuthAccount,
                CreateAuthSession, Free, CallbackRedirect
  <1>4. CASE CommitOAuth(c) /\ LinkExisting(c)
    BY <1>4 DEF CommitOAuth, LinkExisting, VerifyUserEmail, LinkOAuthAccount,
                CreateAuthSession, Free, CallbackRedirect
  <1>5. CASE CommitOAuth(c) /\ KnownIdentity(c)
    BY <1>5 DEF CommitOAuth, KnownIdentity, CreateAuthSession, Free, CallbackRedirect, userRows
  <1>6. QED
    BY <1>1, <1>2, <1>3, <1>4, <1>5 DEF CommitOAuth

LEMMA AccountsInvariant == AccountsSpec => []AccountsInv
  <1>1. AccountsInv /\ [AccountsNext]_accountsVars => AccountsInv'
    <2> SUFFICES ASSUME AccountsInv, [AccountsNext]_accountsVars PROVE AccountsInv'
      OBVIOUS
    <2>1. ASSUME NEW c \in Calls, CallStep(c) PROVE AccountsInv'
      BY <2>1, StartsKeep, CookiesKeep, StatementsKeep, FindingKeeps, CommitsKeep
         DEF CallStep, OAuthStep
    <2>2. ASSUME NEW token \in tokens, TokenExpires(token) PROVE AccountsInv'
      BY <2>2 DEF TokenExpires, userRows, callVars, AccountsInv, CallTypes, AccountsTypeOK,
                  CallsInOrder, LocksHeld, Inserting, AllOrNothing
    <2>3. CASE UNCHANGED accountsVars
      BY <2>3 DEF accountsVars, userRows, otherRows, callVars, AccountsInv, CallTypes,
                  AccountsTypeOK, CallsInOrder, LocksHeld, Inserting, AllOrNothing
    <2>4. QED
      BY <2>1, <2>2, <2>3 DEF AccountsNext
  <1>2. QED
    BY <1>1, AccountsInitInv, PTL DEF AccountsSpec
-----------------------------------------------------------------------------
(***************************************************************************)
(* Every variable keeps its type; what is deleted exists.                  *)
(***************************************************************************)
THEOREM AccountTypes == AccountsSpec => []AccountsTypeOK
  <1>1. AccountsInv => AccountsTypeOK
    BY DEF AccountsInv, CallTypes
  <1>2. QED
    BY <1>1, AccountsInvariant, PTL

(***************************************************************************)
(* An account comes with its trial, and nothing belongs to one that does   *)
(* not exist; what the client is told of a signup is true.                 *)
(***************************************************************************)
THEOREM AccountsAreComplete == AccountsSpec => []AllOrNothing
  <1>1. AccountsInv => AllOrNothing
    BY DEF AccountsInv
  <1>2. QED
    BY <1>1, AccountsInvariant, PTL

(***************************************************************************)
(* No login moves an identity to another account, whatever it has read     *)
(* before.                                                                 *)
(***************************************************************************)
THEOREM IdentitiesStay == AccountsSpec => IdentityStays
  <1> DEFINE Stays == \A i \in Identities : link[i] # Nobody => link'[i] = link[i]
  <1>1. AccountsInv /\ [AccountsNext]_accountsVars => [Stays]_accountsVars
    <2> SUFFICES ASSUME AccountsInv, AccountsNext PROVE Stays
      OBVIOUS
    <2>1. ASSUME NEW c \in Calls, CommitOAuth(c) PROVE Stays
      BY <2>1 DEF CommitOAuth, RegisterUser, Reactivate, LinkExisting, KnownIdentity,
                  LinkOAuthAccount, AccountsInv, CallTypes, AccountsTypeOK
    <2>2. ASSUME NEW c \in Calls, CallStep(c), ~CommitOAuth(c) PROVE Stays
      BY <2>2 DEF CallStep, OAuthStep, RefuseSignup, CreateUser, LookUpPassword, CommitSignup,
                  OpenSession, ReadLink, FindByEmail, CreateOAuthUserOrNoop, Logout, Authenticate,
                  BeginDeletion, DeleteAccount, UpdateProfile, ForgotPassword, VerifyResetToken,
                  VerifyEmail, UpdatePassword, DeleteUserAuthSessions, CallFails, otherRows
    <2>3. QED
      BY <2>1, <2>2 DEF AccountsNext, TokenExpires
  <1>2. QED
    BY <1>1, AccountsInvariant, PTL DEF AccountsSpec, IdentityStays

(***************************************************************************)
(* A login that registers, links or reactivates an account is not crossed  *)
(* by a deletion of it: the row is locked, or brought back.                *)
(***************************************************************************)
THEOREM FirstLoginsUsable == AccountsSpec => FirstLoginUsable
  <1> DEFINE Usable == \A c \in Calls :
              at[c] = "resolved" /\ session'[c] # session[c] /\ path[c] # "existing"
                  => session'[c] \in exists' \ deleted'
  <1>1. AccountsInv /\ [AccountsNext]_accountsVars => [Usable]_accountsVars
    <2> SUFFICES ASSUME AccountsInv, AccountsNext,
                        NEW c \in Calls, at[c] = "resolved", session'[c] # session[c],
                        path[c] # "existing"
                 PROVE  session'[c] \in exists' \ deleted'
      OBVIOUS
    <2> USE DEF AccountsInv, CallTypes, AccountsTypeOK
    <2>1. session[c] = Nobody
      BY DEF CallsInOrder
    <2>2. ASSUME NEW d \in Calls, CallStep(d), ~CommitOAuth(d) PROVE FALSE
      <3>1. \/ UNCHANGED session \/ OpenSession(d)
            \/ \E ds \in SUBSET Calls : DeleteAuthSessions(ds)
            \/ \E other \in Calls : DeleteAuthSession(other)
        BY <2>2 DEF CallStep, OAuthStep, RefuseSignup, CreateUser, LookUpPassword, CommitSignup,
                    ReadLink, FindByEmail, CreateOAuthUserOrNoop, Logout, Authenticate,
                    BeginDeletion, DeleteAccount, UpdateProfile, ForgotPassword, VerifyResetToken,
                    VerifyEmail, UpdatePassword, DeleteUserAuthSessions, CallFails, otherRows
      <3>2. QED
        BY <2>1, <3>1 DEF OpenSession, CreateAuthSession, DeleteAuthSessions, DeleteAuthSession
    <2>3. PICK d \in Calls : CommitOAuth(d)
      BY <2>2 DEF AccountsNext, TokenExpires
    <2>4. d = c /\ session'[c] = about[c]
      BY <2>3 DEF CommitOAuth, CreateAuthSession
    <2>5. about[c] \in exists' \ deleted'
      BY <2>3, <2>4, NobodyAssumption
         DEF CommitOAuth, RegisterUser, Reactivate, LinkExisting, KnownIdentity, InsertOAuthUser,
             ReactivateUser, CallsInOrder, LocksHeld, Inserting
    <2>6. QED
      BY <2>4, <2>5
  <1>2. QED
    BY <1>1, AccountsInvariant, PTL DEF AccountsSpec, FirstLoginUsable
-----------------------------------------------------------------------------
(***************************************************************************)
(* Checkout and webhook: the types, that what is paid is credited once and *)
(* to the payer, that a replay does not bring a plan back, and that the    *)
(* plan follows the subscription.                                          *)
(***************************************************************************)
Kinds  == {"pack", "subscribed", "invoice", "active", "past_due", "deleted"}
Events == [of : Checkouts, kind : Kinds]

\* The types, with a weaker one for the ledger, whose entries grow with sent.
StateTypes ==
    /\ customer \in [Users -> Checkouts \cup {Unset}] /\ plan \in [Users -> Plans]
    /\ gone \subseteq left /\ left \subseteq Users /\ replaced \subseteq Checkouts
    /\ checkout \in [Checkouts -> {"idle", "creating", "saving", "pricing", "open", "internal"}]
    /\ payer \in [Checkouts -> Users \cup {Unset}] /\ wants \in [Checkouts -> Goods]
    /\ billed \in [Checkouts -> Checkouts \cup {Unset}]
    /\ stripe \in [Checkouts -> {"none", "paid", "active", "past_due", "canceled"}]

EventTypes ==
    /\ sent \in Seq(Events)
    /\ applied \subseteq DOMAIN sent /\ unheard \subseteq DOMAIN sent /\ late \subseteq Checkouts
    /\ ledger \in Seq(Nat \X Users)
    /\ \A k \in DOMAIN ledger : ledger[k][1] \in DOMAIN sent

\* Every customer that is stored or billed is one that its user created.
CustomersOwned ==
    /\ \A u \in Users : customer[u] # Unset => payer[customer[u]] = u
    /\ \A c \in Checkouts : billed[c] # Unset => payer[billed[c]] = payer[c]

\* A checkout has a user once it has begun, a customer once Stripe has been
\* asked, and a subscription only when its session is open.
CheckoutInOrder ==
    \A c \in Checkouts :
        /\ checkout[c] = "idle" <=> payer[c] = Unset
        /\ checkout[c] = "idle" => billed[c] = Unset
        /\ checkout[c] \in {"saving", "pricing", "open"} => billed[c] # Unset
        /\ checkout[c] = "saving" => billed[c] = c
        /\ stripe[c] # "none" => checkout[c] = "open"

\* The customer that is billed is stored, unless another has overwritten it.
StoredOrReplaced ==
    \A c \in Checkouts :
        checkout[c] \in {"pricing", "open"} =>
            customer[payer[c]] = billed[c] \/ billed[c] \in replaced

\* Stripe tells of checkouts that it has opened.
EventsOfOpen == \A i \in DOMAIN sent : checkout[sent[i].of] = "open"

\* The inductive invariant of the credits.
SubscriptionInv ==
    /\ StateTypes /\ EventTypes /\ CustomersOwned /\ CheckoutInOrder
    /\ StoredOrReplaced /\ EventsOfOpen /\ CreditedOnce /\ PaidIsCredited

\* A customer exists for others once it is saved.
SavedBeforeShared ==
    \A d \in Checkouts : checkout[d] \in {"idle", "creating", "saving"} =>
        /\ \A u \in Users : customer[u] # d
        /\ \A c \in Checkouts \ {d} : billed[c] # d

\* And of those that were paid, of a subscription only where one was bought.
EventsOfBought ==
    \A i \in DOMAIN sent : /\ stripe[sent[i].of] # "none"
                           /\ sent[i].kind # "pack" => wants[sent[i].of] = "subscription"

\* A grant is that of an event that was handled.
GrantsOfApplied == \A k \in DOMAIN ledger : ledger[k][1] \in applied

\* What an event says of a subscription, and those that say something.
Telling == {"invoice", "active", "past_due", "deleted"}
Says(kind) == CASE kind = "past_due" -> "past_due"
                [] kind = "deleted" -> "canceled"
                [] OTHER -> "active"
News(c) == {i \in DOMAIN sent : sent[i].of = c /\ sent[i].kind \in Telling}
Last(i, S) == i \in S /\ \A j \in S : j <= i

\* Stripe's last event says what Stripe knows.
LastEventIsTrue ==
    \A c \in Checkouts :
        /\ wants[c] = "subscription" => stripe[c] # "paid"
        /\ stripe[c] \in {"active", "past_due", "canceled"} =>
              /\ wants[c] = "subscription"
              /\ \E i \in News(c) : Last(i, News(c)) /\ stripe[c] = Says(sent[i].kind)

\* The plan is what the last event that was handled says.
PlanIsLastHandled ==
    \A u \in Users :
        /\ SubscribedFor(u) = {} => plan[u] = "free"
        /\ \A c \in SubscribedFor(u) :
              SubscribedFor(u) = {c} /\ u \notin left
              /\ billed[c] = customer[u] /\ customer[u] \notin late =>
                  /\ News(c) \cap applied = {} => plan[u] = "free"
                  /\ \A i \in DOMAIN sent : Last(i, News(c) \cap applied) =>
                        (plan[u] = "pro" <=> Says(sent[i].kind) = "active")

\* The inductive invariant of the plans, with the one before.
PlanInv ==
    /\ SavedBeforeShared /\ EventsOfBought /\ GrantsOfApplied
    /\ LastEventIsTrue /\ PlanIsLastHandled
-----------------------------------------------------------------------------
(***************************************************************************)
(* Nothing has been bought at the start.                                   *)
(***************************************************************************)
LEMMA SubscriptionInitInv == SubscriptionInit => SubscriptionInv
  <1> USE UnsetAssumption
  <1> SUFFICES ASSUME SubscriptionInit PROVE SubscriptionInv
    OBVIOUS
  <1>1. StateTypes
    BY DEF SubscriptionInit, StateTypes, Plans, Goods
  <1>2. EventTypes
    BY DEF SubscriptionInit, EventTypes
  <1>3. CustomersOwned /\ CheckoutInOrder /\ StoredOrReplaced
    BY DEF SubscriptionInit, CustomersOwned, CheckoutInOrder, StoredOrReplaced
  <1>4. EventsOfOpen /\ CreditedOnce /\ PaidIsCredited
    BY DEF SubscriptionInit, EventsOfOpen, CreditedOnce, PaidIsCredited
  <1>5. QED
    BY <1>1, <1>2, <1>3, <1>4 DEF SubscriptionInv

(***************************************************************************)
(* An event is about a checkout that is open and bills a customer.         *)
(***************************************************************************)
LEMMA EventIsKnown ==
    ASSUME SubscriptionInv, NEW i \in DOMAIN sent
    PROVE  /\ sent[i].of \in Checkouts /\ checkout[sent[i].of] = "open"
           /\ payer[sent[i].of] \in Users /\ CustomerOf(i) \in Checkouts
  <1>1. sent[i] \in Events
    BY DEF SubscriptionInv, EventTypes
  <1>2. sent[i].of \in Checkouts /\ checkout[sent[i].of] = "open"
    BY <1>1 DEF SubscriptionInv, EventsOfOpen, Events
  <1>3. QED
    BY <1>2 DEF SubscriptionInv, CheckoutInOrder, StateTypes, CustomerOf

(***************************************************************************)
(* A step of CreateCheckoutSession moves no other checkout, and an open    *)
(* one not at all: what the events refer to is settled.                    *)
(***************************************************************************)
LEMMA CheckoutStepInv ==
    ASSUME SubscriptionInv, NEW c \in Checkouts, CheckoutStep(c)
    PROVE  SubscriptionInv'
  <1> USE UnsetAssumption
  <1> USE DEF SubscriptionInv, stripeState, webhookState, userState, CheckoutCode
  <1>1. /\ UNCHANGED <<plan, gone, left, sent, stripe, applied, unheard, late, ledger>>
        /\ checkout[c] # "open"
        /\ \A d \in Checkouts \ {c} : checkout'[d] = checkout[d] /\ payer'[d] = payer[d]
                                      /\ billed'[d] = billed[d] /\ wants'[d] = wants[d]
        /\ checkout[c] # "idle" => payer'[c] = payer[c]
        /\ replaced \subseteq replaced'
    BY DEF CheckoutStep, BeginCheckout, NewCustomer, SaveCustomer, OpenCheckout, CheckoutFails,
           Proceed, StateTypes
  <1>2. StateTypes'
    BY DEF CheckoutStep, BeginCheckout, NewCustomer, SaveCustomer, OpenCheckout, CheckoutFails,
           Proceed, StateTypes, GetUserByID, UpdateUserStripeCustomerID, CheckoutInOrder
  <1>3. CustomersOwned' /\ CheckoutInOrder' /\ StoredOrReplaced'
    <2> USE DEF CustomersOwned, CheckoutInOrder, StoredOrReplaced, StateTypes
    <2>1. ASSUME NEW u \in Users, NEW goods \in Goods, BeginCheckout(c, u, goods)
          PROVE  CustomersOwned' /\ CheckoutInOrder' /\ StoredOrReplaced'
      <3>1. /\ checkout[c] = "idle" /\ payer[c] = Unset /\ u # Unset
            /\ payer' = [payer EXCEPT ![c] = u] /\ billed' = [billed EXCEPT ![c] = customer[u]]
            /\ checkout' = [checkout EXCEPT ![c] = IF customer[u] = Unset THEN "creating"
                                                    ELSE "pricing"]
            /\ UNCHANGED <<customer, replaced, stripe>>
        BY <2>1 DEF BeginCheckout, Proceed
      <3>2. \A v \in Users : customer[v] # Unset => customer[v] \in Checkouts \ {c}
        BY <3>1
      <3>3. \A d \in Checkouts : billed[d] # Unset => billed[d] \in Checkouts
        BY <3>1
      <3>4. CustomersOwned'
        <4>1. \A v \in Users : customer'[v] # Unset => payer'[customer'[v]] = v
          BY <3>1, <3>2
        <4>2. \A d \in Checkouts : billed'[d] # Unset => payer'[billed'[d]] = payer'[d]
          BY <3>1, <3>2, <3>3
        <4>3. QED BY <4>1, <4>2
      <3>5. CheckoutInOrder' /\ StoredOrReplaced'
        BY <3>1
      <3>6. QED
        BY <3>4, <3>5
    <2>2. CASE NewCustomer(c)
      BY <2>2 DEF NewCustomer, Proceed
    <2>3. CASE SaveCustomer(c)
      BY <2>3 DEF SaveCustomer, Proceed, UpdateUserStripeCustomerID
    <2>4. CASE OpenCheckout(c)
      BY <2>4 DEF OpenCheckout, Proceed
    <2>5. CASE CheckoutFails(c)
      BY <2>5 DEF CheckoutFails
    <2>6. QED
      BY <2>1, <2>2, <2>3, <2>4, <2>5 DEF CheckoutStep
  <1>4. \A i \in DOMAIN sent : sent[i].of \in Checkouts \ {c}
    BY <1>1, EventIsKnown
  <1>5. EventTypes' /\ EventsOfOpen'
    BY <1>1, <1>4 DEF EventTypes, EventsOfOpen
  <1>6. CreditedOnce'
    BY <1>1, <1>4 DEF CreditedOnce, EventTypes
  <1>7. PaidIsCredited'
    BY <1>1, <1>4 DEF PaidIsCredited, EventTypes, Granted, CustomerOf
  <1>8. QED
    BY <1>2, <1>3, <1>5, <1>6, <1>7

(***************************************************************************)
(* What happens at Stripe happens to an open checkout, and only adds       *)
(* events.                                                                 *)
(***************************************************************************)
LEMMA StripeStepInv ==
    ASSUME SubscriptionInv, NEW c \in Checkouts, StripeStep(c)
    PROVE  SubscriptionInv'
  <1> USE DEF SubscriptionInv, callState, webhookState, userState
  <1>1. /\ UNCHANGED <<userState, callState, webhookState>>
        /\ checkout[c] = "open"
        /\ stripe' \in [Checkouts -> {"none", "paid", "active", "past_due", "canceled"}]
        /\ \A d \in Checkouts \ {c} : stripe'[d] = stripe[d]
    BY DEF StripeStep, PayPack, Subscribe, Renew, Lapse, Cancel, Becomes, CheckoutCode,
           StateTypes, CheckoutInOrder
  <1>2. PICK news \in Seq(Events) :
            sent' = sent \o news /\ \A j \in DOMAIN news : news[j].of = c
    <2> DEFINE E(kind) == [of |-> c, kind |-> kind]
    <2>1. \A k \in Kinds : /\ <<E(k)>> \in Seq(Events)
                           /\ \A j \in DOMAIN <<E(k)>> : <<E(k)>>[j].of = c
      BY DEF Events
    <2>2. \A k, l \in Kinds : /\ <<E(k), E(l)>> \in Seq(Events)
                              /\ \A j \in DOMAIN <<E(k), E(l)>> : <<E(k), E(l)>>[j].of = c
      BY DEF Events
    <2>3. \/ \E k \in Kinds : sent' = sent \o <<E(k)>>
          \/ \E k, l \in Kinds : sent' = sent \o <<E(k), E(l)>>
      BY DEF StripeStep, PayPack, Subscribe, Renew, Lapse, Cancel, Report, Event, Kinds
    <2>4. QED
      BY <2>1, <2>2, <2>3
  <1>3. /\ sent' \in Seq(Events) /\ DOMAIN sent \subseteq DOMAIN sent'
        /\ \A i \in DOMAIN sent : sent'[i] = sent[i]
        /\ \A i \in DOMAIN sent' \ DOMAIN sent : sent'[i].of = c
    BY <1>2 DEF EventTypes
  <1>4. StateTypes' /\ CustomersOwned' /\ CheckoutInOrder' /\ StoredOrReplaced'
    BY <1>1 DEF StateTypes, CustomersOwned, CheckoutInOrder, StoredOrReplaced
  <1>5. EventTypes' /\ EventsOfOpen'
    BY <1>1, <1>3 DEF EventTypes, EventsOfOpen
  <1>6. CreditedOnce'
    BY <1>1, <1>3 DEF CreditedOnce, EventTypes
  <1>7. PaidIsCredited'
    <2>1. Granted' = Granted
      BY <1>1 DEF Granted
    <2>2. \A i \in applied \cup unheard : sent'[i] = sent[i] /\ CustomerOf(i)' = CustomerOf(i)
      BY <1>1, <1>3 DEF EventTypes, CustomerOf
    <2>3. QED
      BY <1>1, <2>1, <2>2 DEF PaidIsCredited
  <1>8. QED
    BY <1>4, <1>5, <1>6, <1>7
-----------------------------------------------------------------------------
(***************************************************************************)
(* Whoever holds the customer of an event is the account that paid.        *)
(***************************************************************************)
LEMMA HolderPaid ==
    ASSUME SubscriptionInv, NEW i \in DOMAIN sent, NEW u \in Holders(i)
    PROVE  payer[sent[i].of] = u
  BY UnsetAssumption, EventIsKnown
     DEF SubscriptionInv, Holders, CustomerOf, CustomersOwned, StateTypes

(***************************************************************************)
(* A customer without a holder was overwritten, or its user has left.      *)
(***************************************************************************)
LEMMA UnheldIsKnown ==
    ASSUME SubscriptionInv, NEW i \in DOMAIN sent, Holders(i) = {}
    PROVE  CustomerOf(i) \in replaced \/ payer[sent[i].of] \in left
  BY UnsetAssumption, EventIsKnown
     DEF SubscriptionInv, Holders, CustomerOf, StoredOrReplaced, StateTypes

(***************************************************************************)
(* The insert under the UNIQUE column: the event has a grant afterwards,   *)
(* what was granted stays, and nothing is granted twice.                   *)
(***************************************************************************)
LEMMA InsertedOnce ==
    ASSUME SubscriptionInv, NEW i \in DOMAIN sent, NEW u \in Users, InsertGrant(i, u),
           u = payer[sent[i].of], UNCHANGED <<sent, payer>>
    PROVE  /\ ledger' \in Seq(Nat \X Users)
           /\ \A k \in DOMAIN ledger' : ledger'[k][1] \in DOMAIN sent
           /\ CreditedOnce'
           /\ i \in Granted' /\ Granted \subseteq Granted'
           /\ i \notin Granted => Len(ledger') = Len(ledger) + 1
  <1> USE DEF SubscriptionInv, EventTypes
  <1>1. CASE i \in Granted
    BY <1>1 DEF InsertGrant, CreditedOnce, Granted
  <1>2. CASE i \notin Granted
    <2>1. /\ ledger' = Append(ledger, <<i, u>>) /\ <<i, u>> \in Nat \X Users
          /\ \A k \in DOMAIN ledger : ledger[k][1] # i
      BY <1>2 DEF InsertGrant, Granted
    <2>2. /\ ledger' \in Seq(Nat \X Users) /\ Len(ledger') = Len(ledger) + 1
          /\ DOMAIN ledger' = DOMAIN ledger \cup {Len(ledger) + 1}
          /\ ledger'[Len(ledger) + 1] = <<i, u>>
          /\ \A k \in DOMAIN ledger : ledger'[k] = ledger[k]
      BY <2>1
    <2>3. \A k \in DOMAIN ledger' : ledger'[k][1] \in DOMAIN sent
      BY <2>2
    <2>4. CreditedOnce'
      BY <2>1, <2>2 DEF CreditedOnce
    <2>5. i \in Granted' /\ Granted \subseteq Granted'
      <3>1. \E k \in DOMAIN ledger' : i = ledger'[k][1]
        <4>1. Len(ledger) + 1 \in DOMAIN ledger' /\ <<i, u>>[1] = i
          BY <2>2
        <4>2. i = ledger'[Len(ledger) + 1][1]
          BY <2>2, <4>1
        <4>3. QED
          BY <4>1, <4>2
      <3>2. \A k \in DOMAIN ledger : k \in DOMAIN ledger' /\ ledger[k][1] = ledger'[k][1]
        BY <2>2
      <3>3. QED
        BY <3>1, <3>2 DEF Granted
    <2>6. QED
      BY <2>2, <2>3, <2>4, <2>5
  <1>3. QED
    BY <1>1, <1>2

(***************************************************************************)
(* Every delivery of every event, a first or a repeated one.               *)
(***************************************************************************)
LEMMA AcknowledgeStepInv ==
    ASSUME SubscriptionInv, NEW i \in DOMAIN sent, AcknowledgeEvent(i)
    PROVE  SubscriptionInv'
  <1> USE UnsetAssumption
  <1> USE DEF SubscriptionInv, callState, stripeState
  <1>1. /\ UNCHANGED <<customer, gone, left, replaced, callState, stripeState>>
        /\ applied' = applied \cup {i} /\ unheard' = unheard \ {i} /\ HandleStripeWebhook(i)
    BY DEF AcknowledgeEvent
  <1>2. sent[i].of \in Checkouts /\ payer[sent[i].of] \in Users /\ CustomerOf(i) \in Checkouts
    BY EventIsKnown
  <1>3. late' \subseteq Checkouts
    BY <1>2 DEF AcknowledgeEvent, EventTypes
  <1>4. plan' \in [Users -> Plans]
    BY DEF HandleStripeWebhook, HandleCheckoutCompleted, HandleInvoicePaid,
           HandleSubscriptionDeleted, HandleSubscriptionUpdated, CreatePurchaseGrant,
           CreateSubscriptionGrant, UpdatePlanByStripeCustomer, StateTypes, Plans, Holders,
           AcknowledgeEvent
  <1>5. \/ UNCHANGED ledger /\ sent[i].kind # "pack" /\ (sent[i].kind = "invoice" => Holders(i) = {})
        \/ InsertGrant(i, payer[sent[i].of])
    <2>1. CASE HandleCheckoutCompleted(i)
      BY <2>1 DEF HandleCheckoutCompleted, CreatePurchaseGrant
    <2>2. CASE HandleInvoicePaid(i)
      BY <2>2, HolderPaid DEF HandleInvoicePaid, CreateSubscriptionGrant
    <2>3. CASE HandleSubscriptionDeleted(i) \/ HandleSubscriptionUpdated(i)
      BY <2>3 DEF HandleSubscriptionDeleted, HandleSubscriptionUpdated, UpdatePlanByStripeCustomer
    <2>4. QED
      BY <1>1, <2>1, <2>2, <2>3 DEF HandleStripeWebhook
  <1>6. /\ ledger' \in Seq(Nat \X Users)
        /\ \A k \in DOMAIN ledger' : ledger'[k][1] \in DOMAIN sent
        /\ CreditedOnce' /\ Granted \subseteq Granted'
        /\ sent[i].kind = "pack" => i \in Granted'
        /\ sent[i].kind = "invoice" => i \in Granted' \/ Holders(i) = {}
    <2>1. CASE InsertGrant(i, payer[sent[i].of])
      BY <1>1, <1>2, <2>1, InsertedOnce
    <2>2. CASE UNCHANGED ledger /\ sent[i].kind # "pack"
               /\ (sent[i].kind = "invoice" => Holders(i) = {})
      BY <1>1, <2>2 DEF EventTypes, CreditedOnce, Granted
    <2>3. QED
      BY <1>5, <2>1, <2>2
  <1>7. PaidIsCredited'
    BY <1>1, <1>6, UnheldIsKnown DEF PaidIsCredited, CustomerOf
  <1>8. StateTypes' /\ EventTypes'
    BY <1>1, <1>3, <1>4, <1>6 DEF StateTypes, EventTypes
  <1>9. CustomersOwned' /\ CheckoutInOrder' /\ StoredOrReplaced' /\ EventsOfOpen'
    BY <1>1 DEF CustomersOwned, CheckoutInOrder, StoredOrReplaced, EventsOfOpen
  <1>10. QED
    BY <1>6, <1>7, <1>8, <1>9

LEMMA SubscriptionInvariant == SubscriptionSpec => []SubscriptionInv
  <1>1. SubscriptionInv /\ [SubscriptionNext]_subscriptionVars => SubscriptionInv'
    <2> SUFFICES ASSUME SubscriptionInv, [SubscriptionNext]_subscriptionVars
                 PROVE  SubscriptionInv'
      OBVIOUS
    <2>1. CASE \E c \in Checkouts : CheckoutStep(c) \/ StripeStep(c)
      BY <2>1, CheckoutStepInv, StripeStepInv
    <2>2. ASSUME NEW i \in DOMAIN sent, PostStripeWebhook(i) PROVE SubscriptionInv'
      <3>1. CASE SwallowEvent(i)
        <4>1. /\ UNCHANGED <<userState, callState, stripeState, applied, late, ledger>>
              /\ unheard' = unheard \/ (unheard' = unheard \cup {i} /\ i \notin applied)
          BY <3>1 DEF SwallowEvent
        <4>2. PaidIsCredited'
          BY <4>1 DEF SubscriptionInv, PaidIsCredited, CustomerOf, Granted, userState, callState,
                      stripeState
        <4>3. QED
          BY <4>1, <4>2 DEF SubscriptionInv, StateTypes, EventTypes, CustomersOwned, CheckoutInOrder,
                      StoredOrReplaced, EventsOfOpen, CreditedOnce, userState, callState, stripeState
      <3>2. QED
        BY <2>2, <3>1, AcknowledgeStepInv DEF PostStripeWebhook
    <2>3. ASSUME NEW u \in Users, Leave(u) \/ ComeBack(u) PROVE SubscriptionInv'
      <3>1. /\ UNCHANGED <<customer, plan, replaced, callState, stripeState, webhookState>>
            /\ gone' \subseteq left' /\ left \subseteq left' /\ left' \subseteq Users
        BY <2>3 DEF Leave, ComeBack, SubscriptionInv, StateTypes
      <3>2. QED
        BY <3>1 DEF SubscriptionInv, StateTypes, EventTypes, CustomersOwned, CheckoutInOrder,
                    StoredOrReplaced, EventsOfOpen, CreditedOnce, PaidIsCredited, CustomerOf,
                    Granted, callState, stripeState, webhookState
    <2>4. CASE UNCHANGED subscriptionVars
      BY <2>4 DEF subscriptionVars, userState, callState, stripeState, webhookState,
                  SubscriptionInv, StateTypes, EventTypes, CustomersOwned, CheckoutInOrder,
                  StoredOrReplaced, EventsOfOpen, CreditedOnce, PaidIsCredited, CustomerOf, Granted
    <2>5. QED
      BY <2>1, <2>2, <2>3, <2>4 DEF SubscriptionNext
  <1>2. QED
    BY <1>1, SubscriptionInitInv, PTL DEF SubscriptionSpec
-----------------------------------------------------------------------------
(***************************************************************************)
(* Every variable keeps its type: every grant belongs to an event that     *)
(* Stripe has sent.                                                        *)
(***************************************************************************)
THEOREM SubscriptionTypes == SubscriptionSpec => []SubscriptionTypeOK
  <1>1. SubscriptionInv => SubscriptionTypeOK
    <2> SUFFICES ASSUME SubscriptionInv PROVE SubscriptionTypeOK
      OBVIOUS
    <2>1. \A k \in 1..Len(ledger) : ledger[k] \in (DOMAIN sent) \X Users
      BY DEF SubscriptionInv, EventTypes
    <2>2. ledger \in Seq((DOMAIN sent) \X Users)
      BY <2>1, IsASeq DEF SubscriptionInv, EventTypes
    <2>3. QED
      BY <2>2 DEF SubscriptionInv, StateTypes, EventTypes, SubscriptionTypeOK, Events, Kinds
  <1>2. QED
    BY <1>1, SubscriptionInvariant, PTL

(***************************************************************************)
(* However often and in whatever order Stripe delivers an event, it is     *)
(* credited at most once and to the account that paid.                     *)
(***************************************************************************)
THEOREM GrantsAreUnique == SubscriptionSpec => []CreditedOnce
  <1>1. SubscriptionInv => CreditedOnce
    BY DEF SubscriptionInv
  <1>2. QED
    BY <1>1, SubscriptionInvariant, PTL

(***************************************************************************)
(* A payment that Stripe stops delivering is credited, save for one that   *)
(* was never looked at, for want of a readable body or of a secret, and    *)
(* for the renewals of an overwritten customer or of an account that was   *)
(* deleted.                                                                *)
(***************************************************************************)
THEOREM PaymentsAreCredited == SubscriptionSpec => []PaidIsCredited
  <1>1. SubscriptionInv => PaidIsCredited
    BY DEF SubscriptionInv
  <1>2. QED
    BY <1>1, SubscriptionInvariant, PTL

(***************************************************************************)
(* Only a new grant or a subscription that is active again makes a user    *)
(* pro: a payment that is delivered once more does not.                    *)
(***************************************************************************)
THEOREM PlansSurviveReplays == SubscriptionSpec => ReplayKeepsPlan
  <1> DEFINE Kept == \A u \in Users :
          plan[u] = "free" /\ plan'[u] = "pro" =>
              \/ Len(ledger') > Len(ledger)
              \/ \E i \in DOMAIN sent : sent[i].kind = "active" /\ CustomerOf(i) = customer[u]
  <1>1. SubscriptionInv /\ [SubscriptionNext]_subscriptionVars => [Kept]_subscriptionVars
    <2> SUFFICES ASSUME SubscriptionInv, SubscriptionNext PROVE Kept
      OBVIOUS
    <2>1. CASE \E c \in Checkouts : CheckoutStep(c) \/ StripeStep(c)
      BY <2>1 DEF CheckoutStep, BeginCheckout, NewCustomer, SaveCustomer, OpenCheckout,
                  CheckoutFails, StripeStep, PayPack, Subscribe, Renew, Lapse, Cancel, userState
    <2>2. CASE \E u \in Users : Leave(u) \/ ComeBack(u)
      BY <2>2 DEF Leave, ComeBack
    <2>3. ASSUME NEW i \in DOMAIN sent, PostStripeWebhook(i) PROVE Kept
      <3> USE DEF SubscriptionInv, StateTypes
      <3>0. CASE SwallowEvent(i)
        BY <3>0 DEF SwallowEvent, userState
      <3>1. CASE HandleCheckoutCompleted(i)
        BY <3>1 DEF HandleCheckoutCompleted, CreatePurchaseGrant
      <3>2. CASE HandleInvoicePaid(i)
        <4>1. CASE Holders(i) = {} \/ i \in Granted
          BY <3>2, <4>1 DEF HandleInvoicePaid, CreateSubscriptionGrant
        <4>2. CASE Holders(i) # {} /\ i \notin Granted
          <5>1. PICK u \in Holders(i) : InsertGrant(i, u)
            BY <3>2, <4>2 DEF HandleInvoicePaid, CreateSubscriptionGrant
          <5>2. u \in Users /\ <<i, u>> \in Nat \X Users /\ ledger' = Append(ledger, <<i, u>>)
            BY <4>2, <5>1 DEF InsertGrant, Holders, EventTypes
          <5>3. QED
            BY <5>2 DEF EventTypes
        <4>3. QED
          BY <4>1, <4>2
      <3>3. CASE HandleSubscriptionDeleted(i)
        BY <3>3 DEF HandleSubscriptionDeleted, UpdatePlanByStripeCustomer
      <3>4. CASE HandleSubscriptionUpdated(i)
        BY <3>4 DEF HandleSubscriptionUpdated, UpdatePlanByStripeCustomer, Holders
      <3>5. QED
        BY <2>3, <3>0, <3>1, <3>2, <3>3, <3>4 DEF PostStripeWebhook, AcknowledgeEvent,
              HandleStripeWebhook
    <2>4. QED
      BY <2>1, <2>2, <2>3 DEF SubscriptionNext
  <1>2. QED
    BY <1>1, SubscriptionInvariant, PTL DEF SubscriptionSpec, ReplayKeepsPlan
-----------------------------------------------------------------------------
(***************************************************************************)
(* The plan: what else holds of customers, events and subscriptions.       *)
(***************************************************************************)
\* Nobody subscribes at the start.
LEMMA PlanInitInv == SubscriptionInit => PlanInv
  <1> SUFFICES ASSUME SubscriptionInit PROVE PlanInv
    OBVIOUS
  <1>1. SavedBeforeShared /\ EventsOfBought /\ GrantsOfApplied /\ LastEventIsTrue
    BY UnsetAssumption
       DEF SubscriptionInit, SavedBeforeShared, EventsOfBought, GrantsOfApplied, LastEventIsTrue
  <1>2. PlanIsLastHandled
    BY DEF SubscriptionInit, PlanIsLastHandled, SubscribedFor
  <1>3. QED
    BY <1>1, <1>2 DEF PlanInv

(***************************************************************************)
(* A step of a checkout is about one that nothing has been bought with,    *)
(* and a customer that is saved is not yet billed by any other.            *)
(***************************************************************************)
\* A checkout that is not paid changes no plan.
LEMMA CheckoutKeepsPlans ==
    ASSUME SubscriptionInv, PlanInv, NEW c \in Checkouts, CheckoutStep(c)
    PROVE  PlanInv'
  <1> USE UnsetAssumption
  <1> USE DEF SubscriptionInv, stripeState, webhookState, userState, CheckoutCode
  <1>1. /\ UNCHANGED <<plan, gone, left, sent, stripe, applied, unheard, late, ledger>>
        /\ checkout[c] # "open" /\ stripe[c] = "none"
        /\ \A d \in Checkouts \ {c} : checkout'[d] = checkout[d] /\ payer'[d] = payer[d]
                                      /\ billed'[d] = billed[d] /\ wants'[d] = wants[d]
    BY DEF CheckoutStep, BeginCheckout, NewCustomer, SaveCustomer, OpenCheckout, CheckoutFails,
           Proceed, StateTypes, CheckoutInOrder
  <1>2. \A i \in DOMAIN sent : sent[i].of \in Checkouts \ {c}
    BY <1>1, EventIsKnown
  <1>3. SavedBeforeShared'
    <2> USE DEF PlanInv, SavedBeforeShared, StateTypes, CheckoutInOrder
    <2>1. ASSUME NEW u \in Users, NEW goods \in Goods, BeginCheckout(c, u, goods)
          PROVE  SavedBeforeShared'
      BY <2>1 DEF BeginCheckout, Proceed
    <2>2. CASE NewCustomer(c)
      BY <2>2 DEF NewCustomer, Proceed
    <2>3. CASE SaveCustomer(c)
      BY <2>3 DEF SaveCustomer, Proceed, UpdateUserStripeCustomerID
    <2>4. CASE OpenCheckout(c) \/ CheckoutFails(c)
      BY <2>4 DEF OpenCheckout, CheckoutFails, Proceed
    <2>5. QED
      BY <2>1, <2>2, <2>3, <2>4 DEF CheckoutStep
  <1>4. EventsOfBought' /\ GrantsOfApplied'
    BY <1>1, <1>2 DEF PlanInv, EventsOfBought, GrantsOfApplied
  <1>5. \A d \in Checkouts : News(d)' = News(d)
    BY <1>1 DEF News
  <1>6. LastEventIsTrue'
    BY <1>1, <1>5 DEF PlanInv, LastEventIsTrue, Last
  <1>7. \A u \in Users : SubscribedFor(u)' = SubscribedFor(u) /\ c \notin SubscribedFor(u)
    BY <1>1 DEF SubscribedFor
  <1>8. ASSUME NEW u \in Users, NEW d \in SubscribedFor(u),
               billed'[d] = customer'[u]
        PROVE  billed[d] = customer[u] /\ customer'[u] = customer[u] /\ d \in Checkouts
    <2>1. d \in Checkouts \ {c} /\ billed'[d] = billed[d]
      BY <1>1, <1>7 DEF SubscribedFor
    <2>2. CASE SaveCustomer(c)
      <3>1. checkout[c] = "saving" /\ customer' = [customer EXCEPT ![payer[c]] = c]
        BY <2>2 DEF SaveCustomer, Proceed, UpdateUserStripeCustomerID
      <3>2. billed[d] # c
        BY <2>1, <3>1 DEF PlanInv, SavedBeforeShared
      <3>3. QED
        BY <1>8, <2>1, <3>1, <3>2 DEF StateTypes
    <2>3. CASE ~SaveCustomer(c)
      <3>1. customer' = customer
        BY <2>3 DEF CheckoutStep, BeginCheckout, NewCustomer, OpenCheckout, CheckoutFails
      <3>2. QED
        BY <1>8, <2>1, <3>1
    <2>4. QED
      BY <2>2, <2>3
  <1>9. PlanIsLastHandled'
    <2>1. ASSUME NEW u \in Users PROVE SubscribedFor(u)' = {} => plan'[u] = "free"
      BY <1>1, <1>7 DEF PlanInv, PlanIsLastHandled
    <2>2. ASSUME NEW u \in Users, NEW d \in SubscribedFor(u)', SubscribedFor(u)' = {d},
                 u \notin left', billed'[d] = customer'[u], customer'[u] \notin late'
          PROVE  /\ News(d)' \cap applied' = {} => plan'[u] = "free"
                 /\ \A i \in DOMAIN sent' : Last(i, News(d)' \cap applied') =>
                       (plan'[u] = "pro" <=> Says(sent'[i].kind) = "active")
      <3>1. d \in SubscribedFor(u) /\ SubscribedFor(u) = {d} /\ u \notin left
        BY <1>1, <1>7, <2>2
      <3>2. billed[d] = customer[u] /\ customer[u] \notin late /\ d \in Checkouts
        BY <1>1, <1>8, <2>2, <3>1
      <3>3. QED
        BY <1>1, <1>5, <3>1, <3>2 DEF PlanInv, PlanIsLastHandled
    <2>3. QED
      BY <2>1, <2>2 DEF PlanIsLastHandled
  <1>10. QED
    BY <1>3, <1>4, <1>6, <1>9 DEF PlanInv

(***************************************************************************)
(* What happens at Stripe is reported by events that come after all        *)
(* others, and the last of them says what has become of the subscription.  *)
(***************************************************************************)
\* What a payment, a renewal, a lapse or a cancellation is to the webhook.
LEMMA StripeStepEffect ==
    ASSUME SubscriptionInv, NEW c \in Checkouts, StripeStep(c)
    PROVE  /\ UNCHANGED <<userState, callState, webhookState>>
           /\ stripe' \in [Checkouts -> {"none", "paid", "active", "past_due", "canceled"}]
           /\ \A d \in Checkouts \ {c} : stripe'[d] = stripe[d]
           /\ Len(sent) \in Nat /\ DOMAIN sent = 1..Len(sent) /\ DOMAIN sent \subseteq DOMAIN sent'
           /\ \A i \in DOMAIN sent : sent'[i] = sent[i]
           /\ \A i \in DOMAIN sent' \ DOMAIN sent : sent'[i].of = c /\ i > Len(sent)
           /\ \/ /\ wants[c] = "pack" /\ stripe[c] = "none" /\ stripe'[c] = "paid"
                 /\ \A i \in DOMAIN sent' \ DOMAIN sent : sent'[i].kind = "pack"
              \/ /\ (stripe[c] = "none" /\ wants[c] = "subscription") \/ stripe[c] \in {"active", "past_due"}
                 /\ \A i \in DOMAIN sent' \ DOMAIN sent : sent'[i].kind # "pack"
                 /\ stripe'[c] \in {"active", "past_due", "canceled"}
                 /\ \E i \in DOMAIN sent' \ DOMAIN sent :
                       /\ \A j \in DOMAIN sent' : j <= i
                       /\ sent'[i].kind \in Telling /\ stripe'[c] = Says(sent'[i].kind)
  <1> USE DEF SubscriptionInv
  <1>1. /\ UNCHANGED <<userState, callState, webhookState>>
        /\ stripe' \in [Checkouts -> {"none", "paid", "active", "past_due", "canceled"}]
        /\ \A d \in Checkouts \ {c} : stripe'[d] = stripe[d]
    BY DEF StripeStep, PayPack, Subscribe, Renew, Lapse, Cancel, Becomes, StateTypes
  <1> DEFINE E(kind) == [of |-> c, kind |-> kind]
  <1>2. sent \in Seq(Events) /\ \A k \in Kinds : E(k) \in Events
    BY DEF EventTypes, Events
  <1>3. ASSUME NEW k \in Kinds, sent' = sent \o <<E(k)>>
        PROVE  /\ DOMAIN sent' = 1..(Len(sent) + 1) /\ Len(sent) \in Nat
               /\ DOMAIN sent = 1..Len(sent)
               /\ \A i \in DOMAIN sent : sent'[i] = sent[i]
               /\ sent'[Len(sent) + 1] = E(k)
    BY <1>2, <1>3
  <1>4. ASSUME NEW k \in Kinds, NEW l \in Kinds, sent' = sent \o <<E(k), E(l)>>
        PROVE  /\ DOMAIN sent' = 1..(Len(sent) + 2) /\ Len(sent) \in Nat
               /\ DOMAIN sent = 1..Len(sent)
               /\ \A i \in DOMAIN sent : sent'[i] = sent[i]
               /\ sent'[Len(sent) + 1] = E(k) /\ sent'[Len(sent) + 2] = E(l)
    BY <1>2, <1>4
  <1>5. CASE PayPack(c)
    <2>1. /\ sent' = sent \o <<E("pack")>> /\ wants[c] = "pack" /\ stripe[c] = "none"
          /\ stripe'[c] = "paid" /\ "pack" \in Kinds
      BY <1>5 DEF PayPack, Becomes, Report, Event, Kinds, StateTypes
    <2>2. QED
      BY <1>1, <1>3, <2>1
  <1>6. CASE Subscribe(c)
    <2>1. /\ sent' = sent \o <<E("subscribed"), E("invoice")>> /\ wants[c] = "subscription"
          /\ stripe[c] = "none" /\ stripe'[c] = "active" /\ {"subscribed", "invoice"} \subseteq Kinds
      BY <1>6 DEF Subscribe, Becomes, Report, Event, Kinds, StateTypes
    <2>2. /\ DOMAIN sent' = 1..(Len(sent) + 2) /\ Len(sent) \in Nat /\ DOMAIN sent = 1..Len(sent)
          /\ \A i \in DOMAIN sent : sent'[i] = sent[i]
          /\ sent'[Len(sent) + 1] = E("subscribed") /\ sent'[Len(sent) + 2] = E("invoice")
      BY <1>4, <2>1
    <2>3. Len(sent) + 2 \in DOMAIN sent' \ DOMAIN sent /\ \A j \in DOMAIN sent' : j <= Len(sent) + 2
      BY <2>2
    <2>4. "invoice" \in Telling /\ Says("invoice") = "active"
      BY DEF Telling, Says
    <2>5. /\ sent'[Len(sent) + 2].kind \in Telling
          /\ stripe'[c] = Says(sent'[Len(sent) + 2].kind)
      BY <2>1, <2>2, <2>4
    <2>6. \E i \in DOMAIN sent' \ DOMAIN sent :
             /\ \A j \in DOMAIN sent' : j <= i
             /\ sent'[i].kind \in Telling /\ stripe'[c] = Says(sent'[i].kind)
      BY <2>3, <2>5
    <2>7. \A i \in DOMAIN sent' \ DOMAIN sent : sent'[i] \in {E("subscribed"), E("invoice")}
          /\ i > Len(sent)
      BY <2>2
    <2>8. \A i \in DOMAIN sent' \ DOMAIN sent : sent'[i].of = c /\ sent'[i].kind # "pack"
      BY <2>7
    <2>9. QED
      BY <1>1, <2>1, <2>2, <2>7, <2>8, <2>6
  <1>7. CASE Renew(c) /\ stripe[c] # "active"
    <2>1. /\ sent' = sent \o <<E("invoice"), E("active")>> /\ stripe[c] = "past_due"
          /\ stripe'[c] = "active" /\ {"active", "invoice"} \subseteq Kinds
      BY <1>7 DEF Renew, Becomes, Report, Event, Kinds, StateTypes
    <2>2. /\ DOMAIN sent' = 1..(Len(sent) + 2) /\ Len(sent) \in Nat /\ DOMAIN sent = 1..Len(sent)
          /\ \A i \in DOMAIN sent : sent'[i] = sent[i]
          /\ sent'[Len(sent) + 1] = E("invoice") /\ sent'[Len(sent) + 2] = E("active")
      BY <1>4, <2>1
    <2>3. Len(sent) + 2 \in DOMAIN sent' \ DOMAIN sent /\ \A j \in DOMAIN sent' : j <= Len(sent) + 2
      BY <2>2
    <2>4. "active" \in Telling /\ Says("active") = "active"
      BY DEF Telling, Says
    <2>5. /\ sent'[Len(sent) + 2].kind \in Telling
          /\ stripe'[c] = Says(sent'[Len(sent) + 2].kind)
      BY <2>1, <2>2, <2>4
    <2>6. \E i \in DOMAIN sent' \ DOMAIN sent :
             /\ \A j \in DOMAIN sent' : j <= i
             /\ sent'[i].kind \in Telling /\ stripe'[c] = Says(sent'[i].kind)
      BY <2>3, <2>5
    <2>7. \A i \in DOMAIN sent' \ DOMAIN sent : sent'[i] \in {E("invoice"), E("active")} /\ i > Len(sent)
      BY <2>2
    <2>8. \A i \in DOMAIN sent' \ DOMAIN sent : sent'[i].of = c /\ sent'[i].kind # "pack"
      BY <2>7
    <2>9. QED
      BY <1>1, <2>1, <2>2, <2>7, <2>8, <2>6
  <1>8. ASSUME NEW k \in Telling, sent' = sent \o <<E(k)>>, stripe[c] \in {"active", "past_due"},
               stripe'[c] = Says(k)
        PROVE  /\ Len(sent) \in Nat /\ DOMAIN sent = 1..Len(sent) /\ DOMAIN sent \subseteq DOMAIN sent'
               /\ \A i \in DOMAIN sent : sent'[i] = sent[i]
               /\ \A i \in DOMAIN sent' \ DOMAIN sent : sent'[i] = E(k) /\ i > Len(sent)
               /\ stripe'[c] \in {"active", "past_due", "canceled"}
               /\ \E i \in DOMAIN sent' \ DOMAIN sent :
                       /\ \A j \in DOMAIN sent' : j <= i
                       /\ sent'[i].kind \in Telling /\ stripe'[c] = Says(sent'[i].kind)
    <2>1. k \in Kinds
      BY DEF Telling, Kinds
    <2>2. /\ DOMAIN sent' = 1..(Len(sent) + 1) /\ Len(sent) \in Nat
          /\ DOMAIN sent = 1..Len(sent)
          /\ \A i \in DOMAIN sent : sent'[i] = sent[i]
          /\ sent'[Len(sent) + 1] = E(k)
      BY <1>3, <1>8, <2>1
    <2>3. QED
      BY <1>8, <2>2 DEF Says
  <1>9. CASE Renew(c) /\ stripe[c] = "active"
    <2>1. sent' = sent \o <<E("invoice")>> /\ stripe'[c] = Says("invoice") /\ "invoice" \in Telling
      BY <1>9 DEF Renew, Becomes, Report, Event, Says, Telling, StateTypes
    <2>2. QED
      BY <1>1, <1>8, <1>9, <2>1
  <1>10. CASE Lapse(c)
    <2>1. /\ sent' = sent \o <<E("past_due")>> /\ stripe'[c] = Says("past_due")
          /\ "past_due" \in Telling /\ stripe[c] = "active"
      BY <1>10 DEF Lapse, Becomes, Report, Event, Says, Telling, StateTypes
    <2>2. QED
      BY <1>1, <1>8, <2>1
  <1>11. CASE Cancel(c)
    <2>1. /\ sent' = sent \o <<E("deleted")>> /\ stripe'[c] = Says("deleted")
          /\ "deleted" \in Telling /\ stripe[c] \in {"active", "past_due"}
      BY <1>11 DEF Cancel, Becomes, Report, Event, Says, Telling, StateTypes
    <2>2. QED
      BY <1>1, <1>8, <2>1
  <1>12. QED
    BY <1>5, <1>6, <1>7, <1>9, <1>10, <1>11 DEF StripeStep

(***************************************************************************)
(* An event that has not been delivered changes no plan, and the           *)
(* subscription that begins is the first one of its user or not the only   *)
(* one.                                                                    *)
(***************************************************************************)
\* An event that is not handled yet changes no plan.
LEMMA StripeKeepsPlans ==
    ASSUME SubscriptionInv, PlanInv, NEW c \in Checkouts, StripeStep(c)
    PROVE  PlanInv'
  <1>1. /\ UNCHANGED <<userState, callState, webhookState>>
        /\ stripe' \in [Checkouts -> {"none", "paid", "active", "past_due", "canceled"}]
        /\ \A d \in Checkouts \ {c} : stripe'[d] = stripe[d]
        /\ Len(sent) \in Nat /\ DOMAIN sent = 1..Len(sent) /\ DOMAIN sent \subseteq DOMAIN sent'
        /\ \A i \in DOMAIN sent : sent'[i] = sent[i]
        /\ \A i \in DOMAIN sent' \ DOMAIN sent : sent'[i].of = c /\ i > Len(sent)
    BY StripeStepEffect
  <1>2. \/ /\ wants[c] = "pack" /\ stripe[c] = "none" /\ stripe'[c] = "paid"
           /\ \A i \in DOMAIN sent' \ DOMAIN sent : sent'[i].kind = "pack"
        \/ /\ (stripe[c] = "none" /\ wants[c] = "subscription") \/ stripe[c] \in {"active", "past_due"}
           /\ \A i \in DOMAIN sent' \ DOMAIN sent : sent'[i].kind # "pack"
           /\ stripe'[c] \in {"active", "past_due", "canceled"}
           /\ \E i \in DOMAIN sent' \ DOMAIN sent :
                 /\ \A j \in DOMAIN sent' : j <= i
                 /\ sent'[i].kind \in Telling /\ stripe'[c] = Says(sent'[i].kind)
    BY StripeStepEffect
  <1>3. UNCHANGED <<customer, plan, left, checkout, payer, wants, billed, applied, late, ledger>>
    BY <1>1 DEF userState, callState, webhookState
  <1>4. SavedBeforeShared' /\ GrantsOfApplied'
    BY <1>3 DEF PlanInv, SavedBeforeShared, GrantsOfApplied
  <1>5. stripe[c] \in {"active", "past_due"} => wants[c] = "subscription"
    BY DEF PlanInv, LastEventIsTrue
  <1>6. stripe'[c] # "none"
    BY <1>2
  <1>7. EventsOfBought'
    <2>1. ASSUME NEW i \in DOMAIN sent
          PROVE  stripe'[sent'[i].of] # "none"
                 /\ (sent'[i].kind # "pack" => wants'[sent'[i].of] = "subscription")
      BY <1>1, <1>3, <1>6, EventIsKnown DEF PlanInv, EventsOfBought
    <2>2. ASSUME NEW i \in DOMAIN sent' \ DOMAIN sent
          PROVE  stripe'[sent'[i].of] # "none"
                 /\ (sent'[i].kind # "pack" => wants'[sent'[i].of] = "subscription")
      BY <1>1, <1>2, <1>3, <1>5, <1>6
    <2>3. QED
      BY <2>1, <2>2 DEF EventsOfBought
  <1>8. /\ \A d \in Checkouts \ {c} : News(d)' = News(d)
        /\ \A d \in Checkouts : News(d)' \cap DOMAIN sent = News(d)
    BY <1>1 DEF News
  <1>9. LastEventIsTrue'
    <2>1. ASSUME NEW d \in Checkouts \ {c}
          PROVE  /\ wants'[d] = "subscription" => stripe'[d] # "paid"
                 /\ stripe'[d] \in {"active", "past_due", "canceled"} =>
                      /\ wants'[d] = "subscription"
                      /\ \E i \in News(d)' : Last(i, News(d)') /\ stripe'[d] = Says(sent'[i].kind)
      <3>1. \A i \in News(d) : sent'[i] = sent[i]
        BY <1>1 DEF News
      <3>2. QED
        BY <1>1, <1>3, <1>8, <3>1 DEF PlanInv, LastEventIsTrue
    <2>2. /\ wants'[c] = "subscription" => stripe'[c] # "paid"
          /\ stripe'[c] \in {"active", "past_due", "canceled"} =>
                /\ wants'[c] = "subscription"
                /\ \E i \in News(c)' : Last(i, News(c)') /\ stripe'[c] = Says(sent'[i].kind)
      <3>1. CASE stripe'[c] = "paid"
        BY <1>2, <1>3, <3>1
      <3>2. CASE stripe'[c] \in {"active", "past_due", "canceled"}
        <4>1. PICK i \in DOMAIN sent' \ DOMAIN sent :
                 /\ \A j \in DOMAIN sent' : j <= i
                 /\ sent'[i].kind \in Telling /\ stripe'[c] = Says(sent'[i].kind)
          BY <1>2, <3>2
        <4>2. i \in News(c)' /\ Last(i, News(c)')
          BY <1>1, <4>1 DEF News, Last
        <4>3. QED
          BY <1>2, <1>3, <1>5, <3>2, <4>1, <4>2
      <3>3. QED
        BY <1>2, <3>1, <3>2
    <2>3. QED
      BY <2>1, <2>2 DEF LastEventIsTrue
  <1>10. \A d \in Checkouts : News(d)' \cap applied' = News(d) \cap applied
    BY <1>3, <1>8 DEF SubscriptionInv, EventTypes
  <1>11. PlanIsLastHandled'
    <2>1. ASSUME NEW u \in Users PROVE SubscribedFor(u) \subseteq SubscribedFor(u)'
                                       /\ SubscribedFor(u)' \subseteq SubscribedFor(u) \cup {c}
      BY <1>1, <1>3, <1>6 DEF SubscribedFor
    <2>2. ASSUME NEW u \in Users PROVE SubscribedFor(u)' = {} => plan'[u] = "free"
      BY <1>3, <2>1 DEF PlanInv, PlanIsLastHandled
    <2>3. ASSUME NEW u \in Users, NEW d \in SubscribedFor(u)', SubscribedFor(u)' = {d},
                 u \notin left', billed'[d] = customer'[u], customer'[u] \notin late'
          PROVE  /\ News(d)' \cap applied' = {} => plan'[u] = "free"
                 /\ \A i \in DOMAIN sent' : Last(i, News(d)' \cap applied') =>
                       (plan'[u] = "pro" <=> Says(sent'[i].kind) = "active")
      <3>0. d \in Checkouts
        BY DEF SubscribedFor
      <3>1. CASE d \in SubscribedFor(u)
        <4>1. SubscribedFor(u) = {d}
          BY <2>1, <2>3, <3>1
        <4>2. \A i : Last(i, News(d) \cap applied) => i \in DOMAIN sent /\ sent'[i] = sent[i]
          BY <1>1 DEF Last, News
        <4>3. QED
          BY <1>3, <1>10, <2>3, <3>0, <3>1, <4>1, <4>2 DEF PlanInv, PlanIsLastHandled
      <3>2. CASE d \notin SubscribedFor(u)
        <4>1. SubscribedFor(u) = {} /\ d = c
          BY <2>1, <2>3, <3>2
        <4>2. plan'[u] = "free"
          BY <1>3, <4>1 DEF PlanInv, PlanIsLastHandled
        <4>3. stripe[c] = "none"
          BY <1>3, <2>3, <3>2, <4>1 DEF SubscribedFor
        <4>4. News(c) = {}
          BY <4>3 DEF PlanInv, EventsOfBought, News
        <4>5. \A i : ~Last(i, News(d)' \cap applied')
          BY <1>10, <4>1, <4>4 DEF Last
        <4>6. QED
          BY <4>2, <4>5
      <3>3. QED
        BY <3>1, <3>2
    <2>4. QED
      BY <2>2, <2>3 DEF PlanIsLastHandled
  <1>12. QED
    BY <1>4, <1>7, <1>9, <1>11 DEF PlanInv

(***************************************************************************)
(* A delivery touches the plan of the payer alone, and if it is not late   *)
(* it is the last that has been handled.                                   *)
(***************************************************************************)
\* An event that is handled in time is the last one, or one of before.
LEMMA AcknowledgeKeepsPlans ==
    ASSUME SubscriptionInv, PlanInv, NEW i \in DOMAIN sent, AcknowledgeEvent(i)
    PROVE  PlanInv'
  <1>1. /\ UNCHANGED <<customer, left, checkout, payer, wants, billed, stripe, sent>>
        /\ applied' = applied \cup {i} /\ HandleStripeWebhook(i)
        /\ late \subseteq late'
        /\ CustomerOf(i) \notin late' =>
              \A j \in applied : CustomerOf(j) = CustomerOf(i) => ~(j > i)
    BY DEF AcknowledgeEvent, callState, stripeState
  <1>2. sent[i].of \in Checkouts /\ payer[sent[i].of] \in Users /\ CustomerOf(i) \in Checkouts
        /\ sent[i].kind \in Kinds /\ applied \subseteq DOMAIN sent /\ DOMAIN sent \subseteq Nat
    <2>1. sent \in Seq(Events) /\ sent[i] \in Events /\ applied \subseteq DOMAIN sent
      BY DEF SubscriptionInv, EventTypes
    <2>2. DOMAIN sent \subseteq Nat /\ sent[i].kind \in Kinds
      BY <2>1 DEF Events
    <2>3. QED
      BY <2>1, <2>2, EventIsKnown
  <1>3. SavedBeforeShared' /\ EventsOfBought' /\ LastEventIsTrue'
    BY <1>1 DEF PlanInv, SavedBeforeShared, EventsOfBought, LastEventIsTrue, News, Last
  <1>4. GrantsOfApplied' /\ (i \in Granted => i \in applied)
    <2>1. i \in Granted => i \in applied
      BY DEF PlanInv, GrantsOfApplied, Granted
    <2>2. UNCHANGED ledger \/ \E u \in Users : InsertGrant(i, u)
      BY <1>1, <1>2 DEF HandleStripeWebhook, HandleCheckoutCompleted, HandleInvoicePaid,
         HandleSubscriptionDeleted, HandleSubscriptionUpdated, CreatePurchaseGrant,
         CreateSubscriptionGrant, UpdatePlanByStripeCustomer, Holders
    <2>3. CASE UNCHANGED ledger
      BY <1>1, <2>1, <2>3 DEF PlanInv, GrantsOfApplied
    <2>4. ASSUME NEW u \in Users, InsertGrant(i, u), ~UNCHANGED ledger PROVE GrantsOfApplied'
      <3>1. ledger' = Append(ledger, <<i, u>>) /\ ledger \in Seq(Nat \X Users)
        BY <2>4 DEF InsertGrant, SubscriptionInv, EventTypes
      <3>2. \A k \in DOMAIN ledger' : \/ k \in DOMAIN ledger /\ ledger'[k] = ledger[k]
                                 \/ ledger'[k] = <<i, u>>
        BY <1>2, <3>1, AppendProperties
      <3>3. QED
        BY <1>1, <3>2 DEF PlanInv, GrantsOfApplied
    <2>5. QED
      BY <2>1, <2>2, <2>3, <2>4
  <1>5. ASSUME NEW u \in Users, u \notin Holders(i) \/ sent[i].kind \in {"pack", "subscribed"}
        PROVE  plan'[u] = plan[u]
    BY <1>1, <1>5 DEF HandleStripeWebhook, HandleCheckoutCompleted, HandleInvoicePaid,
       HandleSubscriptionDeleted, HandleSubscriptionUpdated, CreatePurchaseGrant,
       CreateSubscriptionGrant, UpdatePlanByStripeCustomer, SubscriptionInv, StateTypes
  <1>6. ASSUME NEW u \in Users, u \in Holders(i), sent[i].kind \in Telling
        PROVE  /\ sent[i].of \in SubscribedFor(u)
               /\ \/ sent[i].kind = "invoice" /\ i \in Granted /\ plan'[u] = plan[u]
                  \/ plan'[u] = "pro" <=> Says(sent[i].kind) = "active"
    <2>1. payer[sent[i].of] = u /\ \A v \in Holders(i) : v = u
      BY <1>6, HolderPaid
    <2>2. sent[i].of \in SubscribedFor(u)
      BY <1>2, <1>6, <2>1 DEF PlanInv, EventsOfBought, SubscribedFor, Telling
    <2>3. CASE sent[i].kind = "invoice"
      <3>1. PICK v \in Holders(i) : plan' = IF i \in Granted THEN plan ELSE [plan EXCEPT ![v] = "pro"]
        BY <1>1, <1>6, <2>3 DEF HandleStripeWebhook, HandleCheckoutCompleted, HandleInvoicePaid,
           HandleSubscriptionDeleted, HandleSubscriptionUpdated, CreateSubscriptionGrant
      <3>2. v = u /\ plan \in [Users -> Plans]
        BY <2>1 DEF SubscriptionInv, StateTypes
      <3>3. CASE i \in Granted
        BY <2>2, <2>3, <3>1, <3>3
      <3>4. CASE i \notin Granted
        <4>1. plan'[u] = "pro" /\ Says(sent[i].kind) = "active"
          BY <2>3, <3>1, <3>2, <3>4 DEF Says
        <4>2. QED
          BY <2>2, <4>1
      <3>5. QED
        BY <3>3, <3>4
    <2>4. CASE sent[i].kind # "invoice"
      <3>1. CASE sent[i].kind \in {"deleted", "past_due"}
        <4>1. plan'[u] = "free"
          BY <1>1, <1>6, <3>1 DEF HandleStripeWebhook, HandleCheckoutCompleted, HandleInvoicePaid,
             HandleSubscriptionDeleted, HandleSubscriptionUpdated, UpdatePlanByStripeCustomer
        <4>2. Says(sent[i].kind) # "active"
          BY <3>1 DEF Says
        <4>3. QED
          BY <2>2, <4>1, <4>2
      <3>2. CASE sent[i].kind = "active"
        <4>1. plan'[u] = "pro"
          BY <1>1, <1>6, <3>2 DEF HandleStripeWebhook, HandleCheckoutCompleted, HandleInvoicePaid,
             HandleSubscriptionDeleted, HandleSubscriptionUpdated, UpdatePlanByStripeCustomer
        <4>2. Says(sent[i].kind) = "active"
          BY <3>2 DEF Says
        <4>3. QED
          BY <2>2, <4>1, <4>2
      <3>3. QED
        BY <1>6, <2>4, <3>1, <3>2 DEF Telling
    <2>5. QED
      BY <2>2, <2>3, <2>4
  <1>7. \A u \in Users : SubscribedFor(u)' = SubscribedFor(u)
    BY <1>1 DEF SubscribedFor
  <1>8. \A d \in Checkouts : News(d)' = News(d)
    BY <1>1 DEF News
  <1>9. ASSUME NEW u \in Users, SubscribedFor(u)' = {} PROVE plan'[u] = "free"
    <2>1. plan'[u] = plan[u]
      BY <1>2, <1>5, <1>6, <1>7, <1>9 DEF Kinds, Telling
    <2>2. QED
      BY <1>7, <1>9, <2>1 DEF PlanInv, PlanIsLastHandled
  <1>10. ASSUME NEW u \in Users, NEW c \in SubscribedFor(u)', SubscribedFor(u)' = {c},
                u \notin left', billed'[c] = customer'[u], customer'[u] \notin late'
         PROVE  /\ News(c)' \cap applied' = {} => plan'[u] = "free"
                /\ \A k \in DOMAIN sent' : Last(k, News(c)' \cap applied') =>
                      (plan'[u] = "pro" <=> Says(sent'[k].kind) = "active")
    <2>1. /\ c \in Checkouts /\ SubscribedFor(u) = {c} /\ u \notin left /\ c \in SubscribedFor(u)
          /\ billed[c] = customer[u] /\ customer[u] \notin late
      BY <1>1, <1>7, <1>10 DEF SubscribedFor
    <2>2. /\ News(c) \cap applied = {} => plan[u] = "free"
          /\ \A k \in DOMAIN sent : Last(k, News(c) \cap applied) =>
                      (plan[u] = "pro" <=> Says(sent[k].kind) = "active")
      BY <2>1 DEF PlanInv, PlanIsLastHandled
    <2>3. CASE i \notin News(c)
      <3>1. News(c)' \cap applied' = News(c) \cap applied
        BY <1>1, <1>8, <2>1, <2>3
      <3>2. plan'[u] = plan[u]
        <4>1. CASE u \notin Holders(i) \/ sent[i].kind \in {"pack", "subscribed"}
          BY <1>5, <4>1
        <4>2. CASE u \in Holders(i) /\ sent[i].kind \in Telling
          BY <1>6, <2>1, <2>3, <4>2 DEF News
        <4>3. QED
          BY <1>2, <4>1, <4>2 DEF Kinds, Telling
      <3>3. QED
        BY <1>1, <2>2, <3>1, <3>2
    <2>4. CASE i \in News(c)
      <3>1. CustomerOf(i) = customer[u] /\ sent[i].kind \in Telling /\ u \in Holders(i)
        BY <2>1, <2>4 DEF News, CustomerOf, Holders, SubscriptionInv, StateTypes
      <3>2. \A j \in News(c) \cap applied : j <= i
        BY <1>1, <1>2, <1>10, <2>1, <3>1 DEF News, CustomerOf
      <3>3. Last(i, News(c)' \cap applied')
        BY <1>1, <1>2, <1>8, <2>1, <2>4, <3>2 DEF Last
      <3>4. \A k \in DOMAIN sent : Last(k, News(c)' \cap applied') => k = i
        BY <1>2, <3>3 DEF Last
      <3>5. plan'[u] = "pro" <=> Says(sent[i].kind) = "active"
        <4>1. CASE sent[i].kind = "invoice" /\ i \in Granted /\ plan'[u] = plan[u]
          <5>1. Last(i, News(c) \cap applied)
            BY <1>4, <2>4, <3>2, <4>1 DEF Last
          <5>2. QED
            BY <2>2, <4>1, <5>1
        <4>2. QED
          BY <1>6, <3>1, <4>1
      <3>6. QED
        BY <1>1, <3>3, <3>4, <3>5 DEF Last
    <2>5. QED
      BY <2>3, <2>4
  <1>11. PlanIsLastHandled'
    BY <1>9, <1>10 DEF PlanIsLastHandled
  <1>12. QED
    BY <1>3, <1>4, <1>11 DEF PlanInv

\* Hence it always holds.
LEMMA PlanInvariant == SubscriptionSpec => []PlanInv
  <1>1. SubscriptionInv /\ PlanInv /\ [SubscriptionNext]_subscriptionVars => PlanInv'
    <2> SUFFICES ASSUME SubscriptionInv, PlanInv, [SubscriptionNext]_subscriptionVars
                 PROVE  PlanInv'
      OBVIOUS
    <2>1. CASE \E c \in Checkouts : CheckoutStep(c) \/ StripeStep(c)
      BY <2>1, CheckoutKeepsPlans, StripeKeepsPlans
    <2>2. CASE \E i \in DOMAIN sent : AcknowledgeEvent(i)
      BY <2>2, AcknowledgeKeepsPlans
    <2>3. ASSUME UNCHANGED <<customer, plan, callState, stripeState, applied, late, ledger>>,
                 left \subseteq left'
          PROVE  PlanInv'
      <3>1. UNCHANGED <<customer, plan, checkout, payer, wants, billed, stripe, sent, applied, late, ledger>>
        BY <2>3 DEF callState, stripeState
      <3>2. SavedBeforeShared' /\ EventsOfBought' /\ GrantsOfApplied' /\ LastEventIsTrue'
        BY <3>1 DEF PlanInv, SavedBeforeShared, EventsOfBought, GrantsOfApplied, LastEventIsTrue,
           News, Last
      <3>3. PlanIsLastHandled'
        BY <2>3, <3>1 DEF PlanInv, PlanIsLastHandled, SubscribedFor, News, Last
      <3>4. QED
        BY <3>2, <3>3 DEF PlanInv
    <2>4. CASE \E u \in Users : Leave(u) \/ ComeBack(u)
      BY <2>3, <2>4 DEF Leave, ComeBack, webhookState
    <2>5. CASE UNCHANGED subscriptionVars \/ \E i \in DOMAIN sent : SwallowEvent(i)
      BY <2>3, <2>5 DEF subscriptionVars, userState, webhookState, SwallowEvent
    <2>6. QED
      BY <2>1, <2>2, <2>4, <2>5 DEF SubscriptionNext, PostStripeWebhook
  <1>2. QED
    BY <1>1, PlanInitInv, SubscriptionInvariant, PTL DEF SubscriptionSpec

(***************************************************************************)
(* Whoever has one subscription, whose events have been handled, none of   *)
(* them late, has the plan that Stripe says is paid for: "pro" while the   *)
(* subscription is active and "free" when it is past due or gone, whatever *)
(* is delivered twice and whoever pays and cancels.                        *)
(***************************************************************************)
THEOREM PlansFollow == SubscriptionSpec => []PlanFollowsSubscription
  <1>1. SubscriptionInv /\ PlanInv => PlanFollowsSubscription
    <2> SUFFICES ASSUME SubscriptionInv, PlanInv,
                        NEW u \in Users \ left, NEW c \in SubscribedFor(u),
                        SubscribedFor(u) = {c}, billed[c] = customer[u],
                        customer[u] \notin late,
                        \A i \in DOMAIN sent : CustomerOf(i) = customer[u] => i \in applied
                 PROVE  plan[u] = "pro" <=> stripe[c] = "active"
      BY DEF PlanFollowsSubscription
    <2>1. c \in Checkouts /\ stripe[c] \in {"active", "past_due", "canceled"}
      BY DEF SubscribedFor, PlanInv, LastEventIsTrue, SubscriptionInv, StateTypes
    <2>2. PICK i \in News(c) : Last(i, News(c)) /\ stripe[c] = Says(sent[i].kind)
      BY <2>1 DEF PlanInv, LastEventIsTrue
    <2>3. News(c) \subseteq applied
      BY DEF News, CustomerOf
    <2>4. Last(i, News(c) \cap applied) /\ i \in DOMAIN sent
      BY <2>2, <2>3 DEF Last, News
    <2>5. QED
      BY <2>2, <2>4 DEF PlanInv, PlanIsLastHandled
  <1>2. QED
    BY <1>1, SubscriptionInvariant, PlanInvariant, PTL
=============================================================================
