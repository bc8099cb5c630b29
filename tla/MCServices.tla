----------------------------- MODULE MCServices -----------------------------
(***************************************************************************)
(* The components that share no state which a step of one reads and a step *)
(* of another writes, in one run: a behaviour is one of a single component *)
(* (focus), chosen at the start, while the others stay as they begin.      *)
(***************************************************************************)
EXTENDS MinuteLedger, Educator, Accounts, Subscriptions, Coach, QuestionImages,
        SentenceBuffer, Grading, Listings, InterviewClient, Instance

VARIABLE focus

servicesVars ==
    <<focus, vars, educatorVars, accountsVars, subscriptionVars, coachVars, imagesVars,
      bufferVars, gradingVars, listingsVars, clientVars, instanceVars>>

Focuses == {"ledger", "educator", "accounts", "subscriptions", "coach", "images",
            "sentences", "grading", "listings", "client", "instance"}

\* The components with a choice of initial states have it when they are in focus;
\* the trial is of one minute, so that the longer session takes both grants.
ServicesInit ==
    /\ focus \in Focuses
    /\ Init /\ EducatorInit /\ AccountsInit /\ SubscriptionInit /\ CoachInit /\ ImagesInit
    /\ BufferInit /\ GradingInit /\ ListingsInit /\ ClientInit /\ InstanceInit
    /\ initial[Trial] = 1
    /\ focus # "educator" => ~paid /\ \A r \in Requests : subject[r] = CHOOSE s \in Reviews : TRUE
    /\ focus # "client" => transcript = <<>>

Stays(component, state) == IF focus = component THEN TRUE ELSE UNCHANGED state

ServicesNext ==
    /\ UNCHANGED focus
    /\ Stays("ledger", vars) /\ Stays("educator", educatorVars)
    /\ Stays("accounts", accountsVars) /\ Stays("subscriptions", subscriptionVars)
    /\ Stays("coach", coachVars) /\ Stays("images", imagesVars)
    /\ Stays("sentences", bufferVars) /\ Stays("grading", gradingVars)
    /\ Stays("listings", listingsVars) /\ Stays("client", clientVars)
    /\ Stays("instance", instanceVars)
    /\ \/ focus = "ledger" /\ Next
       \/ focus = "educator" /\ EducatorNext
       \/ focus = "accounts" /\ AccountsNext
       \/ focus = "subscriptions" /\ SubscriptionNext
       \/ focus = "coach" /\ CoachNext
       \/ focus = "images" /\ ImagesNext
       \/ focus = "sentences" /\ BufferNext
       \/ focus = "grading" /\ GradingNext
       \/ focus = "listings" /\ ListingsNext
       \/ focus = "client" /\ ClientNext
       \/ focus = "instance" /\ InstanceNext

ServicesSpec == ServicesInit /\ [][ServicesNext]_servicesVars
=============================================================================
