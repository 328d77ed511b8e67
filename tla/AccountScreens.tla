--------------------------- MODULE AccountScreens ---------------------------
(***************************************************************************)
(* The app's screens over the account: onboarding, sign-up and sign-in,    *)
(* the links of the mails, Settings -> Change email, Waitlist offer and    *)
(* Delete account, and the root gate between them and the tabs.            *)
(*                                                                         *)
(* An alert whose OK moves on is taken as answered at once.                *)
(***************************************************************************)
EXTENDS Accounts, Queries

CONSTANTS
    MaxAccountActs,     \* bound: days, and what the user does but for going back
    MaxAccountFaults,   \* bound: calls lost, grants that go wrong
    MaxDays             \* bound: days that pass

AccountKeys == {"me", "offer"}
Onboarding == {"welcome", "sign-up", "sign-in", "forgot", "verify", "reset", "confirm", "redeem", "budget", "camera"}
AccountKinds == Onboarding \cup {"tabs", "settings", "change", "claim", "delete"}
Operations == {"sign-up", "sign-in", "apple", "forgot", "verify", "resend", "reset", "confirm", "redeem",
               "onboarded", "change", "claim", "delete", "sign-out"}

VARIABLES
    accounts,       \* the server
    who,            \* whose session the app holds
    accountCache,   \* ME_QUERY_KEY, WAITLIST_OFFER_QUERY_KEY
    accountStack,   \* the screens; of a link's screen, the mail and how its call ended
    accountCalls,   \* the mutations under way
    accountUntold,  \* keys the server changed without the app being told
    accountActs, accountFaults

accountWorld == <<accountActs, accountFaults>>
accountVars == <<accounts, who, accountCache, accountStack, accountCalls, accountUntold, accountWorld>>

AccountScreen(kind, n) == [kind |-> kind, mail |-> n, email |-> NoEmail, ended |-> "no"]
AccTop == Last(accountStack)
Top1(st, screen) == Append(Front(st), screen)
AccPopped(st) == IF Len(st) = 1 THEN st ELSE Front(st)

AccountTruth(h, k, p) ==
    CASE p \notin Live(h) -> NoData
      [] k = "me" -> [user |-> p, email |-> h.people[p].email, needs |-> ~h.people[p].boarded]
      [] OTHER -> [user |-> p, available |-> WindowOpen(h) /\ Redemptions(h, p) = {},
                   status |-> {r.status : r \in Redemptions(h, p)}]

\* The emails of accounts are unique, and so are their tokens' holders.
AccountsTypeOK ==
    /\ accounts.people \in [People -> Person] /\ accounts.today \in 0 .. MaxDays
    /\ \A p, q \in Live(accounts) : p # q => accounts.people[p].email # accounts.people[q].email
    /\ \A n \in DOMAIN accounts.mail : accounts.mail[n].kind \in Links /\ Cardinality(Holder(accounts, n)) <= 1
    /\ \A r \in accounts.redeemed : r.status \in {"pending", "granted", "failed"}
    /\ who \in People \cup {NoOne} /\ accountUntold \subseteq AccountKeys
    /\ \A k \in AccountKeys : accountCache[k].call \in {"none", "asked", "read", "failed"}
    /\ \A i \in DOMAIN accountStack : accountStack[i].kind \in AccountKinds /\ accountStack[i].ended \in {"no", "well", "badly"}
    /\ \A n \in DOMAIN accountCalls : /\ accountCalls[n].op \in Operations
                                      /\ accountCalls[n].at \in 0 .. Len(accountStack)
                                      /\ accountCalls[n].pc \in {"sent", "done", "refused", "failed"}

-----------------------------------------------------------------------------
(* The cache, and the gate                                                  *)

AccountAct == accountActs < MaxAccountActs /\ accountActs' = accountActs + 1 /\ UNCHANGED accountFaults
AccountFault == /\ accountActs < MaxAccountActs /\ accountFaults < MaxAccountFaults
                /\ accountActs' = accountActs + 1 /\ accountFaults' = accountFaults + 1

\* The profile is read while someone is signed in, the offer by Settings and its screen.
AccMounted(st, p) ==
    {k \in AccountKeys : p # NoOne /\ (k = "me" \/ \E i \in DOMAIN st : st[i].kind \in {"settings", "claim"})}
AccData(k) == accountCache[k].data
Knows(k) == AccData(k) # NoData

\* Nobody signed in is kept out of the app, and who has not finished onboarding too.
Gate(st, p, me) ==
    IF Last(st).kind \in Onboarding THEN st
    ELSE IF p = NoOne THEN <<AccountScreen("welcome", 0)>>
    ELSE IF me # NoData /\ me.needs THEN <<AccountScreen("budget", 0)>>
    ELSE st

\* The screens become st, for the session of p, and what newly shows is asked for.
AccGo(st, p, cache) ==
    LET shown == Gate(st, p, cache["me"].data) IN
    /\ accountStack' = shown /\ who' = p
    /\ accountCache' = [k \in AccountKeys |->
        IF k \in AccMounted(shown, p) \ AccMounted(accountStack, who) THEN Observe(cache[k]) ELSE cache[k]]

Refreshed(keys, st, p) ==
    [k \in AccountKeys |-> IF k \in keys THEN Invalidate(accountCache[k], k \in AccMounted(st, p)) ELSE accountCache[k]]
AccOvertaken(keys) == {k \in keys : accountCache[k].call = "read" /\ ~Knows(k)}
Cleared == [k \in AccountKeys |-> Unloaded]

\* A call outlives its screen.
Stays(i, st) == i \in DOMAIN st /\ st[i].kind = accountStack[i].kind
CallsAfter(calls, st) ==
    [n \in DOMAIN calls |-> IF calls[n].at = 0 \/ Stays(calls[n].at, st) THEN calls[n] ELSE [calls[n] EXCEPT !.at = 0]]
Busy(op) == \E n \in DOMAIN accountCalls : accountCalls[n].at = Len(accountStack) /\ accountCalls[n].op = op

-----------------------------------------------------------------------------
(* What the user does                                                       *)

AccLeads == [welcome |-> {"sign-up", "sign-in"}, tabs |-> {"settings"},
             settings |-> {"change", "delete"} \cup (IF Knows("offer") /\ AccData("offer").available THEN {"claim"} ELSE {})]
            @@ ("sign-up" :> {"sign-in"}) @@ ("sign-in" :> {"forgot", "sign-up"}) @@ ("verify" :> {"budget"}) @@ ("budget" :> {"camera"})

OpenAccount(kind) ==
    /\ AccountAct /\ AccTop.kind \in DOMAIN AccLeads /\ kind \in AccLeads[AccTop.kind]
    /\ AccTop.kind = "verify" => AccTop.ended # "well"
    /\ LET under == IF AccTop.kind = "sign-in" /\ kind = "sign-up" THEN Front(accountStack) ELSE accountStack IN
       AccGo(Append(under, AccountScreen(kind, 0)), who, accountCache)
    /\ accountCalls' = CallsAfter(accountCalls, accountStack')
    /\ UNCHANGED <<accounts, accountUntold>>

BackAccount ==
    /\ Len(accountStack) > 1
    /\ AccGo(Front(accountStack), who, accountCache) /\ accountCalls' = CallsAfter(accountCalls, accountStack')
    /\ UNCHANGED <<accounts, accountUntold, accountWorld>>

Sent(op, e, n, at) ==
    Append(accountCalls, [op |-> op, email |-> e, mail |-> n, user |-> who, code |-> FALSE, for |-> NoOne, at |-> at, pc |-> "sent"])

\* A screen's button sends op, unless it is on its way.
SubmitFrom(kind, op, e) ==
    /\ AccountAct /\ AccTop.kind = kind /\ ~Busy(op)
    /\ accountCalls' = Sent(op, e, AccTop.mail, Len(accountStack))
    /\ UNCHANGED <<accounts, who, accountCache, accountStack, accountUntold>>

SignUp(e) == SubmitFrom("sign-up", "sign-up", e)
SignIn(e) == SubmitFrom("sign-in", "sign-in", e)
Apple(e) == SubmitFrom("sign-up", "apple", e) \/ SubmitFrom("sign-in", "apple", e)
ResendLink == AccTop.ended # "well" /\ AccTop.email # NoEmail /\ SubmitFrom("verify", "resend", AccTop.email)
ForgotPassword(e) == SubmitFrom("forgot", "forgot", e)
ResetPassword == SubmitFrom("reset", "reset", NoEmail)
FinishOnboarding == SubmitFrom("camera", "onboarded", NoEmail)

\* To another address.
ChangeEmail(e) == (Knows("me") => e # AccData("me").email) /\ SubmitFrom("change", "change", e)

\* While the offer is there, and no link was just sent.
ClaimOffer(e) ==
    /\ AccTop.ended = "no" /\ Knows("offer") /\ AccData("offer").available
    /\ SubmitFrom("claim", "claim", e)

\* Once confirmed.
DeleteAccount == SubmitFrom("delete", "delete", NoEmail)
SignOut == SubmitFrom("settings", "sign-out", NoEmail)

\* A link opens its screen, which sends its call once; but a new password is asked for.
LinkOpens == [verify |-> "verify", reset |-> "reset", change |-> "confirm", claim |-> "redeem"]
TapLink(n) ==
    LET kind == LinkOpens[accounts.mail[n].kind] IN
    /\ AccountAct /\ \A i \in DOMAIN accountStack : accountStack[i].kind # kind
    /\ AccGo(Append(accountStack, AccountScreen(kind, n)), who, accountCache)
    /\ accountCalls' = IF kind = "reset" THEN accountCalls ELSE Sent(kind, NoEmail, n, Len(accountStack) + 1)
    /\ UNCHANGED <<accounts, accountUntold>>

\* Continue, on a link's screen: into the app, or to sign in.
ContinueFromLink ==
    /\ AccTop.kind \in {"verify", "confirm", "redeem"} /\ AccTop.ended # "no"
    /\ AccTop.kind = "verify" => AccTop.ended = "well"
    /\ AccGo(Top1(accountStack, AccountScreen(IF who = NoOne THEN "sign-in" ELSE "tabs", 0)), who, accountCache)
    /\ accountCalls' = CallsAfter(accountCalls, accountStack')
    /\ UNCHANGED <<accounts, accountUntold, accountWorld>>

\* The claim screen, asked for another address.
SendAgain ==
    /\ AccTop.kind = "claim" /\ AccTop.ended = "well"
    /\ accountStack' = Top1(accountStack, AccountScreen("claim", 0))
    /\ UNCHANGED <<accounts, who, accountCache, accountCalls, accountUntold, accountWorld>>

-----------------------------------------------------------------------------
(* The calls                                                                *)

\* The keys a call's success refreshes, or sets.
Refreshes == [op \in Operations |-> CASE op \in {"sign-up", "sign-in", "apple", "verify", "confirm", "onboarded"} -> {"me"}
                                  [] op = "redeem" -> AccountKeys
                                  [] OTHER -> {}]
Changes(h) == {k \in AccountKeys : AccountTruth(h, k, who) # AccountTruth(accounts, k, who)}

\* An account with a sign-in of Apple's is asked for a fresh code before it goes.
NeedsCode(c) == c.op = "delete" /\ c.user \in Live(accounts) /\ accounts.people[c.user].subject # NoEmail /\ ~c.code

ServeAccount(n) ==
    /\ accountCalls[n].pc = "sent"
    /\ LET c == accountCalls[n]
           h == Performed(accounts, c) IN
       IF NeedsCode(c)
       THEN accountCalls' = [accountCalls EXCEPT ![n].pc = "refused"] /\ UNCHANGED <<accounts, accountUntold>>
       ELSE IF ~Accepts(accounts, c)
       THEN accountCalls' = [accountCalls EXCEPT ![n].pc = "failed"] /\ UNCHANGED <<accounts, accountUntold>>
       ELSE /\ c.op \in {"sign-up", "apple"} => Unused(accounts) # {}
            /\ accounts' = h
            /\ accountCalls' = [accountCalls EXCEPT ![n].pc = "done",
                                   ![n].for = IF c.op \in {"sign-up", "sign-in", "apple"} THEN SignsIn(h, c) ELSE @]
            /\ accountUntold' = accountUntold \cup (Changes(h) \ Refreshes[c.op])
    /\ UNCHANGED <<who, accountCache, accountStack, accountWorld>>

AccountLost(n) ==
    /\ AccountFault /\ accountCalls[n].pc \in {"sent", "done"}
    /\ accountCalls' = [accountCalls EXCEPT ![n].pc = "failed"]
    /\ accountUntold' = accountUntold \cup (IF accountCalls[n].pc = "done" THEN Refreshes[accountCalls[n].op] ELSE {})
    /\ UNCHANGED <<accounts, who, accountCache, accountStack>>

Ended(c, how) == IF c.at = 0 THEN accountStack ELSE [accountStack EXCEPT ![c.at].ended = how]

\* Where the app is, once the call c succeeded.
ScreensAfter(c) ==
    CASE c.op = "sign-up" -> Append(accountStack, [AccountScreen("verify", 0) EXCEPT !.email = c.email])
      [] c.op \in {"sign-in", "apple"} ->
            Top1(accountStack, AccountScreen(IF accounts.people[c.for].boarded THEN "tabs" ELSE "budget", 0))
      [] c.op \in {"verify", "confirm", "redeem"} -> Ended(c, "well")
      [] c.op = "claim" -> Ended(c, "well")
      [] c.op \in {"forgot", "change"} -> AccPopped(accountStack)
      [] c.op = "reset" -> Top1(accountStack, AccountScreen("sign-in", 0))
      [] c.op = "onboarded" -> Top1(accountStack, AccountScreen("tabs", 0))
      [] OTHER -> accountStack

\* What another session left in the cache is shown on.
LeftBy(p) == {k \in {"offer"} : p # who /\ (Knows(k) \/ InFlight(accountCache[k]))}

AccountAnswered(n) ==
    /\ accountCalls[n].pc = "done" /\ accountCalls[n].op \notin {"delete", "sign-out"}
    /\ LET c == accountCalls[n]
           p == IF c.for = NoOne THEN who ELSE c.for
           st == ScreensAfter(c)
           me == AccountTruth(accounts, "me", who) IN
       /\ AccGo(st, p, IF c.op = "onboarded" /\ me # NoData THEN [accountCache EXCEPT !["me"] = SetData(@, me)] ELSE Refreshed(Refreshes[c.op], st, p))
       /\ accountCalls' = CallsAfter(RemoveAt(accountCalls, n), accountStack')
       /\ accountUntold' = (accountUntold \ (IF p = who THEN {} ELSE {"me"})) \cup AccOvertaken(Refreshes[c.op]) \cup LeftBy(p)
                           \cup {k \in {"me"} : c.op = "onboarded" /\ InFlight(accountCache[k])}
    /\ UNCHANGED <<accounts, accountWorld>>

\* A sign-out clears the app whatever the server said; a deletion once it was done.
SessionOver(n) ==
    /\ \/ accountCalls[n].op = "sign-out" /\ accountCalls[n].pc # "sent"
       \/ accountCalls[n].op = "delete" /\ accountCalls[n].pc = "done"
    /\ AccGo(<<AccountScreen("welcome", 0)>>, NoOne, Cleared)
    /\ accountCalls' = CallsAfter(RemoveAt(accountCalls, n), accountStack')
    /\ accountUntold' = {}
    /\ UNCHANGED <<accounts, accountWorld>>

\* A link's screen says so, onboarding goes on without the server, the rest stays as it is.
AccountFailed(n) ==
    /\ accountCalls[n].pc = "failed" /\ accountCalls[n].op # "sign-out"
    /\ LET c == accountCalls[n] IN
       /\ CASE c.op = "onboarded" ->
                 AccGo(ScreensAfter(c), who, [accountCache EXCEPT !["me"].data = IF @ = NoData THEN @ ELSE [@ EXCEPT !.needs = FALSE]])
            [] c.op \in {"verify", "confirm", "redeem"} -> AccGo(Ended(c, "badly"), who, accountCache)
            [] c.op = "forgot" -> AccGo(AccPopped(accountStack), who, accountCache)
            [] OTHER -> UNCHANGED <<who, accountCache, accountStack>>
       /\ accountUntold' = accountUntold \cup (IF c.op = "onboarded" THEN {"me"} ELSE {})
       /\ accountCalls' = CallsAfter(RemoveAt(accountCalls, n), accountStack')
    /\ UNCHANGED <<accounts, accountWorld>>

\* Apple asks again: a code, and the call once more; or nothing is deleted.
AppleReauth(n) ==
    /\ accountCalls[n].pc = "refused"
    /\ \/ accountCalls' = [accountCalls EXCEPT ![n].pc = "sent", ![n].code = TRUE]
       \/ accountCalls' = RemoveAt(accountCalls, n)
    /\ UNCHANGED <<accounts, who, accountCache, accountStack, accountUntold, accountWorld>>

-----------------------------------------------------------------------------
(* The worker, the beats, and the queries                                   *)

ServerAlone(h) ==
    /\ accounts' = h /\ accountUntold' = accountUntold \cup Changes(h)
    /\ UNCHANGED <<who, accountCache, accountStack, accountCalls>>

SendClaimLink == (\E t \in accounts.claims : ServerAlone(ClaimSent(accounts, t))) /\ UNCHANGED accountWorld
GrantTook == (\E r \in Due(accounts) : ServerAlone(GrantTried(accounts, r, "took"))) /\ UNCHANGED accountWorld
GrantFailed ==
    /\ AccountFault
    /\ \E r \in Due(accounts), outcome \in {"timed out", "refused"} : ServerAlone(GrantTried(accounts, r, outcome))

\* A day passes: the links mailed so far end, and the daily beats run, or do not.
NextDay ==
    /\ AccountAct /\ accounts.today < MaxDays
    /\ LET h == [accounts EXCEPT !.today = @ + 1, !.expired = DOMAIN accounts.mail] IN
       \/ ServerAlone(h)
       \/ WindowOpen(h) /\ ServerAlone(MatchAll(h))
       \/ ~WindowOpen(h) /\ ServerAlone(Purged(h))

\* A session whose account is gone ends.
ServeAccountRead(k) ==
    /\ accountCache[k].call = "asked" /\ who # NoOne
    /\ IF who \in Live(accounts)
       THEN /\ accountCache' = [accountCache EXCEPT ![k] = Reads(@, AccountTruth(accounts, k, who))]
            /\ accountUntold' = accountUntold \ {k}
            /\ UNCHANGED <<who, accountStack, accountCalls>>
       ELSE /\ AccGo(accountStack, NoOne, [accountCache EXCEPT ![k] = Fail(@)])
            /\ accountCalls' = CallsAfter(accountCalls, accountStack') /\ UNCHANGED accountUntold
    /\ UNCHANGED <<accounts, accountWorld>>

AccountReadLost(k) ==
    /\ AccountFault /\ InFlight(accountCache[k])
    /\ accountCache' = [accountCache EXCEPT ![k] = Fail(@)]
    /\ UNCHANGED <<accounts, who, accountStack, accountCalls, accountUntold>>

AccountReadAnswered(k) ==
    /\ accountCache[k].call = "read"
    /\ AccGo(accountStack, who, [accountCache EXCEPT ![k] = Arrived(@)])
    /\ accountCalls' = CallsAfter(accountCalls, accountStack')
    /\ UNCHANGED <<accounts, accountUntold, accountWorld>>

-----------------------------------------------------------------------------

\* A first start; or an account with Settings open: of Apple's, or of the waitlist with its link to come.
AccountInit ==
    /\ \/ accounts = NoAccounts /\ who = NoOne /\ accountStack = <<AccountScreen("welcome", 0)>>
       \/ /\ accounts \in {[h EXCEPT !.people[1].boarded = TRUE] :
                            h \in {WithApple(NoAccounts, e) : e \in Emails} \cup {SignedUp(NoAccounts, e) : e \in Listed}}
          /\ who = 1 /\ accountStack = <<AccountScreen("tabs", 0), AccountScreen("settings", 0)>>
    /\ accountCache = [k \in AccountKeys |-> IF who # NoOne THEN Loaded(AccountTruth(accounts, k, who)) ELSE Unloaded]
    /\ accountCalls = <<>> /\ accountUntold = {} /\ accountActs = 0 /\ accountFaults = 0

AccountNext ==
    \/ (\E kind \in AccountKinds : OpenAccount(kind)) \/ BackAccount \/ ContinueFromLink \/ SendAgain
    \/ \E e \in Emails : SignUp(e) \/ SignIn(e) \/ Apple(e) \/ ForgotPassword(e) \/ ChangeEmail(e) \/ ClaimOffer(e)
    \/ ResendLink \/ ResetPassword \/ FinishOnboarding \/ DeleteAccount \/ SignOut
    \/ \E n \in DOMAIN accounts.mail : TapLink(n)
    \/ \E n \in DOMAIN accountCalls :
        ServeAccount(n) \/ AccountLost(n) \/ AccountAnswered(n) \/ SessionOver(n) \/ AccountFailed(n) \/ AppleReauth(n)
    \/ SendClaimLink \/ GrantTook \/ GrantFailed \/ NextDay
    \/ \E k \in AccountKeys : ServeAccountRead(k) \/ AccountReadLost(k) \/ AccountReadAnswered(k)

AccountSpec == AccountInit /\ [][AccountNext]_accountVars

-----------------------------------------------------------------------------
(* Properties                                                               *)

\* Once no call is under way, the profile and the offer are shown as the server
\* has them, but for changes the app was not told of, reads that failed, a first
\* read under way when the app's own change ended, and an offer another session left.
AccountsShownAreTrue ==
    accountCalls = <<>> =>
        \A k \in AccMounted(accountStack, who) \ accountUntold :
            accountCache[k].call = "none" => AccData(k) = AccountTruth(accounts, k, who)

\* A tap on p's link of this kind, whose mail named e, is what the step serves.
Tapped(p, kind, e) ==
    \E n \in DOMAIN accountCalls :
        /\ accountCalls[n].mail # 0 /\ accountCalls[n].pc = "sent" /\ accountCalls'[n].pc = "done"
        /\ LET m == accounts.mail[accountCalls[n].mail] IN m.kind = kind /\ m.user = p /\ m.says = e

\* Whose address changes, or is verified, tapped the link that named it.
OnlyAsMailed ==
    \A p \in Live(accounts) : LET was == accounts.people[p]
                                  now == accounts'.people[p] IN
        now.state = "live" =>
            /\ now.email # was.email => Tapped(p, "change", now.email)
            /\ now.verified /\ ~was.verified => Tapped(p, "verify", now.email) \/ Tapped(p, "change", now.email)

\* A link does what its mail said, however many were sent and whatever changed
\* since: an address changes only to the one the tapped mail named, and counts
\* as verified only where a link for that very address was tapped (auth.py
\* verify_email, request_email_change, confirm_email_change).
LinksDoWhatTheySay == [][OnlyAsMailed]_accountVars

\* One free year for an email of the waitlist and for an account, however often
\* the grant is tried, the account deleted and made again, or the email claimed
\* by two (waitlist_service.py "Once: one free year per waitlist email, ever").
OneFreeYear ==
    \A g1, g2 \in accounts.grants : g1.email = g2.email \/ g1.user = g2.user => g1 = g2

=============================================================================
