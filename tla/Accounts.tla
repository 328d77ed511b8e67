------------------------------ MODULE Accounts ------------------------------
(***************************************************************************)
(* The server's accounts: the operations of services/auth.py, the free     *)
(* year of services/waitlist_service.py, and what a deletion keeps of it.  *)
(*                                                                         *)
(* A server state h has the people, the links mailed so far (a link's      *)
(* token is its place in h.mail; a person holds at most one of each kind), *)
(* the redemptions, and what RevenueCat took.  Sign-in is by password or   *)
(* with Apple, whose subject is the address it was created with (Google's  *)
(* is the same).  Onboarding counts as finished once it was, or a budget   *)
(* was made.                                                               *)
(***************************************************************************)
EXTENDS Integers, Sequences, FiniteSets, SequencesExt

CONSTANTS
    Emails,
    Listed,         \* the addresses on the waitlist
    MaxPeople,      \* bound: accounts ever made
    ClaimDays,      \* waitlist_claim_window_days
    RetryDays       \* waitlist_grant_retry_days

ASSUME AccountsAssumption == MaxPeople \in Nat \ {0} /\ ClaimDays \in Nat

People == 1 .. MaxPeople
NoOne == 0
NoEmail == "none"
Links == {"verify", "reset", "change", "claim"}

Person == [state : {"free", "live", "gone"}, email : Emails \cup {NoEmail}, verified : BOOLEAN,
           password : BOOLEAN, subject : Emails \cup {NoEmail}, pending : Emails \cup {NoEmail},
           claim : Emails \cup {NoEmail}, boarded : BOOLEAN, link : [Links -> Nat]]
Stranger == [state |-> "free", email |-> NoEmail, verified |-> FALSE, password |-> FALSE, subject |-> NoEmail,
             pending |-> NoEmail, claim |-> NoEmail, boarded |-> FALSE, link |-> [k \in Links |-> 0]]
NoAccounts == [people |-> [p \in People |-> Stranger], mail |-> <<>>, expired |-> {}, claims |-> {},
               redeemed |-> {}, grants |-> {}, today |-> 0]

Live(h) == {p \in People : h.people[p].state = "live"}
WithEmail(h, e) == {p \in Live(h) : h.people[p].email = e}
WithSubject(h, e) == {p \in Live(h) : h.people[p].subject = e}
Unused(h) == {p \in People : h.people[p].state = "free"}
The(set) == CHOOSE p \in set : TRUE

\* Whose link mail n carries, while it works.
Holder(h, n) ==
    {p \in Live(h) : n \in DOMAIN h.mail /\ n \notin h.expired /\ h.people[p].link[h.mail[n].kind] = n}

\* A new token replaces the one of its kind.
Mailed(h, kind, p, to, says) ==
    [h EXCEPT !.mail = Append(@, [kind |-> kind, user |-> p, to |-> to, says |-> says]),
              !.people[p].link[kind] = Len(h.mail) + 1]
Spent(h, kind, p) == [h EXCEPT !.people[p].link[kind] = 0]

-----------------------------------------------------------------------------
(* The waitlist's free year                                                 *)

WindowOpen(h) == h.today < ClaimDays
Redemptions(h, p) == {r \in h.redeemed : r.user = p}
EmailRedeemed(h, e) == \E r \in h.redeemed : r.email = e

CanRedeem(h, p, e) ==
    /\ WindowOpen(h) /\ e \in Listed
    /\ Redemptions(h, p) = {} /\ ~EmailRedeemed(h, e)

\* redeem: the row is written once for the email and the account, before RevenueCat is asked.
Redeem(h, p, e) ==
    [h EXCEPT !.redeemed = @ \cup {[email |-> e, user |-> p, status |-> "pending", matched |-> h.today]}]

\* match_account, on a sign-in with Apple, a verified email and a changed one.
Match(h, p) ==
    IF h.people[p].verified /\ CanRedeem(h, p, h.people[p].email) THEN Redeem(h, p, h.people[p].email) ELSE h

\* match_all, each account on its own.
MatchAll(h) == FoldSeq(LAMBDA p, g : IF p \in Live(g) THEN Match(g, p) ELSE g, h, [p \in People |-> p])

\* _grant, of the request or of a beat: the end is set by the match, or by the day of the call.
EndFromToday(h, r) == h.today
End(h, r) == r.matched
Due(h) == {r \in h.redeemed : r.status = "pending" /\ r.user # NoOne}
GaveUp(h, r) == h.today - r.matched >= RetryDays
GrantTried(h, r, outcome) ==
    LET landed == ~GaveUp(h, r) /\ outcome \in {"took", "timed out"}
        status == CASE GaveUp(h, r) \/ outcome = "refused" -> "failed"
                    [] outcome = "took" -> "granted"
                    [] OTHER -> "pending" IN
    [h EXCEPT !.redeemed = (@ \ {r}) \cup {[r EXCEPT !.status = status]},
              !.grants = IF landed THEN @ \cup {[email |-> r.email, user |-> r.user, end |-> End(h, r)]} ELSE @]

\* send_claim_link, the worker's half of a claim.
ClaimSent(h, t) ==
    LET served == [h EXCEPT !.claims = @ \ {t}] IN
    IF t.user \in Live(h) /\ CanRedeem(h, t.user, t.email)
    THEN [Mailed(served, "claim", t.user, t.email, t.email) EXCEPT !.people[t.user].claim = t.email] ELSE served

\* purge_after_window: the rows of deleted accounts, and the claims not confirmed.
Purged(h) ==
    [h EXCEPT !.redeemed = {r \in @ : r.user # NoOne},
              !.people = [p \in People |-> [@[p] EXCEPT !.claim = NoEmail, !.link["claim"] = 0]]]

-----------------------------------------------------------------------------
(* The operations                                                           *)

Created(h, p, e, verified, password, subject) ==
    [h EXCEPT !.people[p] = [Stranger EXCEPT !.state = "live", !.email = e, !.verified = verified,
                                             !.password = password, !.subject = subject]]

\* _upsert_social_user: by subject, else linked to the verified account of that email, else made.
WithApple(h, e) ==
    IF WithSubject(h, e) # {} THEN Match(h, The(WithSubject(h, e)))
    ELSE IF WithEmail(h, e) # {} THEN LET p == The(WithEmail(h, e)) IN Match([h EXCEPT !.people[p].subject = e], p)
    ELSE LET p == The(Unused(h)) IN Match(Created(h, p, e, TRUE, FALSE, e), p)

SignedUp(h, e) ==
    LET p == The(Unused(h)) IN Mailed(Created(h, p, e, FALSE, TRUE, NoEmail), "verify", p, e, e)

Verified(h, p) == Match(Spent([h EXCEPT !.people[p].verified = TRUE], "verify", p), p)
Resent(h, p) == Mailed(h, "verify", p, h.people[p].email, h.people[p].email)
Forgot(h, p) == Mailed(h, "reset", p, h.people[p].email, h.people[p].email)
Reset(h, p) == Spent([h EXCEPT !.people[p].password = TRUE], "reset", p)

\* The link goes to the current address, and names the new one.
Requested(h, p, e) == [Mailed(h, "change", p, h.people[p].email, e) EXCEPT !.people[p].pending = e]

\* The new email counts as verified; or not.
ChangedOnly(h, p) ==
    Match(Spent([h EXCEPT !.people[p].email = h.people[p].pending, !.people[p].pending = NoEmail,
                          !.people[p].verified = FALSE], "change", p), p)
Changed(h, p) ==
    Match(Spent([h EXCEPT !.people[p].email = h.people[p].pending, !.people[p].pending = NoEmail,
                          !.people[p].verified = TRUE], "change", p), p)

Claimed(h, p) == Redeem(Spent([h EXCEPT !.people[p].claim = NoEmail], "claim", p), p, h.people[p].claim)

\* Everything goes but the hash of a redeemed email.
Deleted(h, p) ==
    [h EXCEPT !.people[p] = [Stranger EXCEPT !.state = "gone"],
              !.redeemed = {IF r.user = p THEN [r EXCEPT !.user = NoOne, !.matched = 0] ELSE r : r \in @}]

\* Is the call accepted, and what does it do.  c.user is who is signed in, c.mail the link.
Accepts(h, c) ==
    CASE c.op = "sign-up" -> WithEmail(h, c.email) = {}
      [] c.op = "sign-in" -> \E p \in WithEmail(h, c.email) : h.people[p].password
      [] c.op = "apple" -> WithSubject(h, c.email) # {} \/ \A p \in WithEmail(h, c.email) : h.people[p].verified
      [] c.op \in {"resend", "forgot"} -> TRUE
      [] c.op \in {"verify", "reset"} -> Holder(h, c.mail) # {}
      [] c.op = "confirm" -> \E p \in Holder(h, c.mail) : WithEmail(h, h.people[p].pending) = {}
      [] c.op = "redeem" -> \E p \in Holder(h, c.mail) : CanRedeem(h, p, h.people[p].claim)
      [] c.op = "change" -> c.user \in Live(h) /\ h.people[c.user].password /\ WithEmail(h, c.email) = {}
      [] c.op = "claim" -> c.user \in Live(h) /\ WindowOpen(h) /\ Redemptions(h, c.user) = {}
      [] OTHER -> c.user \in Live(h)
Performed(h, c) ==
    CASE c.op = "sign-up" -> SignedUp(h, c.email)
      [] c.op = "apple" -> WithApple(h, c.email)
      [] c.op = "verify" -> Verified(h, The(Holder(h, c.mail)))
      [] c.op = "reset" -> Reset(h, The(Holder(h, c.mail)))
      [] c.op = "confirm" -> Changed(h, The(Holder(h, c.mail)))
      [] c.op = "redeem" -> Claimed(h, The(Holder(h, c.mail)))
      [] c.op = "resend" /\ (\E p \in WithEmail(h, c.email) : ~h.people[p].verified) -> Resent(h, The(WithEmail(h, c.email)))
      [] c.op = "forgot" /\ WithEmail(h, c.email) # {} -> Forgot(h, The(WithEmail(h, c.email)))
      [] c.op = "change" -> Requested(h, c.user, c.email)
      [] c.op = "claim" -> [h EXCEPT !.claims = @ \cup {[user |-> c.user, email |-> c.email]}]
      [] c.op = "onboarded" -> [h EXCEPT !.people[c.user].boarded = TRUE]
      [] c.op = "delete" -> Deleted(h, c.user)
      [] OTHER -> h

\* Whom a sign-up or sign-in is for, once performed.
SignsIn(h, c) == The(IF c.op = "apple" THEN WithSubject(h, c.email) ELSE WithEmail(h, c.email))

=============================================================================
