----------------------------- MODULE SocialSignIn -----------------------------
(***************************************************************************)
(* Signing in with Google or Kakao (accounts/views_oauth.py and            *)
(* services/oauth.py), for one identity at one provider and the mail       *)
(* address it reports.                                                     *)
(*                                                                         *)
(* The browser takes a signed state to the provider, which redirects it to *)
(* the callback.  This asks the provider for the profile, finds or creates *)
(* the user and leaves an exchange code in the cache, which the page then  *)
(* exchanges for tokens.  The state is stored nowhere and serves as often  *)
(* as the browser repeats the callback: two callbacks may create the same  *)
(* user, and two exchanges use one code.                                   *)
(***************************************************************************)
EXTENDS Naturals, FiniteSets

CONSTANTS Browser,    \* requests at work at once
          MaxLogins   \* bound: exchange codes issued

ASSUME SocialBoundAssumption == MaxLogins \in Nat

CodeId == 1 .. MaxLogins

VARIABLES
  signedState, \* the state the browser carries: "none", "valid" or "over"
  users,      \* users with the address: [by: "social" or "other", blocked]
  linked,     \* social accounts of the identity
  agreed,     \* there are no required terms, or the user has agreed to them
  browser,    \* where a request is: [at, new, code]
  exchange,   \* state of each code: "none", "cached", "gone"
  needsTerms, \* what the code says
  lapsedCode, \* codes whose signature has expired
  opened,     \* history: sign-ins completed by each code
  welcomed    \* history: callbacks that reported a created user

socialVars == <<signedState, users, linked, agreed, browser, exchange, needsTerms, lapsedCode, opened, welcomed>>

Away == [at |-> "idle", new |-> FALSE, code |-> 0]

SocialInit ==
  /\ signedState = "none"
  /\ users \in {<<>>, <<[by |-> "other", blocked |-> FALSE]>>, <<[by |-> "other", blocked |-> TRUE]>>}
  /\ linked = 0
  /\ agreed \in BOOLEAN
  /\ browser = [b \in Browser |-> Away]
  /\ exchange = [k \in CodeId |-> "none"]
  /\ needsTerms = [k \in CodeId |-> FALSE]
  /\ lapsedCode = {}
  /\ opened = [k \in CodeId |-> 0]
  /\ welcomed = 0

Shows(b, at, new, code) == browser' = [browser EXCEPT ![b] = [at |-> at, new |-> new, code |-> code]]
Leaves(b) == browser' = [browser EXCEPT ![b] = Away]
BlockedUser == \E i \in DOMAIN users : users[i].blocked

allButBrowser == <<users, linked, agreed, exchange, needsTerms, lapsedCode, opened, welcomed>>

-----------------------------------------------------------------------------
(* Callback *)

\* OAuthStartView answers with a new state, signed with its time.
StartSignIn ==
  /\ signedState # "valid"
  /\ signedState' = "valid"
  /\ UNCHANGED <<browser, allButBrowser>>

\* OAUTH_STATE_MAX_AGE is over.
StateAges ==
  /\ signedState = "valid"
  /\ signedState' = "over"
  /\ UNCHANGED <<browser, allButBrowser>>

\* validate_oauth_state looks at the signature, its age and the provider.
StateAccepted == signedState = "valid"

\* The callback of a browser that comes back with a code and a state.
CallBack(b) ==
  /\ browser[b].at = "idle" /\ StateAccepted
  /\ Shows(b, "fetch", FALSE, 0)
  /\ UNCHANGED <<signedState, allButBrowser>>

\* exchange_code_for_profile asks the provider twice; a request that fails, and a
\* profile without an id or an address, end the callback.
FetchProfile(b, complete) ==
  /\ browser[b].at = "fetch"
  /\ IF complete THEN Shows(b, "profile", FALSE, 0) ELSE Leaves(b)
  /\ UNCHANGED <<signedState, allButBrowser>>

\* get_or_create_social_user with the linked account: its row is locked, and a
\* blocked user is refused.
FindLinked(b) ==
  /\ browser[b].at = "profile" /\ linked > 0
  /\ IF BlockedUser THEN Leaves(b) ELSE Shows(b, "issue", FALSE, 0)
  /\ UNCHANGED <<signedState, allButBrowser>>

\* Without one, a user that has the address is a conflict: it is never linked by itself.
FindAddress(b) ==
  /\ browser[b].at = "profile" /\ linked = 0
  /\ IF users # <<>> THEN Leaves(b) ELSE Shows(b, "create", FALSE, 0)
  /\ UNCHANGED <<signedState, allButBrowser>>

\* accounts_user.email is unique: whoever comes second fails, and his transaction
\* with him.
AddressFree == users = <<>>

CreateSocialUser(b) ==
  /\ browser[b].at = "create"
  /\ IF AddressFree
     THEN /\ users' = <<[by |-> "social", blocked |-> FALSE]>>
          /\ linked' = linked + 1
          /\ welcomed' = welcomed + 1
          /\ Shows(b, "issue", TRUE, 0)
     ELSE Leaves(b) /\ UNCHANGED <<users, linked, welcomed>>
  /\ UNCHANGED <<signedState, agreed, exchange, needsTerms, lapsedCode, opened>>

\* An address may be taken by a sign-up that is verified meanwhile, and a user blocked.
SignUpElsewhere ==
  /\ users = <<>>
  /\ users' = <<[by |-> "other", blocked |-> FALSE]>>
  /\ UNCHANGED <<signedState, linked, agreed, browser, exchange, needsTerms, lapsedCode, opened, welcomed>>

Block ==
  /\ users # <<>> /\ ~BlockedUser
  /\ users' = [i \in DOMAIN users |-> [users[i] EXCEPT !.blocked = TRUE]]
  /\ UNCHANGED <<signedState, linked, agreed, browser, exchange, needsTerms, lapsedCode, opened, welcomed>>

\* issue_exchange_code puts an entry into the cache under a key of its own.
Cached(k) == [exchange EXCEPT ![k] = "cached"]

\* The rest of the callback: the reward of a new user who needs no terms is a
\* posting of PointLedger; the exchange code is issued.
IssueExchangeCode(b, k) ==
  /\ browser[b].at = "issue" /\ exchange[k] = "none" /\ \A j \in 1 .. k - 1 : exchange[j] # "none"
  /\ exchange' = Cached(k)
  /\ needsTerms' = [needsTerms EXCEPT ![k] = ~agreed]
  /\ Leaves(b)
  /\ UNCHANGED <<signedState, users, linked, agreed, lapsedCode, opened, welcomed>>

-----------------------------------------------------------------------------
(* Exchange *)

\* consume_exchange_code reads the entry unless the signature has expired ...
ReadCode(b, k) ==
  /\ browser[b].at = "idle" /\ exchange[k] = "cached" /\ k \notin lapsedCode
  /\ Shows(b, "delete", FALSE, k)
  /\ UNCHANGED <<signedState, allButBrowser>>

\* bug: what delete returns is not looked at
DeletedUnchecked(k) == TRUE

\* delete returns whether there was an entry.
Deleted(k) == exchange[k] = "cached"

\* ... and deletes it: only the request whose delete finds it goes on.
ConsumeCode(b) ==
  /\ browser[b].at = "delete"
  /\ IF Deleted(browser[b].code) THEN Shows(b, "signIn", FALSE, browser[b].code) ELSE Leaves(b)
  /\ exchange' = [exchange EXCEPT ![browser[b].code] = "gone"]
  /\ UNCHANGED <<signedState, users, linked, agreed, needsTerms, lapsedCode, opened, welcomed>>

\* OAuthExchangeView: the user may have been blocked since the callback.  What
\* complete_login does is in AccountLifecycle.
SignIn(b) ==
  /\ browser[b].at = "signIn"
  /\ opened' = IF BlockedUser THEN opened ELSE [opened EXCEPT ![browser[b].code] = @ + 1]
  /\ Leaves(b)
  /\ UNCHANGED <<signedState, users, linked, agreed, exchange, needsTerms, lapsedCode, welcomed>>

\* TermsAcceptanceView, of a user who was told to go there.
AgreeToTerms ==
  /\ ~agreed /\ \E k \in CodeId : opened[k] > 0 /\ needsTerms[k]
  /\ agreed' = TRUE
  /\ UNCHANGED <<signedState, users, linked, browser, exchange, needsTerms, lapsedCode, opened, welcomed>>

\* OAUTH_EXCHANGE_CODE_TTL_SECONDS are over; the entry is dropped later.
CodeLapses(k) ==
  /\ exchange[k] = "cached" /\ k \notin lapsedCode
  /\ lapsedCode' = lapsedCode \cup {k}
  /\ UNCHANGED <<signedState, users, linked, agreed, browser, exchange, needsTerms, opened, welcomed>>

EntryDropped(k) ==
  /\ exchange[k] = "cached" /\ k \in lapsedCode
  /\ exchange' = [exchange EXCEPT ![k] = "gone"]
  /\ UNCHANGED <<signedState, users, linked, agreed, browser, needsTerms, lapsedCode, opened, welcomed>>

SocialNext ==
  \/ \E b \in Browser :
        \/ CallBack(b) \/ \E complete \in BOOLEAN : FetchProfile(b, complete)
        \/ FindLinked(b) \/ FindAddress(b) \/ CreateSocialUser(b) \/ ConsumeCode(b) \/ SignIn(b)
        \/ \E k \in CodeId : IssueExchangeCode(b, k) \/ ReadCode(b, k)
  \/ StartSignIn \/ StateAges \/ SignUpElsewhere \/ Block \/ AgreeToTerms
  \/ \E k \in CodeId : CodeLapses(k) \/ EntryDropped(k)

SocialSpec == SocialInit /\ [][SocialNext]_socialVars

-----------------------------------------------------------------------------
(* Properties *)

\* A code signs in once however often the page exchanges it, one user is created
\* however many callbacks overlap, and an identity never gets into an account
\* that somebody else made with its address.
SignInOnce ==
  /\ \A k \in CodeId : opened[k] <= 1
  /\ welcomed <= 1 /\ linked = welcomed
  /\ linked > 0 => \A i \in DOMAIN users : users[i].by = "social"
=============================================================================
