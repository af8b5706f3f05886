----------------------------- MODULE ShopSession -----------------------------
(***************************************************************************)
(* Who is signed in to the demo shop.  Three things say so: the token and  *)
(* the user kept in localStorage (sf_token, sf_user) and the user React    *)
(* renders with (AuthContext).  Tokens are issued and verified by the      *)
(* backend (auth-token.js) and live for one tick of the clock, an hour.    *)
(* One browser tab is modelled.                                            *)
(***************************************************************************)
EXTENDS Naturals, FiniteSets

CONSTANTS
  Person,    \* accounts
  Nobody,    \* no account
  MaxClock   \* bound: hours that pass

ASSUME SessionConstants == Nobody \notin Person /\ MaxClock \in Nat

VARIABLES
  clock,     \* hours
  token,     \* sf_token
  stored,    \* sf_user
  user       \* the user of AuthContext

sessionVars == <<clock, token, stored, user>>

\* real: a signed JWT; otherwise what registering in the browser makes up.
Token   == [who : Person \cup {Nobody}, at : 0..MaxClock, real : BOOLEAN]
NoToken == [who |-> Nobody, at |-> 0, real |-> FALSE]

IssueToken(p) == [who |-> p, at |-> clock, real |-> TRUE]
MakeToken(p)  == [who |-> p, at |-> 0, real |-> FALSE]

\* The caller a token names: a signed one, before the end of its hour.
CallerFrom(t) == IF t.real /\ clock < t.at + 1 THEN t.who ELSE Nobody

SessionTypeOK ==
  /\ clock \in 0..MaxClock
  /\ token \in Token
  /\ stored \in Person \cup {Nobody}
  /\ user \in Person \cup {Nobody}

SessionInit ==
  /\ clock = 0
  /\ token = NoToken
  /\ stored = Nobody
  /\ user = Nobody

\* login and register end alike.
SignedIn(p, t) == token' = t /\ stored' = p /\ user' = p

SignedOut == token' = NoToken /\ stored' = Nobody /\ user' = Nobody

\* Mutant: a 401 clears the storage and tells nobody.
ExpiredSilently == token' = NoToken /\ stored' = Nobody /\ UNCHANGED user

\* A call was refused with 401: apiFetch clears the storage and its event the
\* user, whoever is signed in by now.
SessionExpired == token' = NoToken /\ stored' = Nobody /\ user' = Nobody

\* The page is loaded again: a token that is no JWT is no session.
Reloaded ==
  IF token = NoToken \/ stored = Nobody THEN user' = Nobody /\ UNCHANGED <<token, stored>>
  ELSE IF ~token.real THEN SignedOut
  ELSE user' = stored /\ UNCHANGED <<token, stored>>

HourPasses ==
  /\ clock < MaxClock
  /\ clock' = clock + 1
  /\ UNCHANGED <<token, stored, user>>

\* The person the pages greet is the person the API is called as, however the
\* answers of earlier sign-ins and refused calls come in.
SessionAgrees ==
  /\ user = stored
  /\ token.who = stored
=============================================================================
