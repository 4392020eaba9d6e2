------------------------------- MODULE SignIn -------------------------------
(***************************************************************************)
(* Sign-in and sign-out of the web application: logins that go through the *)
(* identity provider and come back to the callback route, the session they *)
(* issue, and the logout that revokes it (lib/auth, app/api/auth).         *)
(*                                                                         *)
(* A browser has one cookie for its session and one for its login, which a *)
(* later login overwrites; its requests and their answers overlap.  Every  *)
(* login issues at most one session, which is named after it.  The         *)
(* provider is external: it authenticates somebody and sends a browser to  *)
(* the callback, once per login.                                           *)
(***************************************************************************)
EXTENDS Naturals, FiniteSets

CONSTANTS Browsers, Accounts, Logins, None

ASSUME NoneAssumption == None \notin Browsers \cup Accounts \cup Logins

VARIABLES
  jar,      \* jar[b]: taxops_session and taxops_oidc_transaction of browser b
  login,    \* login[f]: a login and its transaction
  session,  \* session[f]: the row of web_sessions
  logout,   \* logout[b]: the logout browser b waits for
  signedOut \* history: sessions a browser was told are signed out

signVars == <<jar, login, session, logout, signedOut>>

EmptyJar == [session |-> None, transaction |-> None]
Unused == [at |-> "unused", began |-> None, expected |-> None,
           browser |-> None, transaction |-> None, user |-> None]
NoRow == [status |-> "none", user |-> None]
Idle == [at |-> "idle", session |-> None]

SignInit ==
  /\ jar = [b \in Browsers |-> EmptyJar]
  /\ login = [f \in Logins |-> Unused]
  /\ session = [f \in Logins |-> NoRow]
  /\ logout = [b \in Browsers |-> Idle]
  /\ signedOut = {}

-----------------------------------------------------------------------------
(* Login                                                                   *)

\* assertWebSessionActive
Active(f) == f # None /\ session[f].status = "active"

\* A reauthentication expects the user of the session it starts from.
ExpectedUser(b, reauthenticate) ==
  IF reauthenticate /\ Active(jar[b].session) THEN session[jar[b].session].user ELSE None

\* The transaction a redirect carries to the provider and in a cookie.
AuthorizationRequest(b, reauthenticate, at) ==
  [at |-> at, began |-> b, expected |-> ExpectedUser(b, reauthenticate),
   browser |-> b, transaction |-> None, user |-> None]

\* GET /api/auth/login; a database that does not answer is "unavailable".
BeginLogin(f, b, reauthenticate) ==
  /\ login[f] = Unused
  /\ \E at \in {"redirect"} \cup (IF reauthenticate THEN {"refused"} ELSE {}) :
       login' = [login EXCEPT ![f] = AuthorizationRequest(b, reauthenticate, at)]
  /\ UNCHANGED <<jar, session, logout, signedOut>>

\* The browser stores the transaction and goes to the provider.
Redirect(f) ==
  /\ login[f].at = "redirect"
  /\ login' = [login EXCEPT ![f].at = "provider"]
  /\ jar' = [jar EXCEPT ![login[f].browser].transaction = f]
  /\ UNCHANGED <<session, logout, signedOut>>

\* Somebody has authenticated, or not, and a browser is sent to the callback
\* with the state of the login and the transaction it has: usually the browser
\* that began, but the address may be opened in another one.
Return(f, b, u) ==
  /\ login[f].at = "provider"
  /\ login' = [login EXCEPT ![f].at = "callback", ![f].browser = b, ![f].user = u,
                            ![f].transaction = jar[b].transaction]
  /\ UNCHANGED <<jar, session, logout, signedOut>>

\* state and nonce are those of the transaction, whose verifier the provider
\* asks for.
OwnTransaction(f) == login[f].transaction = f

\* The code is exchanged for the tokens of a user the directory knows.
Exchanged(f) == login[f].user # None

\* Mutant: a reauthentication may sign in as anybody.
AnyAccount(f) == TRUE

\* The user is the one the transaction expects, if it expects one.
SameAccount(f) ==
  login[login[f].transaction].expected \in {None, login[f].user}

\* GET /api/auth/callback up to the session.  The transaction may have expired,
\* and the provider, its keys or the directory may fail.
Callback(f) ==
  /\ login[f].at = "callback"
  /\ \E at \in {"refused"} \cup
         (IF Exchanged(f) /\ OwnTransaction(f) /\ SameAccount(f)
          THEN {"issue"} ELSE {}) :
       login' = [login EXCEPT ![f].at = at]
  /\ UNCHANGED <<jar, session, logout, signedOut>>

\* registerWebSession: the insert may fail, or commit unnoticed.
Issue(f) ==
  /\ login[f].at = "issue"
  /\ \/ /\ session' = [session EXCEPT ![f] = [status |-> "active", user |-> login[f].user]]
        /\ login' = [login EXCEPT ![f].at = "issued"]
     \/ /\ session' \in {session,
             [session EXCEPT ![f] = [status |-> "active", user |-> login[f].user]]}
        /\ login' = [login EXCEPT ![f].at = "refused"]
  /\ UNCHANGED <<jar, logout, signedOut>>

\* The answer arrives, or the browser has gone.  Every answer clears the
\* transaction.
Answer(f) ==
  /\ login[f].at \in {"issued", "refused"}
  /\ login' = [login EXCEPT ![f].at = "over"]
  /\ \/ jar' = [jar EXCEPT ![login[f].browser] =
          [session |-> IF login[f].at = "issued" THEN f ELSE @.session, transaction |-> None]]
     \/ UNCHANGED jar
  /\ UNCHANGED <<session, logout, signedOut>>

-----------------------------------------------------------------------------
(* Logout                                                                  *)

\* POST /api/auth/logout with the session of the jar.
Leave(b) ==
  /\ logout[b].at = "idle"
  /\ logout' = [logout EXCEPT ![b] = [at |-> "revoke", session |-> jar[b].session]]
  /\ UNCHANGED <<jar, login, session, signedOut>>

\* revokeWebSession: revoked_at is set once and for all.
Revoked(f) ==
  IF Active(f) THEN [session EXCEPT ![f].status = "revoked"] ELSE session

\* Mutant: a failed revocation is reported like a successful one.
LogoutOutcomeAlways(failed) == "signed-out"

\* The reason the status page shows.
LogoutOutcome(failed) == IF failed THEN "logout-incomplete" ELSE "signed-out"

\* Without a session there is nothing to revoke; otherwise the update may fail,
\* or commit unnoticed.
Revoke(b) ==
  /\ logout[b].at = "revoke"
  /\ \E failed \in IF logout[b].session = None THEN {FALSE} ELSE BOOLEAN :
       /\ logout' = [logout EXCEPT ![b].at = LogoutOutcome(failed)]
       /\ session' \in {Revoked(logout[b].session)} \cup (IF failed THEN {session} ELSE {})
  /\ UNCHANGED <<jar, login, signedOut>>

\* The answer clears all cookies, also those that are newer than the request.
Left(b) ==
  /\ logout[b].at \in {"signed-out", "logout-incomplete"}
  /\ logout' = [logout EXCEPT ![b] = Idle]
  /\ jar' = [jar EXCEPT ![b] = EmptyJar]
  /\ signedOut' = signedOut \cup
       (IF logout[b].at = "signed-out" THEN {logout[b].session} \ {None} ELSE {})
  /\ UNCHANGED <<login, session>>

\* Eight hours are over.
ExpireSession(f) ==
  /\ Active(f)
  /\ session' = [session EXCEPT ![f].status = "expired"]
  /\ UNCHANGED <<jar, login, logout, signedOut>>

SignNext ==
  \/ \E f \in Logins :
       \/ \E b \in Browsers :
            \/ \E reauthenticate \in BOOLEAN : BeginLogin(f, b, reauthenticate)
            \/ \E u \in Accounts \cup {None} : Return(f, b, u)
       \/ Redirect(f) \/ Callback(f) \/ Issue(f) \/ Answer(f) \/ ExpireSession(f)
  \/ \E b \in Browsers : Leave(b) \/ Revoke(b) \/ Left(b)

SignSpec == SignInit /\ [][SignNext]_signVars

-----------------------------------------------------------------------------
(* Properties                                                              *)

\* logout/route.ts:18: the revocation fails, or commits unnoticed, while logins of
\* the same browser come and go; a session whose user was told that it is signed
\* out is accepted by no request any more.
SignedOutMeansRevoked == \A f \in signedOut : ~Active(f)

\* callback/route.ts:42: logins of several tabs overwrite each other's transaction
\* and answers arrive in any order; a browser has only sessions of logins that it
\* began itself, of the user who authenticated there, who is the user it was
\* signed in as if the login is a reauthentication.
SessionIsOfOwnLogin ==
  \A b \in Browsers : jar[b].session # None =>
    LET f == jar[b].session
    IN /\ login[f].began = b
       /\ session[f].user = login[f].user
       /\ login[f].expected \in {None, login[f].user}
=============================================================================
