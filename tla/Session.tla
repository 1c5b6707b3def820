------------------------------ MODULE Session ------------------------------
(***************************************************************************)
(* One browser tab: the store (store/auth.js, store/api.js), the log in    *)
(* form, the header and the guard of the private routes.  The token is in  *)
(* sessionStorage and survives a reload; Auth, the header and the requests *)
(* on the way belong to the document and die with it.  A token stands for  *)
(* the user it was issued to.  Any request may fail: a wrong password, no  *)
(* connection.  The server accepts a token for an hour, and none of a user *)
(* who has been deleted; every answer to GET /user brings a new token, so  *)
(* only one that was out of reach for an hour is refused, and then always. *)
(***************************************************************************)
EXTENDS Naturals

CONSTANTS Users,      \* names of users
          Slots,      \* bound: requests on the way at the same time
          MaxVisits,  \* bound: reloads and log ins
          Nil

Blank == ""    \* Auth.user is {username: ""} in a new document
Gone  == "{}"  \* Auth.user is {} after a sign out

Private == {"projects", "profile", "settings"}
Pages == Private \cup {"login"}

ASSUME SessionAssumption ==
  /\ {Blank, Gone, Nil} \cap Users = {}
  /\ Nil \notin {Blank, Gone} \cup Pages
  /\ MaxVisits \in Nat

\* The requests whose answers change the session.  "login" carries the
\* credentials of a user, the others the token that was stored when they were
\* sent; "perms" hands over, when answered, to the update with user "then".
Request ==
  [kind : {"login"}, as : Users] \cup
  [kind : {"user"}, as : Users, header : BOOLEAN] \cup
  [kind : {"perms"}, as : Users \cup {Nil}, then : Users]

VARIABLES
  stored,    \* the token in sessionStorage
  user,      \* Auth.user
  perms,     \* whose permissions Auth.perms holds
  page,      \* the page of the route
  header,    \* the name in the user menu of the header, Nil: not mounted
  requests,  \* requests on the way
  accepted,  \* the users whose tokens the server accepts
  leaving,   \* the page a navigation out of this document goes to, or Nil
  visits     \* counts against MaxVisits

vars == <<stored, user, perms, page, header, requests, accepted, leaving, visits>>

TypeOK ==
  /\ stored \in Users \cup {Nil}
  /\ user \in Users \cup {Blank, Gone}
  /\ perms \in Users \cup {Nil}
  /\ page \in Pages
  /\ header \in Users \cup {Blank, Gone, Nil}
  /\ requests \in [Slots -> Request \cup {Nil}]
  /\ accepted \subseteq Users
  /\ leaving \in Pages \cup {Nil}
  /\ visits \in 0..MaxVisits

Idle(s) == requests[s] = Nil

isAuthenticated == stored # Nil

\* PrivateRoute redirects to the log in page when no token is stored.
Landing(p) == IF p \in Private /\ ~isAuthenticated THEN "login" ELSE p

\* callAllCallbacks: the header registers one while it is mounted.
Called(u) == IF header = Nil THEN Nil ELSE u

Init ==
  /\ stored = Nil
  /\ user = Blank
  /\ perms = Nil
  /\ page = "login"
  /\ header = Nil
  /\ requests = [s \in Slots |-> Nil]
  /\ accepted = {}
  /\ leaving = Nil
  /\ visits = 0

------------------------------------------------------------------------------
\* A new document at page p: the constructor of the api asks for the user,
\* and so does the header, which finds the name blank.  Without a token both
\* are refused and the header renders nothing.
Load(p) ==
  /\ page' = Landing(p)
  /\ user' = Blank
  /\ perms' = Nil
  /\ leaving' = Nil
  /\ UNCHANGED <<stored, accepted>>
  /\ \/ /\ isAuthenticated
        /\ header' = Blank
        /\ \E s, t \in Slots :
             /\ s # t
             /\ requests' = [r \in Slots |->
                  IF r \in {s, t}
                  THEN [kind |-> "user", as |-> stored, header |-> r = t]
                  ELSE Nil]
     \/ /\ ~isAuthenticated
        /\ header' = Nil
        /\ requests' = [r \in Slots |-> Nil]

Reload ==
  /\ leaving = Nil
  /\ visits < MaxVisits
  /\ visits' = visits + 1
  /\ Load(page)

\* The document that a sign out asked for arrives; until then this one runs.
Leave ==
  /\ leaving # Nil
  /\ Load(leaving)
  /\ UNCHANGED visits

\* A link, the breadcrumbs or the back button.  The header is rendered again
\* and mounts the menu if there is a token by now.
Go(p) ==
  /\ leaving = Nil
  /\ page' = Landing(p)
  /\ header' = IF header = Nil /\ isAuthenticated THEN Blank ELSE header
  /\ UNCHANGED <<stored, user, perms, requests, accepted, leaving, visits>>

\* Mutant: only a known user is polled for.
Poll_Known(s) ==
  /\ user \in Users
  /\ Idle(s)
  /\ requests' = [requests EXCEPT ![s] = [kind |-> "user", as |-> stored, header |-> FALSE]]
  /\ UNCHANGED <<stored, user, perms, page, header, accepted, leaving, visits>>

\* Every ten seconds, while there is a token.
Poll(s) ==
  /\ isAuthenticated
  /\ Idle(s)
  /\ requests' = [requests EXCEPT ![s] = [kind |-> "user", as |-> stored, header |-> FALSE]]
  /\ UNCHANGED <<stored, user, perms, page, header, accepted, leaving, visits>>

\* LoginForm.submitForm; the log in page can be reached with a session open.
SubmitLogin(s, u) ==
  /\ leaving = Nil
  /\ page = "login"
  /\ visits < MaxVisits
  /\ Idle(s)
  /\ visits' = visits + 1
  /\ requests' = [requests EXCEPT ![s] = [kind |-> "login", as |-> u]]
  /\ UNCHANGED <<stored, user, perms, page, header, accepted, leaving>>

\* Mutant: the callbacks are not called.
Update_Silent(u) ==
  /\ stored' = u
  /\ user' = u
  /\ UNCHANGED header

\* Auth.update.
Update(u) ==
  /\ stored' = u
  /\ user' = u
  /\ header' = Called(u)

\* eckAPI.login and LoginForm: update, ask for the permissions, and push
\* "/projects", which mounts the header with no name if it was not there.
LoggedIn(s) ==
  /\ ~Idle(s)
  /\ requests[s].kind = "login"
  /\ LET u == requests[s].as IN
     /\ stored' = u
     /\ accepted' = accepted \cup {u}
     /\ user' = u
     /\ header' = IF header = Nil THEN Blank ELSE u
     /\ requests' = [requests EXCEPT ![s] = [kind |-> "perms", as |-> u, then |-> u]]
  /\ page' = "projects"
  /\ UNCHANGED <<perms, leaving, visits>>

\* Mutant: the permissions are asked for with the token of the answer.
UserAnswered_OwnToken(s) ==
  /\ ~Idle(s)
  /\ requests[s].kind = "user"
  /\ requests[s].as \in accepted
  /\ LET r == requests[s] IN
     /\ requests' = [requests EXCEPT ![s] = [kind |-> "perms", as |-> r.as, then |-> r.as]]
     /\ header' = IF r.header THEN Called(user) ELSE header
  /\ UNCHANGED <<stored, user, perms, page, accepted, leaving, visits>>

\* eckAPI.getUser: asks for the permissions with the token stored by now; the
\* header, if it asked, shows Auth's user as it is before the update.
UserAnswered(s) ==
  /\ ~Idle(s)
  /\ requests[s].kind = "user"
  /\ requests[s].as \in accepted
  /\ LET r == requests[s] IN
     /\ requests' = [requests EXCEPT ![s] = [kind |-> "perms", as |-> stored, then |-> r.as]]
     /\ header' = IF r.header THEN Called(user) ELSE header
  /\ UNCHANGED <<stored, user, perms, page, accepted, leaving, visits>>

\* eckAPI.getPerms and the update that was waiting for it.
PermsAnswered(s) ==
  /\ ~Idle(s)
  /\ requests[s].kind = "perms"
  /\ requests[s].as \in accepted
  /\ perms' = requests[s].as
  /\ Update(requests[s].then)
  /\ requests' = [requests EXCEPT ![s] = Nil]
  /\ UNCHANGED <<page, accepted, leaving, visits>>

Refused(s) ==
  /\ ~Idle(s)
  /\ requests' = [requests EXCEPT ![s] = Nil]
  /\ UNCHANGED <<stored, user, perms, page, header, accepted, leaving, visits>>

\* Mutant: the store keeps the user.
Signout_UserStays ==
  /\ leaving = Nil
  /\ header # Nil
  /\ stored' = Nil
  /\ leaving' \in {"login", page}
  /\ UNCHANGED <<user, perms, page, header, requests, accepted, visits>>

\* Auth.signout, from the link in the header.  The link has an empty href of
\* its own, so the browser goes to the log in page or to this page again.
Signout ==
  /\ leaving = Nil
  /\ header # Nil
  /\ stored' = Nil
  /\ user' = Gone
  /\ leaving' \in {"login", page}
  /\ UNCHANGED <<perms, page, header, requests, accepted, visits>>

\* An hour without a request that got through, or the deletion of the user.
Expire(u) ==
  /\ u \in accepted
  /\ accepted' = accepted \ {u}
  /\ UNCHANGED <<stored, user, perms, page, header, requests, leaving, visits>>

Next ==
  \/ Reload
  \/ Leave
  \/ Signout
  \/ \E p \in Pages : Go(p)
  \/ \E u \in Users : Expire(u)
  \/ \E s \in Slots :
       \/ Poll(s)
       \/ \E u \in Users : SubmitLogin(s, u)
       \/ LoggedIn(s)
       \/ UserAnswered(s)
       \/ PermsAnswered(s)
       \/ Refused(s)

\* The browser completes a navigation, its timer fires, every request ends,
\* and a server that is asked again and again with a token that it accepts
\* answers some time.  A refused token is never answered, and is kept.
Fairness ==
  /\ WF_vars(Leave)
  /\ SF_vars(\E s \in Slots : Poll(s))
  /\ \A s \in Slots :
       /\ WF_vars(UserAnswered(s) \/ PermsAnswered(s) \/ LoggedIn(s) \/ Refused(s))
       /\ SF_vars(UserAnswered(s))
       /\ SF_vars(PermsAnswered(s))

Spec == Init /\ [][Next]_vars /\ Fairness

------------------------------------------------------------------------------
\* Storage, store and header never speak of two users: a user the store knows
\* is the one whose token requests are sent with, and the header shows that
\* name or none yet, whatever answers arrive late and whoever logs in.
OneIdentity ==
  /\ user \in Users => stored = user
  /\ leaving = Nil => header \in {Nil, Blank, user}

\* An answer on the way that signs in without the user asking for it.
WillSignIn(s) ==
  /\ ~Idle(s)
  /\ \/ requests[s].kind = "login"
     \/ requests[s].kind = "perms" /\ requests[s].as # Nil

\* Signing out ends on the log in page, signed out, even if the poll is on
\* its way; only an answer for which permissions are already being fetched, or
\* a log in, can bring the session back.
SignoutSticks ==
  (leaving # Nil /\ ~isAuthenticated /\ \A s \in Slots : ~WillSignIn(s))
    ~> (page = "login" /\ ~isAuthenticated /\ leaving = Nil)

\* A stored token that the server accepts is turned into a known user again
\* after a reload, however many requests fail meanwhile, unless it expires
\* first.  (Then the tab goes on without a name: no refusal removes the token.)
Restored ==
  stored \in accepted ~> (user \in Users \/ stored \notin accepted)

\* No request on the way belongs to anyone but the user whose token is stored.
Alone ==
  \A s \in Slots : Idle(s) \/ (requests[s].as = stored /\
                               (requests[s].kind = "perms" => requests[s].then = stored))

\* The page settles: while one user is signed in with a token that is accepted,
\* the header comes to show that user's name and the permissions come to be that
\* user's, also after a log in on top of another session.  (As long as polls of
\* two users are on the way, each restores its own, and they may go on for ever.)
Settles ==
  []<>(header # Nil /\ Alone /\ stored \in accepted => header = user /\ perms = user)
=============================================================================
