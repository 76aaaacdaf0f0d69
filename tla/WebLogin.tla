------------------------------ MODULE WebLogin ------------------------------
(***************************************************************************)
(* Logging in from the tabs of one browser: the controller and the panel   *)
(* of the login page (apps/web/src/features/authentication), the cookie    *)
(* jar the tabs share, and the routes of AuthenticationServer.             *)
(*                                                                         *)
(* Every await of the controller is a call in flight.  Its answer may come *)
(* at any later time, or never (the client gives up after 30 seconds,      *)
(* while the server may still serve the call).  The controller drops an    *)
(* answer if its version has moved on since the call, and an inspection    *)
(* also if a later one was sent; as both numbers only grow, a call here    *)
(* remembers whether they still are what they were: fresh, and latest.     *)
(*                                                                         *)
(* The messages of the view are left out.  The clock of the browser and    *)
(* the one of the server agree on the expiry of an attempt.                *)
(***************************************************************************)
EXTENDS AuthenticationServer

CONSTANT Tabs

VARIABLES
    jar,            \* the two HttpOnly cookies of the browser
    tabs,           \* the controller of each tab
    bound,          \* the attempt each document has initialised Google with
    spent,          \* history: the attempts whose credential was sent, and those
                    \* that were cancelled or found expired
    signedOut       \* history: the sessions each tab has confirmed the end of

tabVars == <<jar, tabs, bound, spent, signedOut>>
vars == <<serverVars, calls, tabVars>>

-----------------------------------------------------------------------------
Phase == {"checking", "anonymous", "preparing", "google", "waiting", "completing",
          "authenticated", "logout", "restart", "error"}

Controller ==
    [active: BOOLEAN,               \* between start and stop
     phase: Phase,
     cooling: BOOLEAN,              \* state.retryAt is set and not yet reached
     attempt: Attempts \cup {Null},
     session: Sessions \cup {Null},
     attempted: BOOLEAN]

Call ==
    [stage: {"Sent", "Checked", "Answered"}, kind: Kind, tab: Tabs,
     subject: Attempts \cup Sessions \cup {Null}, cookies: Cookies,
     then: {"login", "logout", "nothing"}, answer: Answer \cup {Null},
     fresh: BOOLEAN, latest: BOOLEAN, awaited: BOOLEAN]

TypeOK ==
    /\ DOMAIN attempts \subseteq Attempts
    /\ attempts \in [DOMAIN attempts -> {"ready", "replaced", "consumed"}]
    /\ expired \subseteq DOMAIN attempts
    /\ DOMAIN sessions \subseteq Sessions
    /\ sessions \in [DOMAIN sessions -> [state: {"active", "ended"}, attempt: Attempts]]
    /\ calls \in [Calls -> {Idle} \cup Call]
    /\ jar \in Cookies
    /\ tabs \in [Tabs -> Controller]
    /\ bound \in [Tabs -> Attempts \cup {Null}]
    /\ spent \subseteq Attempts
    /\ signedOut \in [Tabs -> SUBSET Sessions]

-----------------------------------------------------------------------------
\* The state of the controller with another phase, retryAt being unset with it.
In(T, phase) == [T EXCEPT !.phase = phase, !.cooling = FALSE]

\* As after In, without an attempt.
Without(T, phase) == [In(T, phase) EXCEPT !.attempt = Null]

Failed(T, status) == [Without(T, "error") EXCEPT !.cooling = (status = "limited")]

Blocked(T) == T.phase \in {"preparing", "completing", "logout"} \/ T.cooling

OffersGoogle(T) == T.phase \in {"google", "waiting"}

\* Mutant: an inspection does not compare the version.
SupersededButInspections(in, t) ==
    [c \in Calls |-> IF in[c].stage # "Idle" /\ in[c].tab = t /\ in[c].kind # "inspect"
                     THEN [in[c] EXCEPT !.fresh = FALSE, !.latest = FALSE,
                                        !.then = "nothing"]
                     ELSE in[c]]

\* ++version: no answer of an earlier call of the tab will be applied.
Superseded(in, t) ==
    [c \in Calls |-> IF in[c].stage # "Idle" /\ in[c].tab = t
                     THEN [in[c] EXCEPT !.fresh = FALSE, !.latest = FALSE,
                                        !.then = "nothing"]
                     ELSE in[c]]

\* ++inspection
Reinspected(in, t) ==
    [c \in Calls |-> IF in[c].stage # "Idle" /\ in[c].tab = t /\ in[c].kind = "inspect"
                     THEN [in[c] EXCEPT !.latest = FALSE] ELSE in[c]]

\* The calls with one more, sent on the free place d with the cookies of the jar.
Sent(in, d, t, kind, subject, then, cookies) ==
    [in EXCEPT ![d] =
        [stage |-> "Sent", kind |-> kind, tab |-> t, subject |-> subject,
         cookies |-> cookies, then |-> then, answer |-> Null,
         fresh |-> TRUE, latest |-> TRUE, awaited |-> TRUE]]

\* A call the client has given up: the server may serve it, if it has not yet.
Abandoned(call) ==
    IF call.stage = "Answered" THEN Idle
    ELSE [call EXCEPT !.fresh = FALSE, !.latest = FALSE, !.then = "nothing",
                      !.awaited = FALSE]

IsFree(in, d) == in[d].stage = "Idle"

-----------------------------------------------------------------------------
(* What the user and the browser do. *)

\* Everything but the calls and the controllers.
UnchangedRest == UNCHANGED <<serverVars, jar, bound, spent, signedOut>>

\* start, then refresh.  The controller may be a new one.
Start(t, d) ==
    /\ ~ tabs[t].active
    /\ IsFree(calls, d)
    /\ \E attempted \in {tabs[t].attempted, FALSE} :
           tabs' = [tabs EXCEPT ![t] =
               [In(@, "checking") EXCEPT !.active = TRUE, !.attempted = attempted]]
    /\ calls' = Sent(Superseded(calls, t), d, t, "inspect", Null, "nothing", jar)
    /\ UnchangedRest

\* stop: the panel is unmounted; calls in flight go on, unheard.  The phase, which
\* nobody sees before start sets it, counts as the one that start will set.
Stop(t) ==
    /\ tabs[t].active
    /\ tabs' = [tabs EXCEPT ![t] =
           [Without(@, "checking") EXCEPT !.active = FALSE, !.session = Null]]
    /\ calls' = Superseded(calls, t)
    /\ UnchangedRest

\* The page is loaded anew: the browser gives up the calls of the tab.
Reload(t) ==
    /\ tabs' = [tabs EXCEPT ![t] =
           [active |-> FALSE, phase |-> "checking", cooling |-> FALSE,
            attempt |-> Null, session |-> Null, attempted |-> FALSE]]
    /\ calls' = [c \in Calls |->
           IF calls[c].stage # "Idle" /\ calls[c].tab = t
           THEN Abandoned(calls[c]) ELSE calls[c]]
    /\ bound' = [bound EXCEPT ![t] = Null]
    /\ UNCHANGED <<serverVars, jar, spent, signedOut>>

\* refresh, on focus or from the error view.
Refresh(t, d) ==
    /\ tabs[t].active
    /\ ~ Blocked(tabs[t])
    /\ IsFree(calls, d)
    /\ calls' = Sent(Reinspected(calls, t), d, t, "inspect", Null, "nothing", jar)
    /\ UNCHANGED tabs
    /\ UnchangedRest

\* begin.  The panel offers it to an anonymous user of a document in which Google
\* was not initialised.
PressBegin(t, d) ==
    /\ tabs[t].phase = "anonymous"
    /\ bound[t] = Null
    /\ tabs[t].active
    /\ ~ Blocked(tabs[t])
    /\ tabs[t].attempt = Null
    /\ tabs[t].session = Null
    /\ IsFree(calls, d)
    /\ tabs' = [tabs EXCEPT ![t] = In(@, "preparing")]
    /\ calls' = Sent(Superseded(calls, t), d, t, "begin", Null, "nothing", jar)
    /\ UnchangedRest

\* The script is loaded and the button of the present attempt is mounted.
MountGoogle(t) ==
    /\ OffersGoogle(tabs[t])
    /\ tabs[t].active
    /\ tabs[t].attempt # Null
    /\ bound[t] = Null
    /\ bound' = [bound EXCEPT ![t] = tabs[t].attempt]
    /\ UNCHANGED <<serverVars, calls, jar, tabs, spent, signedOut>>

\* The script cannot be loaded, or Google was initialised in this document before.
GoogleUnavailable(t) ==
    /\ tabs[t].active
    /\ OffersGoogle(tabs[t])
    /\ tabs' = [tabs EXCEPT ![t] = Failed(@, "unavailable")]
    /\ UNCHANGED calls
    /\ UnchangedRest

\* The bindings Google holds are those of the attempt the controller holds.
IsBound(t) ==
    /\ tabs[t].active
    /\ bound[t] # Null
    /\ bound[t] = tabs[t].attempt

ClickGoogle(t) ==
    /\ IsBound(t)
    /\ tabs' = [tabs EXCEPT ![t] = In(@, "waiting")]
    /\ UNCHANGED calls
    /\ UnchangedRest

\* checkExpiry, by the timer of the panel or at the start of onCredential.
CheckExpiry(t) ==
    /\ tabs[t].attempt \in expired
    /\ tabs' = [tabs EXCEPT ![t] = Without(@, "restart")]
    /\ calls' = Superseded(calls, t)
    /\ spent' = spent \cup {tabs[t].attempt}
    /\ UNCHANGED <<serverVars, jar, bound, signedOut>>

\* onCredential: Google calls back, with a credential or with anything else.  An
\* expired attempt is given up first (CheckExpiry), and nothing is sent for it.
IsSubmittable(t) ==
    /\ IsBound(t)
    /\ tabs[t].attempt \notin expired
    /\ OffersGoogle(tabs[t])

Credential(t, d) ==
    /\ IsSubmittable(t)
    /\ \/ /\ tabs' = [tabs EXCEPT ![t] = Failed(@, "rejected")]
          /\ UNCHANGED <<calls, spent>>
       \/ /\ IsFree(calls, d)
          /\ tabs' = [tabs EXCEPT ![t] = Without(@, "completing")]
          /\ calls' = Sent(Superseded(calls, t), d, t, "login", bound[t], "nothing", jar)
          /\ spent' = spent \cup {bound[t]}
    /\ UNCHANGED <<serverVars, jar, bound, signedOut>>

Cancel(t) ==
    /\ tabs[t].active
    /\ tabs[t].phase \in {"preparing", "google", "waiting"}
    /\ tabs' = [tabs EXCEPT ![t] = Without(@, "restart")]
    /\ calls' = Superseded(calls, t)
    /\ spent' = spent \cup ({tabs[t].attempt} \ {Null})
    /\ UNCHANGED <<serverVars, jar, bound, signedOut>>

Logout(t, d) ==
    /\ tabs[t].phase = "authenticated"
    /\ tabs[t].active
    /\ tabs[t].session # Null
    /\ ~ Blocked(tabs[t])
    /\ IsFree(calls, d)
    /\ tabs' = [tabs EXCEPT ![t] = In(@, "logout")]
    /\ calls' = Sent(Superseded(calls, t), d, t, "logout", tabs[t].session, "nothing", jar)
    /\ UnchangedRest

\* retryAt is reached.
CoolDown(t) ==
    /\ tabs[t].cooling
    /\ tabs' = [tabs EXCEPT ![t].cooling = FALSE]
    /\ UNCHANGED calls
    /\ UnchangedRest

-----------------------------------------------------------------------------
(* What the controller does with the answer to call c.  In in, the place of c   *)
(* is free again unless the server still works on it; a refresh that follows    *)
(* goes to the free place d.                                                    *)

\* refresh, after its await.  A 401 does not end a login that waits for Google.
KeepsAttempt(T) == T.attempt # Null /\ T.attempt \notin expired /\ OffersGoogle(T)

Inspected(T, answer) ==
    CASE answer.status = "ok" ->
            [Without(T, "authenticated") EXCEPT !.session = answer.value]
      [] answer.status = "required" /\ KeepsAttempt(T) -> T
      [] answer.status = "required" /\ ~ KeepsAttempt(T) ->
            [Without(T, IF T.session # Null \/ T.attempted THEN "restart" ELSE "anonymous")
                EXCEPT !.session = Null]
      [] OTHER -> Failed(T, answer.status)

Applies(c) == calls[c].fresh /\ calls[c].latest

HearInspect(c, answer, in) ==
    LET t == calls[c].tab
        T == IF Applies(c) THEN Inspected(tabs[t], answer) ELSE tabs[t]
    IN  /\ calls' = in
        /\ tabs' = [tabs EXCEPT ![t] =
               IF calls[c].fresh /\ calls[c].then = "login" /\ T.phase = "anonymous"
               THEN In(T, "restart") ELSE T]
        /\ signedOut' =
               IF calls[c].fresh /\ calls[c].then = "logout" /\ T.phase = "restart"
               THEN [signedOut EXCEPT ![t] = @ \cup {calls[c].subject}] ELSE signedOut
        /\ UNCHANGED spent

\* set(initial), then refresh.
CheckAgain(c, in, d, then, cookies) ==
    LET t == calls[c].tab
    IN  /\ IsFree(in, d)
        /\ tabs' = [tabs EXCEPT ![t] = In(@, "checking")]
        /\ calls' = Sent(Reinspected(in, t), d, t, "inspect", calls[c].subject, then, cookies)

Fail(c, answer, in) ==
    /\ tabs' = [tabs EXCEPT ![calls[c].tab] = Failed(@, answer.status)]
    /\ calls' = in

\* begin, after its await; an attempt that has expired on the way is given up.
HearBegin(c, answer, in, d, cookies) ==
    LET t == calls[c].tab
        a == answer.value
    IN  /\ \/ /\ answer.status = "ok"
              /\ a \notin expired
              /\ tabs' = [tabs EXCEPT ![t] =
                     [In(@, "google") EXCEPT !.attempt = a, !.attempted = TRUE]]
              /\ calls' = in
              /\ UNCHANGED spent
           \/ /\ answer.status = "ok"
              /\ a \in expired
              /\ tabs' = [tabs EXCEPT ![t] =
                     [Without(@, "restart") EXCEPT !.attempted = TRUE]]
              /\ calls' = Superseded(in, t)
              /\ spent' = spent \cup {a}
           \/ /\ answer.status = "restart"
              /\ CheckAgain(c, in, d, "nothing", cookies)
              /\ UNCHANGED spent
           \/ /\ answer.status \notin {"ok", "restart"}
              /\ Fail(c, answer, in)
              /\ UNCHANGED spent
        /\ UNCHANGED signedOut

\* Mutant: a result that is not known is not looked into.
HearLoginResult(c, answer, in, d, cookies) ==
    /\ IF answer.status \in {"ok", "restart"}
         THEN CheckAgain(c, in, d, "login", cookies)
         ELSE IF answer.status = "unavailable" THEN calls' = in /\ UNCHANGED tabs
         ELSE Fail(c, answer, in)
    /\ UNCHANGED <<spent, signedOut>>

\* onCredential, after its await: only an inspection tells whether it worked.
HearLogin(c, answer, in, d, cookies) ==
    /\ IF answer.status \in {"ok", "unavailable", "restart"}
         THEN CheckAgain(c, in, d, "login", cookies)
         ELSE Fail(c, answer, in)
    /\ UNCHANGED <<spent, signedOut>>

\* logout, after its await.
HearLogout(c, answer, in, d, cookies) ==
    LET t == calls[c].tab
    IN  /\ \/ /\ answer.status = "ok"
              /\ tabs' = [tabs EXCEPT ![t] = [In(@, "restart") EXCEPT !.session = Null]]
              /\ calls' = in
              /\ signedOut' = [signedOut EXCEPT ![t] = @ \cup {calls[c].subject}]
           \/ /\ answer.status = "limited"
              /\ Fail(c, answer, in)
              /\ UNCHANGED signedOut
           \/ /\ answer.status \notin {"ok", "limited"}
              /\ CheckAgain(c, in, d, "logout", cookies)
              /\ UNCHANGED signedOut
        /\ UNCHANGED spent

\* Mutant: without the comparison of the versions.
IsStarted(c) == tabs[calls[c].tab].active

\* current(version)
IsCurrent(c) == calls[c].fresh

Hear(c, answer, in, d, cookies) ==
    \/ /\ calls[c].kind = "inspect"
       /\ HearInspect(c, answer, in)
    \/ /\ calls[c].kind # "inspect"
       /\ ~ IsCurrent(c)
       /\ calls' = in
       /\ UNCHANGED <<tabs, spent, signedOut>>
    \/ /\ calls[c].kind = "begin"
       /\ IsCurrent(c)
       /\ HearBegin(c, answer, in, d, cookies)
    \/ /\ calls[c].kind = "login"
       /\ IsCurrent(c)
       /\ HearLogin(c, answer, in, d, cookies)
    \/ /\ calls[c].kind = "logout"
       /\ IsCurrent(c)
       /\ HearLogout(c, answer, in, d, cookies)

-----------------------------------------------------------------------------
(* The way back. *)

SetCookie(old, set) ==
    IF set = Null THEN old ELSE IF set = Erase THEN Null ELSE set

Finished(c) == [calls EXCEPT ![c] = Idle]

\* The answer arrives.  The browser obeys its Set-Cookie headers, whatever the
\* controller makes of it.
Receive(c) ==
    LET answer == calls[c].answer
    IN  /\ calls[c].stage = "Answered"
        /\ calls[c].awaited
        /\ jar' = [attempt |-> SetCookie(jar.attempt, answer.setAttempt),
                   session |-> SetCookie(jar.session, answer.setSession)]
        /\ Hear(c, answer, Finished(c), c, jar')
        /\ UNCHANGED <<serverVars, bound>>

\* The call never reaches the server, or its answer is lost.
Lose(c) ==
    /\ calls[c].stage \in {"Sent", "Answered"}
    /\ calls[c].awaited
    /\ Hear(c, Reply("unavailable"), Finished(c), c, jar)
    /\ UNCHANGED <<serverVars, jar, bound>>

\* The client gives up a call that the server will serve.
GiveUp(c, d) ==
    /\ calls[c].stage \in {"Sent", "Checked"}
    /\ calls[c].awaited
    /\ Hear(c, Reply("unavailable"), [calls EXCEPT ![c] = Abandoned(@)], d, jar)
    /\ UNCHANGED <<serverVars, jar, bound>>

-----------------------------------------------------------------------------
Init ==
    /\ attempts = [a \in {} |-> Null]
    /\ expired = {}
    /\ sessions = [s \in {} |-> Null]
    /\ calls = [c \in Calls |-> Idle]
    /\ jar = [attempt |-> Null, session |-> Null]
    /\ tabs = [t \in Tabs |->
           [active |-> FALSE, phase |-> "checking", cooling |-> FALSE,
            attempt |-> Null, session |-> Null, attempted |-> FALSE]]
    /\ bound = [t \in Tabs |-> Null]
    /\ spent = {}
    /\ signedOut = [t \in Tabs |-> {}]

Focus == \E t \in Tabs, d \in Calls : Refresh(t, d)

User(t) ==
    \/ \E d \in Calls :
           Start(t, d) \/ PressBegin(t, d) \/ Credential(t, d) \/ Logout(t, d)
    \/ Stop(t)
    \/ Reload(t)
    \/ ClickGoogle(t)
    \/ Cancel(t)

Page(t) ==
    \/ MountGoogle(t)
    \/ GoogleUnavailable(t)
    \/ CheckExpiry(t)
    \/ CoolDown(t)

Return(c) ==
    \/ Receive(c)
    \/ Lose(c)
    \/ \E d \in Calls : GiveUp(c, d)

Network == \E c \in Calls : (Serve(c) /\ UNCHANGED tabVars) \/ Return(c)

Next ==
    \/ Focus
    \/ \E t \in Tabs : User(t) \/ Page(t)
    \/ Network
    \/ Time /\ UNCHANGED tabVars

Spec == Init /\ [][Next]_vars

FairSpec ==
    /\ Spec
    /\ \A c \in Calls : WF_vars(Serve(c) /\ UNCHANGED tabVars) /\ WF_vars(Return(c))

-----------------------------------------------------------------------------
(* What the program promises. *)

\* What a tab shows is what it holds: an attempt exactly while it offers Google, a
\* session while it shows the user signed in or signs out, and none while a login
\* is offered, running or to be restarted.  Whatever overtakes what, no answer
\* leaves a secret behind under a view that does not know of it
\* (AuthenticationController).
PhaseMatchesSecrets ==
    \A t \in Tabs : tabs[t].active =>
        /\ (tabs[t].attempt # Null) <=> OffersGoogle(tabs[t])
        /\ tabs[t].phase \in {"authenticated", "logout"} => tabs[t].session # Null
        /\ tabs[t].phase \in {"anonymous", "preparing", "google", "waiting",
                              "completing", "restart"} => tabs[t].session = Null

\* Once a tab has confirmed the end of a session, no answer that was on its way
\* makes it show that session again (AuthenticationController.logout).
NoResurrection ==
    \A t \in Tabs :
        tabs[t].phase = "authenticated" => tabs[t].session \notin signedOut[t]

\* A sign-out is confirmed only for a session that has ended, or that the browser
\* cannot use any more because its cookie is gone
\* (AuthenticationController.logout, CheckLogout and Revoke of the server).
SignedOutIsOver ==
    \A t \in Tabs : \A s \in signedOut[t] :
        sessions[s].state = "ended" \/ jar.session # s

\* The end of an attempt is final: one that was replaced by a later one, in
\* whichever tab, does not become a session, although its login may be between its
\* two transactions when that happens; nor does one that already became a session
\* (begin and complete of createPostgresAuthenticationStore).
AttemptsEndOnce ==
    [][\A a \in DOMAIN attempts :
          attempts[a] # "ready" =>
              /\ attempts'[a] = attempts[a]
              /\ \A s \in DOMAIN sessions' \ DOMAIN sessions :
                     sessions'[s].attempt # a]_vars

\* The credential of an attempt is sent at most once, and never after the attempt
\* was cancelled or found expired, however often and late Google calls back
\* (AuthenticationController.googleBindings).
CredentialSentOnce ==
    [][\A c \in Calls :
          LET IsLogin(call) == call.stage = "Sent" /\ call.kind = "login"
          IN  IsLogin(calls'[c]) /\ ~ IsLogin(calls[c])
                  => calls'[c].subject \notin spent]_vars

\* A tab that is not left drops the session it holds only if the session has ended
\* or the browser no longer holds its cookie: an answer that was computed before
\* a login does not sign the user out (AuthenticationController.refresh).
DropsOnlyLostSessions ==
    [][\A t \in Tabs :
          LET s == tabs[t].session
          IN  (s # Null /\ tabs'[t].active /\ tabs'[t].session # s)
                 => sessions[s].state = "ended" \/ jar.session # s]_vars

\* A tab that has confirmed the end of a session never shows it again, and confirms it
\* only when the session has ended or is lost to the browser
\* (AuthenticationController.logout).
SignOutIsFinal == TypeOK /\ NoResurrection /\ SignedOutIsOver

\* An attempt becomes a session at most once and its credential is sent at most once; the
\* session that results stays with its tab until it ends or the browser loses it, whatever
\* is answered late and whatever another tab does (AuthenticationController.googleBindings,
\* completeLogin).
LoginsStand == AttemptsEndOnce /\ CredentialSentOnce /\ DropsOnlyLostSessions

\* The cookie of an active session outlives the answer of an inspection that was
\* computed without it.
LateInspectionKeepsLogin ==
    [][\A c \in Calls :
          (/\ calls[c].stage = "Answered"
           /\ calls[c].kind = "inspect"
           /\ jar.session # Null
           /\ sessions[jar.session].state = "active")
              => jar'.session = jar.session]_vars
=============================================================================
