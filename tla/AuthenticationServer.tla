------------------------ MODULE AuthenticationServer ------------------------
(***************************************************************************)
(* The four authentication routes of the API and the records they keep     *)
(* (presentation/http/authentication/authentication-http.ts,               *)
(* application/authentication/google-authentication-service.ts,            *)
(* infrastructure/authentication/postgres/postgres-authentication-store.ts).*)
(*                                                                         *)
(* A request is a call: it is sent with the cookies the browser holds at   *)
(* that moment, served in one or two transactions, and answered with a     *)
(* status and with changes to the cookies.  Each transaction of the store  *)
(* locks the rows it reads and is one action here; login and logout run    *)
(* two of them, and other calls can be served in between.  Whatever fails  *)
(* is answered "unavailable" without cookies, the effects of a commit of   *)
(* unknown outcome included.                                               *)
(*                                                                         *)
(* A secret is the record it selects.  The forms of the inputs, the audit  *)
(* rows, the encryption and the actor a session belongs to are left out.   *)
(***************************************************************************)
EXTENDS Integers, FiniteSets

CONSTANTS
    Attempts,       \* ids of the login attempts
    Sessions,       \* ids of the sessions
    Calls,          \* bound on the requests that are in flight at once
    Null,
    Erase           \* a Set-Cookie that deletes

ASSUME SecretsAssumption ==
    /\ Attempts \cap Sessions = {}
    /\ {Null, Erase} \cap (Attempts \cup Sessions) = {}
    /\ Null # Erase

VARIABLES
    attempts,       \* the state of every attempt that was begun
    expired,        \* the attempts that are past their expiry
    sessions,       \* the state and the attempt of every session
    calls           \* the requests in flight

serverVars == <<attempts, expired, sessions>>

-----------------------------------------------------------------------------
Kind == {"begin", "login", "inspect", "logout"}

Cookies == [attempt: Attempts \cup {Null}, session: Sessions \cup {Null}]

\* What the client makes of a response, and its Set-Cookie headers, where Null
\* leaves the cookie as it is.
Answer ==
    [status: {"ok", "required", "restart", "rejected", "unavailable", "limited"},
     value: Attempts \cup Sessions \cup {Null},
     setAttempt: Attempts \cup {Null, Erase},
     setSession: Sessions \cup {Null, Erase}]

Reply(status) ==
    [status |-> status, value |-> Null, setAttempt |-> Null, setSession |-> Null]

Idle == [stage |-> "Idle"]

NoCookies == [attempt |-> Null, session |-> Null]

\* Answers call c, whose cookies are of no use any more.  Nobody hears the answer
\* to a call the client has given up.
Answered(c, answer) ==
    calls' = [calls EXCEPT ![c] =
        IF @.awaited
        THEN [@ EXCEPT !.stage = "Answered", !.answer = answer, !.cookies = NoCookies]
        ELSE Idle]

\* Answers call c with what was committed, or with 503 if the outcome is unknown.
AnsweredOrUnknown(c, answer) ==
    \/ Answered(c, answer)
    \/ Answered(c, Reply("unavailable"))

At(c, kind, stage) == calls[c].stage = stage /\ calls[c].kind = kind

\* Whether the call c carries the cookie of an active session.
SessionActive(c) ==
    LET s == calls[c].cookies.session
    IN  s \in DOMAIN sessions /\ sessions[s].state = "active"

\* Whether the call c carries the cookie of the attempt it has the CSRF value of,
\* and that attempt can still be completed.
AttemptReady(c) ==
    LET a == calls[c].cookies.attempt
    IN  /\ a = calls[c].subject
        /\ a \in DOMAIN attempts
        /\ attempts[a] = "ready"
        /\ a \notin expired

\* The body and the cookie of a new attempt or session.
Issued(a) == [Reply("ok") EXCEPT !.value = a, !.setAttempt = a]

Restart == [Reply("restart") EXCEPT !.setAttempt = Erase]

-----------------------------------------------------------------------------
\* The shared rate limit is exhausted, or something on the way fails before the
\* next transaction commits.
Refuse(c) ==
    /\ \/ /\ calls[c].stage = "Sent"
          /\ Answered(c, Reply("limited"))
       \/ /\ calls[c].stage \in {"Sent", "Checked"}
          /\ Answered(c, Reply("unavailable"))
    /\ UNCHANGED serverVars

\* begin: a new attempt, which replaces the one whose cookie is sent.  It is
\* refused to a browser with an active session.
Begin(c) ==
    /\ At(c, "begin", "Sent")
    /\ \/ /\ SessionActive(c)
          /\ Answered(c, Reply("restart"))
          /\ UNCHANGED attempts
       \/ /\ ~ SessionActive(c)
          /\ \E a \in Attempts \ DOMAIN attempts :
                 /\ attempts' = [b \in DOMAIN attempts \cup {a} |->
                        IF b = a THEN "ready"
                        ELSE IF b = calls[c].cookies.attempt /\ attempts[b] = "ready"
                             THEN "replaced"
                             ELSE attempts[b]]
                 /\ AnsweredOrUnknown(c, Issued(a))
    /\ UNCHANGED <<expired, sessions>>

\* login, first transaction: the attempt has to be ready.  Google's answer is
\* verified after it, against the nonce that was read.
ReadAttempt(c) ==
    /\ At(c, "login", "Sent")
    /\ IF AttemptReady(c)
         THEN calls' = [calls EXCEPT ![c].stage = "Checked"]
         ELSE Answered(c, Restart)
    /\ UNCHANGED serverVars

InvalidCredential(c) ==
    /\ At(c, "login", "Checked")
    /\ Answered(c, Reply("required"))
    /\ UNCHANGED serverVars

\* Mutant: the second transaction does not look at the attempt again.
CompletesUnchecked(c) == calls[c].subject \in DOMAIN attempts

\* login, second transaction: unless the browser has an active session, and if
\* the attempt is as it was read, it is consumed and a session is created.
CanComplete(c) == AttemptReady(c)

Complete(c) ==
    /\ At(c, "login", "Checked")
    /\ \/ /\ SessionActive(c)
          /\ Answered(c, Reply("restart"))
          /\ UNCHANGED <<attempts, sessions>>
       \/ /\ ~ SessionActive(c)
          /\ ~ CanComplete(c)
          /\ Answered(c, Restart)
          /\ UNCHANGED <<attempts, sessions>>
       \/ /\ ~ SessionActive(c)
          /\ CanComplete(c)
          /\ \E s \in Sessions \ DOMAIN sessions :
                 /\ sessions' = [x \in DOMAIN sessions \cup {s} |->
                        IF x = s THEN [state |-> "active", attempt |-> calls[c].subject]
                                 ELSE sessions[x]]
                 /\ attempts' = [attempts EXCEPT ![calls[c].subject] = "consumed"]
                 /\ AnsweredOrUnknown(c,
                        [Reply("ok") EXCEPT !.setSession = s, !.setAttempt = Erase])
    /\ UNCHANGED expired

\* inspect: the session of the cookie.  Without an active one the cookie is
\* deleted.
Inspect(c) ==
    /\ At(c, "inspect", "Sent")
    /\ Answered(c,
           IF SessionActive(c)
             THEN [Reply("ok") EXCEPT !.value = calls[c].cookies.session]
             ELSE [Reply("required") EXCEPT !.setSession = Erase])
    /\ UNCHANGED serverVars

\* logout, first transaction: an active session has to be the one whose CSRF value
\* is sent; without an active session there is nothing to do.
CheckLogout(c) ==
    /\ At(c, "logout", "Sent")
    /\ \/ /\ ~ SessionActive(c)
          /\ Answered(c, [Reply("ok") EXCEPT !.setSession = Erase])
       \/ /\ SessionActive(c)
          /\ calls[c].cookies.session # calls[c].subject
          /\ Answered(c, Reply("rejected"))
       \/ /\ SessionActive(c)
          /\ calls[c].cookies.session = calls[c].subject
          /\ calls' = [calls EXCEPT ![c].stage = "Checked"]
    /\ UNCHANGED serverVars

\* logout, second transaction: the session is revoked, if it still has to be.
Revoke(c) ==
    /\ At(c, "logout", "Checked")
    /\ sessions' = [sessions EXCEPT ![calls[c].subject].state = "ended"]
    /\ AnsweredOrUnknown(c, [Reply("ok") EXCEPT !.setSession = Erase])
    /\ UNCHANGED <<attempts, expired>>

Serve(c) ==
    \/ Refuse(c)
    \/ Begin(c)
    \/ ReadAttempt(c)
    \/ InvalidCredential(c)
    \/ Complete(c)
    \/ Inspect(c)
    \/ CheckLogout(c)
    \/ Revoke(c)

\* The five minutes of an attempt are over.
AttemptExpires(a) ==
    /\ a \in DOMAIN attempts \ expired
    /\ expired' = expired \cup {a}
    /\ UNCHANGED <<attempts, sessions, calls>>

\* A session reaches its absolute or idle expiry, or its actor is disabled.
SessionEnds(s) ==
    /\ s \in DOMAIN sessions
    /\ sessions[s].state = "active"
    /\ sessions' = [sessions EXCEPT ![s].state = "ended"]
    /\ UNCHANGED <<attempts, expired, calls>>

Time ==
    \/ \E a \in Attempts : AttemptExpires(a)
    \/ \E s \in Sessions : SessionEnds(s)
=============================================================================
