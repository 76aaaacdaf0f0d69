-------------------------- MODULE WebLogin_proofs --------------------------
(***************************************************************************)
(* Proofs about the login page, for any number of tabs, calls in flight,   *)
(* attempts and sessions.                                                  *)
(*                                                                         *)
(* What a tab shows fits what it holds because of the calls that can still *)
(* change it.  The inductive invariant IInv says of them: a call whose     *)
(* answer will be applied (fresh) is of the kind the phase of its tab      *)
(* waits for, and there is only one such call, unless it is an inspection. *)
(* So when an answer is applied, the tab is still in the phase it was sent *)
(* in.                                                                     *)
(*                                                                         *)
(* That sessions and attempts last is the stronger SessionsInv and         *)
(* AttemptsInv: what is under way about a session is true when it is       *)
(* heard, because every session comes into the jar once, and an attempt    *)
(* has one holder until it is spent.  They are kept by any step that       *)
(* evolves the calls, the tabs and the records as Evolves says, and every  *)
(* step of the specification does.                                         *)
(***************************************************************************)
EXTENDS WebLogin, TLAPS

AllCalls == [Calls -> {Idle} \cup Call]

\* The kind of call that may still be answered in a phase.
Awaits(phase) ==
    CASE phase = "preparing" -> "begin"
      [] phase = "completing" -> "login"
      [] phase = "logout" -> "logout"
      [] OTHER -> "inspect"

TabFits(T) ==
    IF T.active
      THEN /\ (T.attempt # Null) <=> OffersGoogle(T)
           /\ T.phase \in {"authenticated", "logout"} => T.session # Null
           /\ T.phase \in {"anonymous", "preparing", "google", "waiting",
                           "completing", "restart"} => T.session = Null
      ELSE T.attempt = Null

\* A call whose answer will be applied.
IsHeard(call) == call.stage # "Idle" /\ call.fresh

CallFits(call, T) == IsHeard(call) => T.active /\ call.kind = Awaits(T.phase)

\* Signing out is about a session, and a good answer carries what was asked for.
CallWell(call) ==
    /\ call.stage # "Idle" /\ (call.kind = "logout" \/ call.then = "logout")
           => call.subject \in Sessions
    /\ call.stage = "Answered" => call.answer \in Answer
    /\ call.stage = "Answered" /\ call.answer.status = "ok" =>
           /\ call.kind = "begin" => call.answer.value \in Attempts
           /\ call.kind = "inspect" => call.answer.value \in Sessions

TabsFit == \A t \in Tabs : TabFits(tabs[t])

CallsFit == \A c \in Calls : CallFits(calls[c], tabs[calls[c].tab])

CallsWell == \A c \in Calls : CallWell(calls[c])

OneHeard ==
    \A c, d \in Calls :
        (/\ IsHeard(calls[c]) /\ IsHeard(calls[d])
         /\ calls[c].tab = calls[d].tab
         /\ calls[c].kind # "inspect")
            => c = d

IInv ==
    /\ TypeOK
    /\ TabsFit
    /\ CallsFit
    /\ CallsWell
    /\ OneHeard

-----------------------------------------------------------------------------
(* The constants and the calls *)

LEMMA SecretsDiffer ==
    /\ Null \notin Attempts /\ Null \notin Sessions /\ Null # Erase
    /\ Erase \notin Attempts /\ Erase \notin Sessions
  BY SecretsAssumption

LEMMA CallCases ==
    ASSUME NEW in \in AllCalls, NEW c \in Calls
    PROVE  /\ in[c] = Idle => in[c].stage = "Idle"
           /\ in[c].stage # "Idle" => in[c] \in Call
           /\ in[c] \in {Idle} \cup Call
           /\ in[c] \in Call => in[c].stage # "Idle"
  BY DEF AllCalls, Idle, Call

LEMMA SupersededCalls ==
    ASSUME NEW in \in AllCalls, NEW t
    PROVE  /\ Superseded(in, t) \in AllCalls
           /\ \A c \in Calls :
                  LET call == Superseded(in, t)[c]
                  IN  /\ IsHeard(call) => call = in[c] /\ call.tab # t
                      /\ CallWell(in[c]) => CallWell(call)
<1>0. Superseded(in, t) = [c \in Calls |-> Superseded(in, t)[c]]
  BY DEF Superseded
<1> SUFFICES ASSUME NEW c \in Calls
             PROVE  LET call == Superseded(in, t)[c]
                    IN  /\ call \in {Idle} \cup Call
                        /\ IsHeard(call) => call = in[c] /\ call.tab # t
                        /\ CallWell(in[c]) => CallWell(call)
  BY <1>0 DEF AllCalls
<1> DEFINE call == Superseded(in, t)[c]
<1>1. CASE in[c].stage = "Idle" \/ in[c].tab # t
  <2>1. call = in[c]
    BY <1>1 DEF Superseded
  <2> QED
    BY <1>1, <2>1, CallCases DEF IsHeard
<1>2. CASE in[c].stage # "Idle" /\ in[c].tab = t
  <2>1. in[c] \in Call
    BY <1>2, CallCases
  <2>2. call = [in[c] EXCEPT !.fresh = FALSE, !.latest = FALSE, !.then = "nothing"]
    BY <1>2 DEF Superseded
  <2>3. /\ call \in Call
        /\ ~ call.fresh
        /\ call.stage = in[c].stage /\ call.kind = in[c].kind
        /\ call.subject = in[c].subject /\ call.answer = in[c].answer
        /\ call.then = "nothing"
    BY <2>1, <2>2 DEF Call
  <2> QED
    BY <1>2, <2>3 DEF IsHeard, CallWell
<1> QED
  BY <1>1, <1>2

LEMMA ReinspectedCalls ==
    ASSUME NEW in \in AllCalls, NEW t
    PROVE  /\ Reinspected(in, t) \in AllCalls
           /\ \A c \in Calls :
                  LET call == Reinspected(in, t)[c]
                  IN  /\ call.stage = in[c].stage
                      /\ in[c].stage # "Idle" => /\ call.tab = in[c].tab
                                                 /\ call.kind = in[c].kind
                                                 /\ call.fresh = in[c].fresh
                      /\ CallWell(in[c]) => CallWell(call)
<1>0. Reinspected(in, t) = [c \in Calls |-> Reinspected(in, t)[c]]
  BY DEF Reinspected
<1> SUFFICES ASSUME NEW c \in Calls
             PROVE  LET call == Reinspected(in, t)[c]
                    IN  /\ call \in {Idle} \cup Call
                        /\ call.stage = in[c].stage
                        /\ in[c].stage # "Idle" => /\ call.tab = in[c].tab
                                                   /\ call.kind = in[c].kind
                                                   /\ call.fresh = in[c].fresh
                        /\ CallWell(in[c]) => CallWell(call)
  BY <1>0 DEF AllCalls
<1> DEFINE call == Reinspected(in, t)[c]
<1>1. CASE in[c].stage = "Idle"
  BY <1>1, CallCases DEF Reinspected
<1>2. CASE in[c].stage # "Idle"
  <2>1. in[c] \in Call
    BY <1>2, CallCases
  <2>2. call = in[c] \/ call = [in[c] EXCEPT !.latest = FALSE]
    BY DEF Reinspected
  <2>3. /\ call \in Call
        /\ call.stage = in[c].stage /\ call.kind = in[c].kind /\ call.tab = in[c].tab
        /\ call.fresh = in[c].fresh /\ call.then = in[c].then
        /\ call.subject = in[c].subject /\ call.answer = in[c].answer
    BY <2>1, <2>2 DEF Call
  <2> QED
    BY <2>3 DEF CallWell
<1> QED
  BY <1>1, <1>2

LEMMA SentCalls ==
    ASSUME NEW in \in AllCalls, NEW d \in Calls, NEW t \in Tabs, NEW kind \in Kind,
           NEW subject \in Attempts \cup Sessions \cup {Null},
           NEW then \in {"login", "logout", "nothing"}, NEW cookies \in Cookies,
           (kind = "logout" \/ then = "logout") => subject \in Sessions
    PROVE  LET out == Sent(in, d, t, kind, subject, then, cookies)
           IN  /\ out \in AllCalls
               /\ \A c \in Calls : c # d => out[c] = in[c]
               /\ out[d].tab = t /\ out[d].kind = kind
               /\ CallWell(out[d])
<1> DEFINE call == [stage |-> "Sent", kind |-> kind, tab |-> t, subject |-> subject,
                    cookies |-> cookies, then |-> then, answer |-> Null,
                    fresh |-> TRUE, latest |-> TRUE, awaited |-> TRUE]
           out == Sent(in, d, t, kind, subject, then, cookies)
<1>1. call \in Call
  BY DEF Call
<1>2. out = [in EXCEPT ![d] = call]
  BY DEF Sent
<1>3. out \in AllCalls /\ out[d] = call /\ \A c \in Calls : c # d => out[c] = in[c]
  BY <1>1, <1>2 DEF AllCalls
<1>4. CallWell(call)
  BY DEF CallWell
<1> QED
  BY <1>3, <1>4

-----------------------------------------------------------------------------
(* The moves of one tab *)

\* The calls in, which other tabs do not notice.
Ready(in, t) ==
    /\ in \in AllCalls
    /\ \A c \in Calls : CallWell(in[c])
    /\ \A c \in Calls :
           IsHeard(in[c]) /\ in[c].tab # t
               => /\ IsHeard(calls[c])
                  /\ calls[c].tab = in[c].tab
                  /\ calls[c].kind = in[c].kind

\* Of tab t, only inspections will be heard.
OnlyInspections(in, t) ==
    \A c \in Calls : IsHeard(in[c]) /\ in[c].tab = t => in[c].kind = "inspect"

\* The calls of the tab t fit the new state T of its controller.
OwnFit(in, t, T) ==
    /\ \A c \in Calls : in[c].tab = t => CallFits(in[c], T)
    /\ \A c, d \in Calls :
           (/\ IsHeard(in[c]) /\ IsHeard(in[d])
            /\ in[c].tab = t /\ in[d].tab = t
            /\ in[c].kind # "inspect")
               => c = d

\* TypeOK without the controllers and the calls.
RestOK ==
    /\ DOMAIN attempts \subseteq Attempts
    /\ attempts \in [DOMAIN attempts -> {"ready", "replaced", "consumed"}]
    /\ expired \subseteq DOMAIN attempts
    /\ DOMAIN sessions \subseteq Sessions
    /\ sessions \in [DOMAIN sessions -> [state: {"active", "ended"}, attempt: Attempts]]
    /\ jar \in Cookies
    /\ bound \in [Tabs -> Attempts \cup {Null}]
    /\ spent \subseteq Attempts
    /\ signedOut \in [Tabs -> SUBSET Sessions]

LEMMA RestStays == IInv /\ UnchangedRest => RestOK'
  BY DEF IInv, TypeOK, RestOK, UnchangedRest, serverVars

LEMMA TabStep ==
    ASSUME IInv, NEW t \in Tabs, NEW T \in Controller, TabFits(T),
           tabs' = [tabs EXCEPT ![t] = T],
           Ready(calls', t), OwnFit(calls', t, T), RestOK'
    PROVE  IInv'
<1>1. tabs \in [Tabs -> Controller]
  BY DEF IInv, TypeOK
<1>2. /\ tabs' \in [Tabs -> Controller]
      /\ tabs'[t] = T
      /\ \A u \in Tabs : u # t => tabs'[u] = tabs[u]
  BY <1>1
<1>3. TabsFit'
  BY <1>2 DEF IInv, TabsFit
<1>4. calls' \in AllCalls /\ CallsWell'
  BY DEF Ready, CallsWell
<1>5. ASSUME NEW c \in Calls
      PROVE  CallFits(calls'[c], tabs'[calls'[c].tab])
  <2>1. CASE calls'[c].tab = t
    BY <1>2, <2>1 DEF OwnFit
  <2>2. CASE IsHeard(calls'[c]) /\ calls'[c].tab # t
    <3>1. calls'[c].tab \in Tabs
      BY <1>4, <2>2, CallCases DEF IsHeard, Call
    <3>2. CallFits(calls[c], tabs[calls[c].tab])
      BY DEF IInv, CallsFit
    <3> QED
      BY <1>2, <2>2, <3>1, <3>2 DEF Ready, CallFits
  <2> QED
    BY <2>1, <2>2 DEF CallFits
<1>6. OneHeard'
  BY DEF IInv, OneHeard, Ready, OwnFit
<1>7. TypeOK'
  BY <1>2, <1>4 DEF RestOK, TypeOK, AllCalls
<1> QED
  BY <1>3, <1>4, <1>5, <1>6, <1>7 DEF IInv, CallsFit

LEMMA CallsReady == IInv => \A t : Ready(calls, t)
  BY DEF IInv, TypeOK, AllCalls, CallsWell, Ready

LEMMA InspectionsFit ==
    ASSUME NEW in, NEW t, NEW T, OnlyInspections(in, t), T.active,
           Awaits(T.phase) = "inspect"
    PROVE  OwnFit(in, t, T)
  BY DEF OnlyInspections, OwnFit, CallFits

\* A tab that waits for an inspection at most hears of nothing else.
LEMMA OnlyInspectionsIf ==
    ASSUME IInv, NEW t \in Tabs, Awaits(tabs[t].phase) = "inspect"
    PROVE  OnlyInspections(calls, t)
  BY DEF IInv, CallsFit, CallFits, OnlyInspections

LEMMA AfterSuperseded ==
    ASSUME NEW in, NEW t, Ready(in, t), NEW T
    PROVE  Ready(Superseded(in, t), t) /\ OwnFit(Superseded(in, t), t, T)
<1>1. in \in AllCalls
  BY DEF Ready
<1>2. ASSUME NEW c \in Calls, IsHeard(Superseded(in, t)[c])
      PROVE  Superseded(in, t)[c] = in[c] /\ Superseded(in, t)[c].tab # t
  BY <1>1, <1>2, SupersededCalls
<1> QED
  BY <1>1, <1>2, SupersededCalls DEF Ready, OwnFit, CallFits

LEMMA AfterReinspected ==
    ASSUME NEW in, NEW t, Ready(in, t), OnlyInspections(in, t)
    PROVE  Ready(Reinspected(in, t), t) /\ OnlyInspections(Reinspected(in, t), t)
  BY ReinspectedCalls DEF Ready, OnlyInspections, IsHeard

\* A call sent after the others of the tab were superseded.
LEMMA AfterSent ==
    ASSUME NEW in, NEW t \in Tabs, Ready(in, t), NEW d \in Calls,
           NEW T, T.active, NEW kind \in Kind, kind = Awaits(T.phase),
           NEW subject \in Attempts \cup Sessions \cup {Null},
           NEW then \in {"login", "logout", "nothing"}, NEW cookies \in Cookies,
           (kind = "logout" \/ then = "logout") => subject \in Sessions
    PROVE  LET out == Sent(Superseded(in, t), d, t, kind, subject, then, cookies)
           IN  Ready(out, t) /\ OwnFit(out, t, T)
<1> DEFINE mid == Superseded(in, t)
           out == Sent(mid, d, t, kind, subject, then, cookies)
<1>1. Ready(mid, t) /\ \A c \in Calls : ~ (IsHeard(mid[c]) /\ mid[c].tab = t)
  BY AfterSuperseded, SupersededCalls DEF Ready
<1>2. /\ out \in AllCalls
      /\ \A c \in Calls : c # d => out[c] = mid[c]
      /\ out[d].tab = t /\ out[d].kind = kind
      /\ CallWell(out[d])
  BY <1>1, SentCalls DEF Ready
<1> HIDE DEF out, mid
<1>3. Ready(out, t)
  BY <1>1, <1>2 DEF Ready
<1>4. OwnFit(out, t, T)
  BY <1>1, <1>2 DEF OwnFit, CallFits
<1> QED
  BY <1>3, <1>4 DEF out, mid

\* A refresh sent by a tab that hears of inspections only.
LEMMA AfterRefresh ==
    ASSUME NEW in, NEW t \in Tabs, Ready(in, t), OnlyInspections(in, t), NEW d \in Calls,
           NEW T, T.active, Awaits(T.phase) = "inspect",
           NEW subject \in Attempts \cup Sessions \cup {Null},
           NEW then \in {"login", "logout", "nothing"}, NEW cookies \in Cookies,
           then = "logout" => subject \in Sessions
    PROVE  LET out == Sent(Reinspected(in, t), d, t, "inspect", subject, then, cookies)
           IN  Ready(out, t) /\ OwnFit(out, t, T)
<1> DEFINE mid == Reinspected(in, t)
           kind == "inspect"
           out == Sent(mid, d, t, kind, subject, then, cookies)
<1>1. Ready(mid, t) /\ OnlyInspections(mid, t)
  BY AfterReinspected
<1>2. mid \in AllCalls /\ kind \in Kind /\ kind # "logout"
  BY <1>1 DEF Ready, Kind
<1> HIDE DEF kind
<1>3. /\ out \in AllCalls
      /\ \A c \in Calls : c # d => out[c] = mid[c]
      /\ out[d].tab = t /\ out[d].kind = kind
      /\ CallWell(out[d])
  BY <1>2, SentCalls
<1> HIDE DEF out, mid
<1>4. Ready(out, t)
  BY <1>1, <1>3 DEF Ready
<1>5. OnlyInspections(out, t)
  BY <1>1, <1>3 DEF OnlyInspections, kind
<1> QED
  BY <1>4, <1>5, InspectionsFit DEF out, mid, kind

LEMMA NewStates ==
    ASSUME NEW T \in Controller, NEW phase \in Phase, NEW status
    PROVE  /\ In(T, phase) \in Controller
           /\ In(T, phase).phase = phase
           /\ In(T, phase).active = T.active
           /\ In(T, phase).attempt = T.attempt
           /\ In(T, phase).session = T.session
           /\ Without(T, phase) \in Controller
           /\ Without(T, phase).phase = phase
           /\ Without(T, phase).active = T.active
           /\ Without(T, phase).attempt = Null
           /\ Without(T, phase).session = T.session
           /\ Failed(T, status) \in Controller
           /\ Failed(T, status).phase = "error"
           /\ Failed(T, status).active = T.active
           /\ Failed(T, status).attempt = Null
           /\ Failed(T, status).session = T.session
<1>1. In(T, phase) = [T EXCEPT !.phase = phase, !.cooling = FALSE]
  BY DEF In
<1>2. /\ In(T, phase) \in Controller
      /\ In(T, phase).phase = phase
      /\ In(T, phase).active = T.active
      /\ In(T, phase).attempt = T.attempt
      /\ In(T, phase).session = T.session
  BY <1>1 DEF Controller
<1>3. /\ Without(T, phase) \in Controller
      /\ Without(T, phase).phase = phase
      /\ Without(T, phase).active = T.active
      /\ Without(T, phase).attempt = Null
      /\ Without(T, phase).session = T.session
  BY <1>2 DEF Without, Controller
<1> DEFINE E == Without(T, "error")
<1>4. /\ E \in Controller /\ E.phase = "error" /\ E.active = T.active
      /\ E.attempt = Null /\ E.session = T.session
  BY DEF Without, In, Controller, Phase
<1>5. Failed(T, status) = [E EXCEPT !.cooling = (status = "limited")]
  BY DEF Failed
<1> HIDE DEF E
<1>6. /\ Failed(T, status) \in Controller
      /\ Failed(T, status).phase = "error"
      /\ Failed(T, status).active = T.active
      /\ Failed(T, status).attempt = Null
      /\ Failed(T, status).session = T.session
  BY <1>4, <1>5 DEF Controller
<1> QED
  BY <1>2, <1>3, <1>6

LEMMA FailedFits ==
    ASSUME NEW T \in Controller, NEW status
    PROVE  /\ Failed(T, status) \in Controller
           /\ TabFits(Failed(T, status))
           /\ Failed(T, status).active = T.active
           /\ Awaits(Failed(T, status).phase) = "inspect"
<1>1. "error" \in Phase
  BY DEF Phase
<1> QED
  BY <1>1, NewStates DEF TabFits, OffersGoogle, Awaits

LEMMA SupersedingStep ==
    ASSUME IInv, NEW t \in Tabs, NEW T \in Controller, TabFits(T),
           tabs' = [tabs EXCEPT ![t] = T], calls' = Superseded(calls, t), RestOK'
    PROVE  IInv'
  BY CallsReady, AfterSuperseded, TabStep

LEMMA SendingStep ==
    ASSUME IInv, NEW t \in Tabs, NEW T \in Controller, TabFits(T), T.active,
           tabs' = [tabs EXCEPT ![t] = T], RestOK',
           NEW d \in Calls, NEW kind \in Kind, kind = Awaits(T.phase),
           NEW subject \in Attempts \cup Sessions \cup {Null},
           kind = "logout" => subject \in Sessions,
           NEW then, then = "nothing",
           calls' = Sent(Superseded(calls, t), d, t, kind, subject, then, jar)
    PROVE  IInv'
<1>1. jar \in Cookies /\ Ready(calls, t)
  BY CallsReady DEF IInv, TypeOK
<1>2. then \in {"login", "logout", "nothing"} /\ then # "logout"
  OBVIOUS
<1>3. Ready(calls', t) /\ OwnFit(calls', t, T)
  BY <1>1, <1>2, AfterSent
<1> QED
  BY <1>3, TabStep

\* The tab waits for the same calls as before.
LEMMA QuietStep ==
    ASSUME IInv, NEW t \in Tabs, NEW T \in Controller, TabFits(T),
           T.active = tabs[t].active, Awaits(T.phase) = Awaits(tabs[t].phase),
           tabs' = [tabs EXCEPT ![t] = T], UNCHANGED calls, RestOK'
    PROVE  IInv'
<1>1. Ready(calls', t)
  BY CallsReady
<1>2. OwnFit(calls, t, T)
  BY DEF IInv, CallsFit, CallFits, OneHeard, OwnFit
<1> QED
  BY <1>1, <1>2, TabStep

-----------------------------------------------------------------------------
(* The user and the page *)

LEMMA StartInv ==
    ASSUME IInv, NEW t \in Tabs, NEW d \in Calls, Start(t, d)
    PROVE  IInv'
<1> DEFINE kind == "inspect"
           then == "nothing"
           old == tabs[t]
<1>1. PICK attempted \in {old.attempted, FALSE} :
          tabs' = [tabs EXCEPT ![t] =
               [In(old, "checking") EXCEPT !.active = TRUE, !.attempted = attempted]]
  BY DEF Start, IInv, TypeOK
<1> DEFINE T == [In(old, "checking") EXCEPT !.active = TRUE, !.attempted = attempted]
<1>2. old \in Controller /\ ~ old.active /\ old.attempt = Null
  BY DEF IInv, TypeOK, TabsFit, TabFits, Start
<1>3. /\ In(old, "checking") \in Controller
      /\ In(old, "checking").phase = "checking" /\ In(old, "checking").attempt = Null
  BY <1>2 DEF In, Controller, Phase
<1>4. T \in Controller /\ T.active = TRUE /\ T.phase = "checking" /\ T.attempt = Null
  BY <1>2, <1>3 DEF Controller
<1>5. calls' = Sent(Superseded(calls, t), d, t, kind, Null, then, jar)
  BY DEF Start
<1>6. /\ kind \in Kind /\ kind = Awaits(T.phase) /\ kind # "logout"
      /\ then = "nothing" /\ TabFits(T) /\ RestOK'
  BY <1>4, RestStays DEF Awaits, Kind, TabFits, OffersGoogle, Start
<1> HIDE DEF kind, then, T
<1> QED
  BY <1>1, <1>4, <1>5, <1>6, SendingStep DEF T

LEMMA StopInv ==
    ASSUME IInv, NEW t \in Tabs, Stop(t)
    PROVE  IInv'
<1> DEFINE W == Without(tabs[t], "checking")
           T == [W EXCEPT !.active = FALSE, !.session = Null]
<1>1. tabs[t] \in Controller /\ "checking" \in Phase
  BY DEF IInv, TypeOK, Phase
<1>2. W \in Controller /\ W.attempt = Null
  BY <1>1, NewStates
<1>3. tabs' = [tabs EXCEPT ![t] = T]
  BY <1>1 DEF Stop, IInv, TypeOK
<1> HIDE DEF W
<1>4. T \in Controller /\ T.active = FALSE /\ T.attempt = Null
  BY <1>2 DEF Controller
<1> HIDE DEF T
<1>5. TabFits(T) /\ RestOK'
  BY <1>4, RestStays DEF TabFits, Stop
<1> QED
  BY <1>3, <1>4, <1>5, SupersedingStep DEF Stop

LEMMA AbandonedCall ==
    ASSUME NEW call \in Call
    PROVE  /\ Abandoned(call) \in {Idle} \cup Call
           /\ ~ IsHeard(Abandoned(call))
           /\ CallWell(call) => CallWell(Abandoned(call))
<1>1. CASE call.stage = "Answered"
  BY <1>1 DEF Abandoned, IsHeard, CallWell, Idle
<1>2. CASE call.stage # "Answered"
  <2>1. Abandoned(call) = [call EXCEPT !.fresh = FALSE, !.latest = FALSE,
                                       !.then = "nothing", !.awaited = FALSE]
    BY <1>2 DEF Abandoned
  <2>2. /\ Abandoned(call) \in Call
        /\ ~ Abandoned(call).fresh
        /\ Abandoned(call).stage = call.stage /\ Abandoned(call).kind = call.kind
        /\ Abandoned(call).subject = call.subject
        /\ Abandoned(call).then = "nothing"
    BY <2>1 DEF Call
  <2> QED
    BY <1>2, <2>2 DEF IsHeard, CallWell
<1> QED
  BY <1>1, <1>2

LEMMA ReloadInv ==
    ASSUME IInv, NEW t \in Tabs, Reload(t)
    PROVE  IInv'
<1> DEFINE T == [active |-> FALSE, phase |-> "checking", cooling |-> FALSE,
                 attempt |-> Null, session |-> Null, attempted |-> FALSE]
<1>1. T \in Controller /\ TabFits(T)
  BY DEF Controller, Phase, TabFits
<1>2. RestOK'
  BY DEF IInv, TypeOK, RestOK, Reload, serverVars
<1>3. ASSUME NEW c \in Calls
      PROVE  /\ calls'[c] \in {Idle} \cup Call
             /\ CallWell(calls'[c])
             /\ IsHeard(calls'[c]) => calls'[c] = calls[c] /\ calls'[c].tab # t
  <2>1. CallWell(calls[c]) /\ calls \in AllCalls
    BY DEF IInv, CallsWell, TypeOK, AllCalls
  <2>2. CASE calls[c].stage # "Idle" /\ calls[c].tab = t
    <3>1. calls'[c] = Abandoned(calls[c]) /\ calls[c] \in Call
      BY <2>1, <2>2, CallCases DEF Reload
    <3> QED
      BY <2>1, <3>1, AbandonedCall
  <2>3. CASE ~ (calls[c].stage # "Idle" /\ calls[c].tab = t)
    <3>1. calls'[c] = calls[c]
      BY <2>3 DEF Reload
    <3> QED
      BY <2>1, <2>3, <3>1, CallCases DEF IsHeard
  <2> QED
    BY <2>2, <2>3
<1>4. calls' \in AllCalls
  <2>1. calls' = [c \in Calls |-> calls'[c]]
    BY DEF Reload
  <2> QED
    BY <1>3, <2>1 DEF AllCalls
<1>5. Ready(calls', t) /\ OwnFit(calls', t, T)
  BY <1>3, <1>4 DEF Ready, OwnFit, CallFits
<1> QED
  BY <1>1, <1>2, <1>5, TabStep DEF Reload

LEMMA RefreshInv ==
    ASSUME IInv, NEW t \in Tabs, NEW d \in Calls, Refresh(t, d)
    PROVE  IInv'
<1> DEFINE T == tabs[t]
           then == "nothing"
<1>1. /\ T \in Controller /\ TabFits(T) /\ T.active
      /\ tabs' = [tabs EXCEPT ![t] = T]
      /\ jar \in Cookies
  BY DEF IInv, TypeOK, TabsFit, Refresh
<1>2. Awaits(T.phase) = "inspect"
  BY DEF Refresh, Blocked, Awaits
<1>3. Ready(calls, t) /\ OnlyInspections(calls, t)
  BY <1>2, CallsReady, OnlyInspectionsIf
<1>4. calls' = Sent(Reinspected(calls, t), d, t, "inspect", Null, then, jar)
  BY DEF Refresh
<1>5. then \in {"login", "logout", "nothing"} /\ then # "logout"
  OBVIOUS
<1> HIDE DEF then
<1>6. Ready(calls', t) /\ OwnFit(calls', t, T)
  BY <1>1, <1>2, <1>3, <1>4, <1>5, AfterRefresh
<1> QED
  BY <1>1, <1>6, RestStays, TabStep DEF Refresh

LEMMA PressBeginInv ==
    ASSUME IInv, NEW t \in Tabs, NEW d \in Calls, PressBegin(t, d)
    PROVE  IInv'
<1> DEFINE kind == "begin"
           then == "nothing"
           T == In(tabs[t], "preparing")
<1>1. tabs[t] \in Controller /\ "preparing" \in Phase
  BY DEF IInv, TypeOK, Phase
<1>2. /\ T \in Controller /\ T.active /\ T.phase = "preparing"
      /\ T.attempt = Null /\ T.session = Null
  BY <1>1, NewStates DEF PressBegin
<1>3. /\ tabs' = [tabs EXCEPT ![t] = T]
      /\ calls' = Sent(Superseded(calls, t), d, t, kind, Null, then, jar)
  BY <1>1 DEF PressBegin, IInv, TypeOK
<1> HIDE DEF T
<1>4. /\ kind \in Kind /\ kind = Awaits(T.phase) /\ kind # "logout"
      /\ then = "nothing" /\ TabFits(T) /\ RestOK'
  BY <1>2, RestStays DEF Awaits, Kind, TabFits, OffersGoogle, PressBegin
<1> HIDE DEF kind, then
<1> QED
  BY <1>2, <1>3, <1>4, SendingStep

LEMMA MountGoogleInv ==
    ASSUME IInv, NEW t \in Tabs, MountGoogle(t)
    PROVE  IInv'
<1>1. tabs[t].attempt \in Attempts
  BY DEF IInv, TypeOK, Controller, MountGoogle
<1>2. RestOK'
  BY <1>1 DEF IInv, TypeOK, RestOK, MountGoogle, serverVars
<1>3. /\ tabs[t] \in Controller /\ TabFits(tabs[t])
      /\ tabs' = [tabs EXCEPT ![t] = tabs[t]]
      /\ UNCHANGED calls
  BY DEF IInv, TypeOK, TabsFit, MountGoogle
<1> QED
  BY <1>2, <1>3, QuietStep

LEMMA GoogleUnavailableInv ==
    ASSUME IInv, NEW t \in Tabs, GoogleUnavailable(t)
    PROVE  IInv'
<1> DEFINE status == "unavailable"
           T == Failed(tabs[t], status)
<1>1. tabs[t] \in Controller /\ Awaits(tabs[t].phase) = "inspect"
  BY DEF IInv, TypeOK, GoogleUnavailable, OffersGoogle, Awaits
<1>2. tabs' = [tabs EXCEPT ![t] = T] /\ UNCHANGED calls /\ RestOK'
  BY RestStays DEF GoogleUnavailable, IInv, TypeOK
<1> HIDE DEF status
<1> QED
  BY <1>1, <1>2, FailedFits, QuietStep

LEMMA ClickGoogleInv ==
    ASSUME IInv, NEW t \in Tabs, ClickGoogle(t)
    PROVE  IInv'
<1> DEFINE T == In(tabs[t], "waiting")
<1>1. /\ tabs[t] \in Controller /\ TabFits(tabs[t]) /\ tabs[t].active
      /\ tabs[t].attempt # Null /\ "waiting" \in Phase
  BY DEF IInv, TypeOK, TabsFit, ClickGoogle, IsBound, Phase
<1>2. tabs[t].phase \in {"google", "waiting"} /\ tabs[t].session = Null
  BY <1>1 DEF TabFits, OffersGoogle
<1>3. /\ T \in Controller /\ T.active /\ T.phase = "waiting"
      /\ T.attempt # Null /\ T.session = Null
  BY <1>1, <1>2, NewStates
<1>4. tabs' = [tabs EXCEPT ![t] = T] /\ UNCHANGED calls /\ RestOK'
  BY RestStays DEF ClickGoogle, IInv, TypeOK
<1> HIDE DEF T
<1>5. TabFits(T) /\ Awaits(T.phase) = Awaits(tabs[t].phase)
  BY <1>3, <1>2 DEF TabFits, OffersGoogle, Awaits
<1> QED
  BY <1>1, <1>3, <1>4, <1>5, QuietStep

LEMMA CheckExpiryInv ==
    ASSUME IInv, NEW t \in Tabs, CheckExpiry(t)
    PROVE  IInv'
<1> DEFINE T == Without(tabs[t], "restart")
<1>1. /\ tabs[t] \in Controller /\ TabFits(tabs[t]) /\ "restart" \in Phase
      /\ tabs[t].attempt \in Attempts
  BY DEF IInv, TypeOK, TabsFit, CheckExpiry, Phase
<1>2. tabs[t].active /\ tabs[t].session = Null
  BY <1>1, SecretsDiffer DEF TabFits, OffersGoogle
<1>3. /\ T \in Controller /\ T.phase = "restart"
      /\ T.attempt = Null /\ T.session = Null
  BY <1>1, <1>2, NewStates
<1>4. tabs' = [tabs EXCEPT ![t] = T] /\ calls' = Superseded(calls, t) /\ RestOK'
  BY <1>1 DEF CheckExpiry, IInv, TypeOK, RestOK, serverVars
<1> HIDE DEF T
<1>5. TabFits(T)
  BY <1>3 DEF TabFits, OffersGoogle
<1> QED
  BY <1>3, <1>4, <1>5, SupersedingStep

LEMMA CredentialInv ==
    ASSUME IInv, NEW t \in Tabs, NEW d \in Calls, Credential(t, d)
    PROVE  IInv'
<1>1. /\ tabs[t] \in Controller /\ tabs[t].active
      /\ bound[t] \in Attempts
      /\ Awaits(tabs[t].phase) = "inspect"
      /\ tabs[t].session = Null
  BY DEF IInv, TypeOK, TabsFit, TabFits, Credential, IsSubmittable, IsBound,
         OffersGoogle, Awaits
<1>2. RestOK'
  BY <1>1 DEF Credential, IInv, TypeOK, RestOK, serverVars
<1>3. CASE tabs' = [tabs EXCEPT ![t] = Failed(@, "rejected")] /\ UNCHANGED calls
  <2> DEFINE status == "rejected"
         T == Failed(tabs[t], status)
  <2>1. tabs' = [tabs EXCEPT ![t] = T] /\ UNCHANGED calls
    BY <1>3 DEF IInv, TypeOK
  <2> HIDE DEF status
  <2>2. /\ T \in Controller /\ TabFits(T) /\ T.active = tabs[t].active
        /\ Awaits(T.phase) = "inspect"
    BY <1>1, FailedFits
  <2> HIDE DEF T
  <2> QED
    BY <1>1, <1>2, <2>1, <2>2, QuietStep
<1>4. CASE /\ tabs' = [tabs EXCEPT ![t] = Without(@, "completing")]
           /\ calls' = Sent(Superseded(calls, t), d, t, "login", bound[t], "nothing", jar)
  <2> DEFINE kind == "login"
             then == "nothing"
             T == Without(tabs[t], "completing")
  <2>1. "completing" \in Phase
    BY DEF Phase
  <2>2. /\ T \in Controller /\ T.active /\ T.phase = "completing"
        /\ T.attempt = Null /\ T.session = Null
    BY <1>1, <2>1, NewStates
  <2>3. /\ tabs' = [tabs EXCEPT ![t] = T]
        /\ calls' = Sent(Superseded(calls, t), d, t, kind, bound[t], then, jar)
    BY <1>4 DEF IInv, TypeOK
  <2> HIDE DEF T
  <2>4. /\ kind \in Kind /\ kind = Awaits(T.phase) /\ kind # "logout"
        /\ then = "nothing" /\ TabFits(T)
    BY <2>2 DEF Awaits, Kind, TabFits, OffersGoogle
  <2> HIDE DEF kind, then
  <2> QED
    BY <1>1, <1>2, <2>2, <2>3, <2>4, SendingStep
<1> QED
  BY <1>3, <1>4 DEF Credential

LEMMA CancelInv ==
    ASSUME IInv, NEW t \in Tabs, Cancel(t)
    PROVE  IInv'
<1> DEFINE T == Without(tabs[t], "restart")
<1>1. /\ tabs[t] \in Controller /\ "restart" \in Phase
      /\ tabs[t].attempt \in Attempts \cup {Null}
      /\ tabs[t].session = Null
  BY DEF IInv, TypeOK, TabsFit, TabFits, Cancel, Phase, Controller
<1>2. /\ T \in Controller /\ T.phase = "restart"
      /\ T.attempt = Null /\ T.session = Null
  BY <1>1, NewStates
<1>3. tabs' = [tabs EXCEPT ![t] = T] /\ calls' = Superseded(calls, t) /\ RestOK'
  BY <1>1 DEF Cancel, IInv, TypeOK, RestOK, serverVars
<1> HIDE DEF T
<1>4. TabFits(T)
  BY <1>2 DEF TabFits, OffersGoogle
<1> QED
  BY <1>2, <1>3, <1>4, SupersedingStep

LEMMA LogoutInv ==
    ASSUME IInv, NEW t \in Tabs, NEW d \in Calls, Logout(t, d)
    PROVE  IInv'
<1> DEFINE kind == "logout"
           then == "nothing"
           T == In(tabs[t], "logout")
<1>1. /\ tabs[t] \in Controller /\ "logout" \in Phase
      /\ tabs[t].active /\ tabs[t].attempt = Null
      /\ tabs[t].session \in Sessions
  BY DEF IInv, TypeOK, Phase, TabsFit, TabFits, OffersGoogle, Logout, Controller
<1>2. /\ T \in Controller /\ T.active /\ T.phase = "logout"
      /\ T.attempt = Null /\ T.session # Null
  BY <1>1, NewStates, SecretsDiffer
<1>3. /\ tabs' = [tabs EXCEPT ![t] = T]
      /\ calls' = Sent(Superseded(calls, t), d, t, kind, tabs[t].session, then, jar)
  BY <1>1 DEF Logout, IInv, TypeOK
<1> HIDE DEF T
<1>4. /\ kind \in Kind /\ kind = Awaits(T.phase)
      /\ then = "nothing" /\ TabFits(T) /\ RestOK'
  BY <1>2, RestStays DEF Awaits, Kind, TabFits, OffersGoogle, Logout
<1> HIDE DEF kind, then
<1> QED
  BY <1>1, <1>2, <1>3, <1>4, SendingStep

LEMMA CoolDownInv ==
    ASSUME IInv, NEW t \in Tabs, CoolDown(t)
    PROVE  IInv'
<1> DEFINE T == [tabs[t] EXCEPT !.cooling = FALSE]
<1>1. tabs[t] \in Controller /\ TabFits(tabs[t])
  BY DEF IInv, TypeOK, TabsFit
<1>2. /\ T \in Controller /\ T.active = tabs[t].active /\ T.phase = tabs[t].phase
      /\ T.attempt = tabs[t].attempt /\ T.session = tabs[t].session
  BY <1>1 DEF Controller
<1>3. tabs' = [tabs EXCEPT ![t] = T] /\ UNCHANGED calls /\ RestOK'
  BY RestStays DEF CoolDown, IInv, TypeOK
<1> HIDE DEF T
<1>4. TabFits(T)
  BY <1>1, <1>2 DEF TabFits, OffersGoogle
<1> QED
  BY <1>2, <1>3, <1>4, QuietStep

-----------------------------------------------------------------------------
(* The server *)

\* An answer that the client can make something of.
AnswerFits(call, answer) ==
    /\ answer \in Answer
    /\ answer.status = "ok" => /\ call.kind = "begin" => answer.value \in Attempts
                               /\ call.kind = "inspect" => answer.value \in Sessions

LEMMA CallStep ==
    ASSUME IInv, NEW c \in Calls, NEW new \in {Idle} \cup Call, CallWell(new),
           IsHeard(new) => /\ IsHeard(calls[c])
                           /\ new.tab = calls[c].tab /\ new.kind = calls[c].kind,
           calls' = [calls EXCEPT ![c] = new], UNCHANGED tabs, RestOK'
    PROVE  IInv'
<1>1. calls \in AllCalls
  BY DEF IInv, TypeOK, AllCalls
<1>2. /\ calls' \in AllCalls
      /\ calls'[c] = new
      /\ \A e \in Calls : e # c => calls'[e] = calls[e]
  BY <1>1 DEF AllCalls
<1>3. TypeOK'
  BY <1>2 DEF IInv, TypeOK, RestOK, AllCalls
<1>4. TabsFit' /\ CallsWell'
  BY <1>2 DEF IInv, TabsFit, CallsWell
<1>5. CallsFit'
  BY <1>2 DEF IInv, CallsFit, CallFits
<1>6. OneHeard'
  BY <1>2 DEF IInv, OneHeard
<1> QED
  BY <1>3, <1>4, <1>5, <1>6 DEF IInv

LEMMA CallOf ==
    ASSUME IInv, NEW c \in Calls, calls[c].stage # "Idle"
    PROVE  calls[c] \in Call /\ CallWell(calls[c])
  BY CallCases DEF IInv, TypeOK, CallsWell, AllCalls

LEMMA AnsweredStep ==
    ASSUME IInv, NEW c \in Calls, calls[c].stage # "Idle", NEW answer,
           AnswerFits(calls[c], answer), Answered(c, answer), UNCHANGED tabs, RestOK'
    PROVE  IInv'
<1> DEFINE old == calls[c]
           new == [old EXCEPT !.stage = "Answered", !.answer = answer,
                              !.cookies = NoCookies]
<1>1. old \in Call /\ CallWell(old) /\ calls \in AllCalls
  BY CallOf DEF IInv, TypeOK, AllCalls
<1>2. CASE old.awaited
  <2>1. calls' = [calls EXCEPT ![c] = new]
    BY <1>1, <1>2 DEF Answered, AllCalls
  <2>2. NoCookies \in Cookies
    BY DEF NoCookies, Cookies
  <2>3. /\ new \in Call
        /\ new.stage = "Answered" /\ new.answer = answer
        /\ new.tab = old.tab /\ new.kind = old.kind /\ new.fresh = old.fresh
        /\ new.then = old.then /\ new.subject = old.subject
    BY <1>1, <2>2 DEF Call, AnswerFits
  <2> HIDE DEF new
  <2>4. CallWell(new) /\ (IsHeard(new) => IsHeard(old))
    BY <1>1, <2>3 DEF CallWell, AnswerFits, IsHeard
  <2> QED
    BY <2>1, <2>3, <2>4, CallStep
<1>3. CASE ~ old.awaited
  <2>1. calls' = [calls EXCEPT ![c] = Idle]
    BY <1>1, <1>3 DEF Answered, AllCalls
  <2>2. CallWell(Idle) /\ ~ IsHeard(Idle)
    BY DEF CallWell, IsHeard, Idle
  <2> QED
    BY <2>1, <2>2, CallStep
<1> QED
  BY <1>2, <1>3

LEMMA ReplyFits ==
    ASSUME NEW call,
           NEW status \in {"required", "restart", "rejected", "unavailable", "limited"}
    PROVE  AnswerFits(call, Reply(status))
<1> DEFINE answer == Reply(status)
<1>1. answer \in Answer /\ answer.status = status
  BY DEF Reply, Answer
<1> HIDE DEF answer
<1>2. AnswerFits(call, answer)
  BY <1>1 DEF AnswerFits
<1> QED
  BY <1>2 DEF answer

LEMMA CheckedStep ==
    ASSUME IInv, NEW c \in Calls, calls[c].stage = "Sent",
           calls' = [calls EXCEPT ![c].stage = "Checked"], UNCHANGED tabs, RestOK'
    PROVE  IInv'
<1> DEFINE old == calls[c]
           new == [old EXCEPT !.stage = "Checked"]
<1>1. old \in Call /\ CallWell(old) /\ calls \in AllCalls
  BY CallOf DEF IInv, TypeOK, AllCalls
<1>2. calls' = [calls EXCEPT ![c] = new]
  BY <1>1 DEF AllCalls
<1>3. /\ new \in Call /\ new.stage = "Checked"
      /\ new.tab = old.tab /\ new.kind = old.kind /\ new.fresh = old.fresh
      /\ new.then = old.then /\ new.subject = old.subject
  BY <1>1 DEF Call
<1> HIDE DEF new
<1>4. CallWell(new) /\ (IsHeard(new) => IsHeard(old))
  BY <1>1, <1>3 DEF CallWell, IsHeard
<1> QED
  BY <1>2, <1>3, <1>4, CallStep

LEMMA ServerStays == IInv /\ UNCHANGED serverVars /\ UNCHANGED tabVars => RestOK'
  BY DEF IInv, TypeOK, RestOK, serverVars, tabVars

LEMMA RefuseInv ==
    ASSUME IInv, NEW c \in Calls, Refuse(c), UNCHANGED tabVars
    PROVE  IInv'
<1>1. RestOK' /\ UNCHANGED tabs
  BY ServerStays DEF Refuse, tabVars
<1>2. PICK status \in {"limited", "unavailable"} : Answered(c, Reply(status))
  BY DEF Refuse
<1>3. calls[c].stage # "Idle" /\ AnswerFits(calls[c], Reply(status))
  BY ReplyFits DEF Refuse
<1> QED
  BY <1>1, <1>2, <1>3, AnsweredStep

\* The calls answered "unavailable" whatever was committed.
LEMMA UnknownStep ==
    ASSUME IInv, NEW c \in Calls, calls[c].stage # "Idle", UNCHANGED tabs, RestOK',
           Answered(c, Reply("unavailable"))
    PROVE  IInv'
<1> DEFINE status == "unavailable"
<1>1. AnswerFits(calls[c], Reply(status))
  BY ReplyFits
<1> QED
  BY <1>1, AnsweredStep

LEMMA RestartStep ==
    ASSUME IInv, NEW c \in Calls, calls[c].stage # "Idle", UNCHANGED tabs, RestOK',
           Answered(c, Reply("restart")) \/ Answered(c, Restart)
    PROVE  IInv'
<1>1. AnswerFits(calls[c], Restart) /\ AnswerFits(calls[c], Reply("restart"))
  BY DEF AnswerFits, Answer, Reply, Restart
<1> QED
  BY <1>1, AnsweredStep

LEMMA BeginInv ==
    ASSUME IInv, NEW c \in Calls, Begin(c), UNCHANGED tabVars
    PROVE  IInv'
<1>1. calls[c].stage # "Idle" /\ calls[c].kind = "begin" /\ UNCHANGED tabs
  BY DEF Begin, At, tabVars
<1>2. CASE Answered(c, Reply("restart")) /\ UNCHANGED attempts
  <2>1. RestOK'
    BY <1>2, ServerStays DEF Begin, serverVars
  <2> QED
    BY <1>1, <1>2, <2>1, RestartStep
<1>3. ASSUME NEW a \in Attempts \ DOMAIN attempts,
             attempts' = [b \in DOMAIN attempts \cup {a} |->
                 IF b = a THEN "ready"
                 ELSE IF b = calls[c].cookies.attempt /\ attempts[b] = "ready"
                      THEN "replaced"
                      ELSE attempts[b]],
             AnsweredOrUnknown(c, Issued(a))
      PROVE  IInv'
  <2>1. DOMAIN attempts' = DOMAIN attempts \cup {a}
        /\ attempts' \in [DOMAIN attempts' -> {"ready", "replaced", "consumed"}]
    BY <1>3 DEF IInv, TypeOK
  <2>2. RestOK'
    BY <2>1 DEF IInv, TypeOK, RestOK, Begin, tabVars
  <2>3. AnswerFits(calls[c], Issued(a))
    BY <1>1 DEF AnswerFits, Answer, Issued, Reply
  <2> QED
    BY <1>1, <1>3, <2>2, <2>3, AnsweredStep, UnknownStep DEF AnsweredOrUnknown
<1> QED
  BY <1>2, <1>3 DEF Begin

LEMMA LoginChecksInv ==
    ASSUME IInv, NEW c \in Calls, ReadAttempt(c) \/ InvalidCredential(c),
           UNCHANGED tabVars
    PROVE  IInv'
<1>1. RestOK' /\ UNCHANGED tabs
  BY ServerStays DEF ReadAttempt, InvalidCredential, tabVars
<1>2. CASE ReadAttempt(c)
  BY <1>1, <1>2, RestartStep, CheckedStep DEF ReadAttempt, At
<1>3. CASE InvalidCredential(c)
  <2> DEFINE status == "required"
  <2>1. AnswerFits(calls[c], Reply(status))
    BY ReplyFits
  <2> QED
    BY <1>1, <1>3, <2>1, AnsweredStep DEF InvalidCredential, At
<1> QED
  BY <1>2, <1>3

LEMMA CompleteInv ==
    ASSUME IInv, NEW c \in Calls, Complete(c), UNCHANGED tabVars
    PROVE  IInv'
<1>1. calls[c].stage # "Idle" /\ calls[c].kind = "login" /\ UNCHANGED tabs
  <2>1. At(c, "login", "Checked")
    BY Zenon DEF Complete
  <2> QED
    BY <2>1 DEF At, tabVars
<1>2. UNCHANGED expired
  BY Zenon DEF Complete
<1>3. CASE /\ Answered(c, Reply("restart")) \/ Answered(c, Restart)
           /\ UNCHANGED <<attempts, sessions>>
  <2>1. RestOK'
    BY <1>2, <1>3, ServerStays DEF serverVars
  <2> QED
    BY <1>1, <1>3, <2>1, RestartStep
<1>4. ASSUME NEW s \in Sessions \ DOMAIN sessions,
             CanComplete(c),
             sessions' = [x \in DOMAIN sessions \cup {s} |->
                 IF x = s THEN [state |-> "active", attempt |-> calls[c].subject]
                          ELSE sessions[x]],
             attempts' = [attempts EXCEPT ![calls[c].subject] = "consumed"],
             AnsweredOrUnknown(c, [Reply("ok") EXCEPT !.setSession = s,
                                                      !.setAttempt = Erase])
      PROVE  IInv'
  <2> DEFINE answer == [Reply("ok") EXCEPT !.setSession = s, !.setAttempt = Erase]
  <2>1. calls[c].subject \in DOMAIN attempts
    BY <1>4 DEF CanComplete, AttemptReady
  <2>2. /\ DOMAIN attempts' = DOMAIN attempts
        /\ attempts' \in [DOMAIN attempts' -> {"ready", "replaced", "consumed"}]
    BY <1>4, <2>1 DEF IInv, TypeOK
  <2>3. [state |-> "active", attempt |-> calls[c].subject]
            \in [state: {"active", "ended"}, attempt: Attempts]
    BY <2>1 DEF IInv, TypeOK
  <2>4. /\ DOMAIN sessions' = DOMAIN sessions \cup {s}
        /\ sessions' \in [DOMAIN sessions' -> [state: {"active", "ended"}, attempt: Attempts]]
    BY <1>4, <2>3 DEF IInv, TypeOK
  <2>5. RestOK'
    BY <1>2, <2>2, <2>4 DEF IInv, TypeOK, RestOK, tabVars
  <2>6. AnswerFits(calls[c], answer)
    BY <1>1 DEF AnswerFits, Answer, Reply
  <2> QED
    BY <1>1, <1>4, <2>5, <2>6, AnsweredStep, UnknownStep DEF AnsweredOrUnknown
<1> QED
  BY <1>3, <1>4, Zenon DEF Complete

LEMMA InspectInv ==
    ASSUME IInv, NEW c \in Calls, Inspect(c), UNCHANGED tabVars
    PROVE  IInv'
<1>1. /\ calls[c].stage # "Idle" /\ calls[c].kind = "inspect"
      /\ UNCHANGED tabs /\ RestOK'
  BY ServerStays DEF Inspect, At, tabVars
<1>2. CASE SessionActive(c)
  <2> DEFINE answer == [Reply("ok") EXCEPT !.value = calls[c].cookies.session]
  <2>1. calls[c].cookies.session \in Sessions
    BY <1>2 DEF SessionActive, IInv, TypeOK
  <2>2. AnswerFits(calls[c], answer)
    BY <1>1, <2>1 DEF AnswerFits, Answer, Reply
  <2>3. Answered(c, answer)
    BY <1>2 DEF Inspect
  <2> QED
    BY <1>1, <2>2, <2>3, AnsweredStep
<1>3. CASE ~ SessionActive(c)
  <2> DEFINE answer == [Reply("required") EXCEPT !.setSession = Erase]
  <2>1. AnswerFits(calls[c], answer)
    BY DEF AnswerFits, Answer, Reply
  <2>2. Answered(c, answer)
    BY <1>3 DEF Inspect
  <2> QED
    BY <1>1, <2>1, <2>2, AnsweredStep
<1> QED
  BY <1>2, <1>3

LEMMA CheckLogoutInv ==
    ASSUME IInv, NEW c \in Calls, CheckLogout(c), UNCHANGED tabVars
    PROVE  IInv'
<1> DEFINE answer == [Reply("ok") EXCEPT !.setSession = Erase]
           rejected == Reply("rejected")
<1>1. /\ calls[c].stage = "Sent" /\ calls[c].kind = "logout"
      /\ UNCHANGED tabs /\ RestOK'
  BY ServerStays DEF CheckLogout, At, tabVars
<1>2. AnswerFits(calls[c], answer) /\ AnswerFits(calls[c], rejected)
  BY <1>1 DEF AnswerFits, Answer, Reply
<1>3. \/ Answered(c, answer) \/ Answered(c, rejected)
      \/ calls' = [calls EXCEPT ![c].stage = "Checked"]
  BY DEF CheckLogout
<1> HIDE DEF answer, rejected
<1> QED
  BY <1>1, <1>2, <1>3, AnsweredStep, CheckedStep

LEMMA RevokeInv ==
    ASSUME IInv, NEW c \in Calls, Revoke(c), UNCHANGED tabVars
    PROVE  IInv'
<1> DEFINE answer == [Reply("ok") EXCEPT !.setSession = Erase]
<1>1. calls[c].stage # "Idle" /\ calls[c].kind = "logout" /\ UNCHANGED tabs
  BY DEF Revoke, At, tabVars
<1>2. /\ DOMAIN sessions' = DOMAIN sessions
      /\ sessions' \in [DOMAIN sessions' -> [state: {"active", "ended"}, attempt: Attempts]]
  <2> DEFINE S == [state: {"active", "ended"}, attempt: Attempts]
             id == calls[c].subject
  <2>1. sessions' = [sessions EXCEPT ![id].state = "ended"]
    BY DEF Revoke
  <2>2. \A s \in DOMAIN sessions : sessions[s] \in S
    BY DEF IInv, TypeOK
  <2>3. \A x \in S : [x EXCEPT !.state = "ended"] \in S
    OBVIOUS
  <2>4. DOMAIN sessions' = DOMAIN sessions
    BY <2>1
  <2>5. \A s \in DOMAIN sessions' : sessions'[s] \in S
    BY <2>1, <2>2, <2>3
  <2>6. sessions' = [s \in DOMAIN sessions' |-> sessions'[s]]
    BY <2>1
  <2> QED
    BY <2>4, <2>5, <2>6
<1>3. RestOK'
  BY <1>2 DEF IInv, TypeOK, RestOK, Revoke, tabVars
<1>4. AnswerFits(calls[c], answer)
  BY <1>1 DEF AnswerFits, Answer, Reply
<1> QED
  BY <1>1, <1>3, <1>4, AnsweredStep, UnknownStep DEF Revoke, AnsweredOrUnknown

LEMMA ServeInv ==
    ASSUME IInv, NEW c \in Calls, Serve(c), UNCHANGED tabVars
    PROVE  IInv'
  BY RefuseInv, BeginInv, LoginChecksInv, CompleteInv, InspectInv, CheckLogoutInv,
     RevokeInv DEF Serve

LEMMA TimeInv ==
    ASSUME IInv, Time, UNCHANGED tabVars
    PROVE  IInv'
<1>1. UNCHANGED <<tabs, calls>>
  BY DEF Time, AttemptExpires, SessionEnds, tabVars
<1>2. RestOK'
  <2>1. CASE \E a \in Attempts : AttemptExpires(a)
    BY <2>1 DEF AttemptExpires, IInv, TypeOK, RestOK, tabVars
  <2>2. ASSUME NEW s \in Sessions, SessionEnds(s)
        PROVE  RestOK'
    <3>1. /\ DOMAIN sessions' = DOMAIN sessions
          /\ sessions' \in [DOMAIN sessions' -> [state: {"active", "ended"}, attempt: Attempts]]
      BY <2>2 DEF SessionEnds, IInv, TypeOK
    <3> QED
      BY <2>2, <3>1 DEF SessionEnds, IInv, TypeOK, RestOK, tabVars
  <2> QED
    BY <2>1, <2>2 DEF Time
<1> QED
  BY <1>1, <1>2 DEF IInv, TypeOK, RestOK, TabsFit, CallsFit, CallsWell, OneHeard

-----------------------------------------------------------------------------
(* The answers *)

\* The calls once call c is over for the client.
Muted(in, c) ==
    /\ in \in AllCalls
    /\ \A e \in Calls : e # c => in[e] = calls[e]
    /\ ~ IsHeard(in[c])
    /\ CallWell(in[c])

LEMMA MutedReady ==
    ASSUME IInv, NEW c \in Calls, NEW in, Muted(in, c)
    PROVE  /\ \A t : Ready(in, t)
           /\ ~ calls[c].fresh => \A t \in Tabs : OwnFit(in, t, tabs[t])
<1>1. ASSUME NEW t
      PROVE  Ready(in, t)
  BY DEF Muted, Ready, IInv, CallsWell
<1>2. ASSUME NEW t \in Tabs
      PROVE  OwnFit(in, t, tabs[t])
  BY DEF Muted, OwnFit, IInv, CallsFit, CallFits, OneHeard
<1> QED
  BY <1>1, <1>2

\* If the tab still hears call c, it hears of inspections only after it.
LEMMA MutedHeard ==
    ASSUME IInv, NEW c \in Calls, NEW in, Muted(in, c), IsHeard(calls[c]),
           NEW t \in Tabs, t = calls[c].tab
    PROVE  /\ OnlyInspections(in, t)
           /\ tabs[t].active
           /\ calls[c].kind = Awaits(tabs[t].phase)
<1>1. CallFits(calls[c], tabs[t])
  BY DEF IInv, CallsFit
<1>2. ASSUME NEW e \in Calls, IsHeard(in[e]), in[e].tab = t
      PROVE  in[e].kind = "inspect"
  <2>1. e # c /\ in[e] = calls[e]
    BY <1>2 DEF Muted
  <2>2. calls[e].kind = Awaits(tabs[t].phase)
    BY <1>2, <2>1 DEF IInv, CallsFit, CallFits
  <2>3. calls[e].kind = calls[c].kind
    BY <1>1, <2>2 DEF CallFits
  <2> QED
    BY <1>2, <2>1, <2>3 DEF IInv, OneHeard
<1> QED
  BY <1>1, <1>2 DEF OnlyInspections, CallFits

\* What the tab that heard call c may become without another call, and with a
\* refresh on the place d.
LEMMA HeardStep ==
    ASSUME IInv, NEW c \in Calls, NEW in, Muted(in, c), IsHeard(calls[c]),
           NEW t \in Tabs, t = calls[c].tab,
           NEW T \in Controller, TabFits(T), T.active, Awaits(T.phase) = "inspect",
           tabs' = [tabs EXCEPT ![t] = T], calls' = in, RestOK'
    PROVE  IInv'
  BY MutedReady, MutedHeard, InspectionsFit, TabStep

LEMMA CheckAgainStep ==
    ASSUME IInv, NEW c \in Calls, NEW in, Muted(in, c), IsHeard(calls[c]),
           NEW d \in Calls, NEW then \in {"login", "logout", "nothing"},
           NEW cookies \in Cookies,
           then = "logout" => calls[c].kind = "logout",
           calls[c].kind # "inspect",
           CheckAgain(c, in, d, then, cookies), RestOK'
    PROVE  IInv'
<1> DEFINE t == calls[c].tab
           subject == calls[c].subject
           T == In(tabs[t], "checking")
<1>1. calls[c] \in Call /\ CallWell(calls[c])
  BY CallOf DEF IsHeard
<1>2. /\ t \in Tabs /\ subject \in Attempts \cup Sessions \cup {Null}
      /\ then = "logout" => subject \in Sessions
  BY <1>1 DEF Call, CallWell, IsHeard
<1>3. /\ Ready(in, t) /\ OnlyInspections(in, t) /\ tabs[t].active
      /\ calls[c].kind = Awaits(tabs[t].phase)
  BY <1>2, MutedReady, MutedHeard
<1>4. /\ tabs' = [tabs EXCEPT ![t] = T]
      /\ calls' = Sent(Reinspected(in, t), d, t, "inspect", subject, then, cookies)
  BY <1>2 DEF CheckAgain, IInv, TypeOK
<1>5. tabs[t] \in Controller /\ TabFits(tabs[t]) /\ "checking" \in Phase
  BY <1>2 DEF IInv, TypeOK, TabsFit, Phase
<1>6. T \in Controller /\ T.active /\ T.phase = "checking"
      /\ T.attempt = tabs[t].attempt
  BY <1>3, <1>5, NewStates
<1>7. T.attempt = Null
  BY <1>3, <1>5, <1>6 DEF TabFits, OffersGoogle, Awaits
<1> HIDE DEF t, T, subject
<1>8. TabFits(T) /\ Awaits(T.phase) = "inspect"
  BY <1>6, <1>7 DEF TabFits, OffersGoogle, Awaits
<1>9. Ready(calls', t) /\ OwnFit(calls', t, T)
  BY <1>2, <1>3, <1>4, <1>6, <1>8, AfterRefresh
<1> QED
  BY <1>2, <1>4, <1>6, <1>8, <1>9, TabStep

LEMMA FailStep ==
    ASSUME IInv, NEW c \in Calls, NEW in, Muted(in, c), IsHeard(calls[c]),
           NEW answer, Fail(c, answer, in), RestOK'
    PROVE  IInv'
<1> DEFINE t == calls[c].tab
           status == answer.status
           T == Failed(tabs[t], status)
<1>1. t \in Tabs
  BY CallOf DEF IsHeard, Call
<1>2. tabs[t] \in Controller /\ tabs[t].active
  BY <1>1, MutedHeard DEF IInv, TypeOK
<1>3. tabs' = [tabs EXCEPT ![t] = T] /\ calls' = in
  BY <1>1 DEF Fail, IInv, TypeOK
<1> HIDE DEF t, status
<1>4. T \in Controller /\ TabFits(T) /\ T.active /\ Awaits(T.phase) = "inspect"
  BY <1>2, FailedFits
<1> HIDE DEF T
<1> QED
  BY <1>1, <1>3, <1>4, HeardStep DEF t

LEMMA InspectedFits ==
    ASSUME NEW T \in Controller, TabFits(T), T.active, Awaits(T.phase) = "inspect",
           NEW answer, answer.status = "ok" => answer.value \in Sessions
    PROVE  LET new == Inspected(T, answer)
           IN  /\ new \in Controller /\ TabFits(new) /\ new.active
               /\ Awaits(new.phase) = "inspect"
<1> DEFINE new == Inspected(T, answer)
<1>1. CASE answer.status = "ok"
  <2> DEFINE W == Without(T, "authenticated")
  <2>1. W \in Controller /\ W.active /\ W.phase = "authenticated" /\ W.attempt = Null
    BY DEF Without, In, Controller, Phase
  <2>2. new = [W EXCEPT !.session = answer.value]
    BY <1>1 DEF Inspected
  <2> HIDE DEF W
  <2>3. /\ new \in Controller /\ new.active /\ new.phase = "authenticated"
        /\ new.attempt = Null /\ new.session # Null
    BY <1>1, <2>1, <2>2, SecretsDiffer DEF Controller
  <2> HIDE DEF new
  <2>4. TabFits(new) /\ Awaits(new.phase) = "inspect"
    BY <2>3 DEF TabFits, OffersGoogle, Awaits
  <2> QED
    BY <2>3, <2>4 DEF new
<1>2. CASE answer.status = "required" /\ KeepsAttempt(T)
  BY <1>2 DEF Inspected
<1>3. CASE answer.status = "required" /\ ~ KeepsAttempt(T)
  <2> DEFINE phase == IF T.session # Null \/ T.attempted THEN "restart" ELSE "anonymous"
             W == Without(T, phase)
  <2>1. phase \in Phase /\ phase \in {"restart", "anonymous"}
    BY DEF Phase
  <2>2. new = [W EXCEPT !.session = Null]
    BY <1>3 DEF Inspected
  <2> HIDE DEF phase
  <2>3. W \in Controller /\ W.active /\ W.phase = phase /\ W.attempt = Null
    BY <2>1, NewStates
  <2> HIDE DEF W
  <2>4. /\ new \in Controller /\ new.active /\ new.phase = phase
        /\ new.attempt = Null /\ new.session = Null
    BY <2>2, <2>3 DEF Controller
  <2> HIDE DEF new
  <2>5. TabFits(new) /\ Awaits(new.phase) = "inspect"
    BY <2>1, <2>4 DEF TabFits, OffersGoogle, Awaits
  <2> QED
    BY <2>4, <2>5 DEF new
<1>4. CASE answer.status \notin {"ok", "required"}
  <2> DEFINE status == answer.status
  <2>1. new = Failed(T, status)
    BY <1>4 DEF Inspected
  <2> HIDE DEF new, status
  <2> QED
    BY <2>1, FailedFits DEF new
<1> QED
  BY <1>1, <1>2, <1>3, <1>4

LEMMA HearInspectInv ==
    ASSUME IInv, NEW c \in Calls, calls[c].stage # "Idle", calls[c].kind = "inspect",
           NEW in, Muted(in, c), NEW answer, AnswerFits(calls[c], answer),
           HearInspect(c, answer, in),
           jar' \in Cookies, UNCHANGED <<serverVars, bound>>
    PROVE  IInv'
<1> DEFINE t == calls[c].tab
           T == IF Applies(c) THEN Inspected(tabs[t], answer) ELSE tabs[t]
           new == IF calls[c].fresh /\ calls[c].then = "login" /\ T.phase = "anonymous"
                  THEN In(T, "restart") ELSE T
<1>1. calls[c] \in Call /\ CallWell(calls[c])
  BY CallOf
<1>2. t \in Tabs /\ tabs[t] \in Controller /\ TabFits(tabs[t])
  BY <1>1 DEF Call, IInv, TypeOK, TabsFit
<1>3. tabs' = [tabs EXCEPT ![t] = new] /\ calls' = in
  BY <1>2 DEF HearInspect, IInv, TypeOK
<1>4. RestOK'
  <2>1. UNCHANGED spent
    BY DEF HearInspect
  <2>2. \/ UNCHANGED signedOut
        \/ /\ calls[c].then = "logout"
           /\ signedOut' = [signedOut EXCEPT ![t] = @ \cup {calls[c].subject}]
    BY DEF HearInspect
  <2>3. calls[c].then = "logout" => calls[c].subject \in Sessions
    BY <1>1 DEF CallWell
  <2>4. signedOut' \in [Tabs -> SUBSET Sessions]
    BY <1>2, <2>2, <2>3 DEF IInv, TypeOK
  <2> QED
    BY <2>1, <2>4 DEF IInv, TypeOK, RestOK, serverVars
<1>5. CASE ~ calls[c].fresh
  <2>1. new = tabs[t]
    BY <1>5 DEF Applies
  <2>2. Ready(calls', t) /\ OwnFit(calls', t, tabs[t])
    BY <1>2, <1>3, <1>5, MutedReady
  <2> QED
    BY <1>2, <1>3, <1>4, <2>1, <2>2, TabStep
<1>6. CASE calls[c].fresh
  <2>1. IsHeard(calls[c])
    BY <1>6 DEF IsHeard
  <2>2. tabs[t].active /\ Awaits(tabs[t].phase) = "inspect"
    BY <1>2, <2>1, MutedHeard
  <2>3. answer.status = "ok" => answer.value \in Sessions
    BY DEF AnswerFits
  <2>4. T \in Controller /\ TabFits(T) /\ T.active /\ Awaits(T.phase) = "inspect"
    BY <1>2, <2>2, <2>3, InspectedFits
  <2> HIDE DEF T
  <2>5. CASE new = T
    BY <1>2, <1>3, <1>4, <2>1, <2>4, <2>5, HeardStep
  <2>6. CASE new = In(T, "restart") /\ T.phase = "anonymous"
    <3> DEFINE R == In(T, "restart")
    <3>1. "restart" \in Phase
      BY DEF Phase
    <3>2. /\ R \in Controller /\ R.phase = "restart" /\ R.active
          /\ R.attempt = T.attempt /\ R.session = T.session
      BY <2>4, <3>1, NewStates
    <3> HIDE DEF R
    <3>3. TabFits(R) /\ Awaits(R.phase) = "inspect"
      BY <2>4, <2>6, <3>2 DEF TabFits, OffersGoogle, Awaits
    <3>4. new = R
      BY <2>6 DEF R
    <3> QED
      BY <1>2, <1>3, <1>4, <2>1, <3>2, <3>3, <3>4, HeardStep
  <2> QED
    BY <2>5, <2>6
<1> QED
  BY <1>5, <1>6

LEMMA HearBeginInv ==
    ASSUME IInv, NEW c \in Calls, IsHeard(calls[c]), calls[c].kind = "begin",
           NEW in, Muted(in, c), NEW d \in Calls, NEW cookies \in Cookies,
           NEW answer, AnswerFits(calls[c], answer),
           HearBegin(c, answer, in, d, cookies),
           jar' \in Cookies, UNCHANGED <<serverVars, bound>>
    PROVE  IInv'
<1> DEFINE t == calls[c].tab
           a == answer.value
<1>1. t \in Tabs
  BY CallOf DEF IsHeard, Call
<1>2. /\ tabs[t] \in Controller /\ TabFits(tabs[t])
      /\ tabs[t].active /\ calls[c].kind = Awaits(tabs[t].phase)
      /\ OnlyInspections(in, t) /\ Ready(in, t)
  BY <1>1, MutedHeard, MutedReady DEF IInv, TypeOK, TabsFit
<1>3. tabs[t].attempt = Null /\ tabs[t].session = Null
  BY <1>2 DEF TabFits, Awaits, OffersGoogle
<1>4. answer.status = "ok" => a \in Attempts
  BY DEF AnswerFits
<1>5. RestOK'
  <2>1. spent' \subseteq Attempts
    BY <1>4 DEF HearBegin, IInv, TypeOK
  <2>2. UNCHANGED signedOut
    BY DEF HearBegin
  <2> QED
    BY <2>1, <2>2 DEF IInv, TypeOK, RestOK, serverVars
<1>6. CASE /\ answer.status = "ok"
           /\ tabs' = [tabs EXCEPT ![t] =
                  [In(@, "google") EXCEPT !.attempt = a, !.attempted = TRUE]]
           /\ calls' = in
  <2> DEFINE G == In(tabs[t], "google")
             T == [G EXCEPT !.attempt = a, !.attempted = TRUE]
  <2>1. "google" \in Phase
    BY DEF Phase
  <2>2. G \in Controller /\ G.active /\ G.phase = "google" /\ G.session = Null
    BY <1>2, <1>3, <2>1, NewStates
  <2>3. tabs' = [tabs EXCEPT ![t] = T]
    BY <1>1, <1>6 DEF IInv, TypeOK
  <2> HIDE DEF G
  <2>4. /\ T \in Controller /\ T.active /\ T.phase = "google"
        /\ T.attempt # Null /\ T.session = Null
    BY <1>4, <1>6, <2>2, SecretsDiffer DEF Controller
  <2> HIDE DEF T
  <2>5. TabFits(T) /\ Awaits(T.phase) = "inspect"
    BY <2>4 DEF TabFits, OffersGoogle, Awaits
  <2> QED
    BY <1>1, <1>5, <1>6, <2>3, <2>4, <2>5, HeardStep
<1>7. CASE /\ tabs' = [tabs EXCEPT ![t] = [Without(@, "restart") EXCEPT !.attempted = TRUE]]
           /\ calls' = Superseded(in, t)
  <2> DEFINE W == Without(tabs[t], "restart")
             T == [W EXCEPT !.attempted = TRUE]
  <2>1. "restart" \in Phase
    BY DEF Phase
  <2>2. /\ W \in Controller /\ W.active /\ W.phase = "restart"
        /\ W.attempt = Null /\ W.session = Null
    BY <1>2, <1>3, <2>1, NewStates
  <2>3. tabs' = [tabs EXCEPT ![t] = T]
    BY <1>1, <1>7 DEF IInv, TypeOK
  <2> HIDE DEF W
  <2>4. /\ T \in Controller /\ T.active /\ T.phase = "restart"
        /\ T.attempt = Null /\ T.session = Null
    BY <2>2 DEF Controller
  <2> HIDE DEF T
  <2>5. TabFits(T)
    BY <2>4 DEF TabFits, OffersGoogle
  <2>6. Ready(calls', t) /\ OwnFit(calls', t, T)
    BY <1>2, <1>7, AfterSuperseded
  <2> QED
    BY <1>1, <1>5, <2>3, <2>4, <2>5, <2>6, TabStep
<1>8. CASE CheckAgain(c, in, d, "nothing", cookies)
  <2> DEFINE then == "nothing"
  <2>1. CheckAgain(c, in, d, then, cookies)
    BY <1>8
  <2>2. then \in {"login", "logout", "nothing"} /\ then # "logout"
    OBVIOUS
  <2> HIDE DEF then
  <2> QED
    BY <1>5, <2>1, <2>2, CheckAgainStep
<1>9. CASE Fail(c, answer, in)
  BY <1>5, <1>9, FailStep
<1> QED
  BY <1>6, <1>7, <1>8, <1>9 DEF HearBegin

LEMMA HearLoginInv ==
    ASSUME IInv, NEW c \in Calls, IsHeard(calls[c]), calls[c].kind = "login",
           NEW in, Muted(in, c), NEW d \in Calls, NEW cookies \in Cookies,
           NEW answer, HearLogin(c, answer, in, d, cookies),
           jar' \in Cookies, UNCHANGED <<serverVars, bound>>
    PROVE  IInv'
<1> DEFINE then == "login"
<1>1. RestOK'
  BY DEF HearLogin, IInv, TypeOK, RestOK, serverVars
<1>2. CheckAgain(c, in, d, then, cookies) \/ Fail(c, answer, in)
  BY DEF HearLogin
<1>3. then \in {"login", "logout", "nothing"} /\ then # "logout"
  OBVIOUS
<1> HIDE DEF then
<1> QED
  BY <1>1, <1>2, <1>3, CheckAgainStep, FailStep

LEMMA HearLogoutInv ==
    ASSUME IInv, NEW c \in Calls, IsHeard(calls[c]), calls[c].kind = "logout",
           NEW in, Muted(in, c), NEW d \in Calls, NEW cookies \in Cookies,
           NEW answer, HearLogout(c, answer, in, d, cookies),
           jar' \in Cookies, UNCHANGED <<serverVars, bound>>
    PROVE  IInv'
<1> DEFINE t == calls[c].tab
           then == "logout"
<1>1. t \in Tabs /\ calls[c].subject \in Sessions
  BY CallOf DEF IsHeard, Call, CallWell
<1>2. /\ tabs[t] \in Controller /\ TabFits(tabs[t])
      /\ tabs[t].active /\ calls[c].kind = Awaits(tabs[t].phase)
  BY <1>1, MutedHeard DEF IInv, TypeOK, TabsFit
<1>3. tabs[t].attempt = Null
  BY <1>2 DEF TabFits, Awaits, OffersGoogle
<1>4. RestOK'
  <2>1. \/ UNCHANGED signedOut
        \/ signedOut' = [signedOut EXCEPT ![t] = @ \cup {calls[c].subject}]
    BY DEF HearLogout
  <2>2. signedOut' \in [Tabs -> SUBSET Sessions] /\ UNCHANGED spent
    BY <1>1, <2>1 DEF HearLogout, IInv, TypeOK
  <2> QED
    BY <2>2 DEF IInv, TypeOK, RestOK, serverVars
<1>5. CASE /\ tabs' = [tabs EXCEPT ![t] = [In(@, "restart") EXCEPT !.session = Null]]
           /\ calls' = in
  <2> DEFINE R == In(tabs[t], "restart")
             T == [R EXCEPT !.session = Null]
  <2>1. "restart" \in Phase
    BY DEF Phase
  <2>2. R \in Controller /\ R.active /\ R.phase = "restart" /\ R.attempt = Null
    BY <1>2, <1>3, <2>1, NewStates
  <2>3. tabs' = [tabs EXCEPT ![t] = T]
    BY <1>1, <1>5 DEF IInv, TypeOK
  <2> HIDE DEF R
  <2>4. /\ T \in Controller /\ T.active /\ T.phase = "restart"
        /\ T.attempt = Null /\ T.session = Null
    BY <2>2 DEF Controller
  <2> HIDE DEF T
  <2>5. TabFits(T) /\ Awaits(T.phase) = "inspect"
    BY <2>4 DEF TabFits, OffersGoogle, Awaits
  <2> QED
    BY <1>1, <1>4, <1>5, <2>3, <2>4, <2>5, HeardStep
<1>6. CASE Fail(c, answer, in)
  BY <1>4, <1>6, FailStep
<1>7. CASE CheckAgain(c, in, d, then, cookies)
  <2>1. then \in {"login", "logout", "nothing"} /\ calls[c].kind # "inspect"
    OBVIOUS
  <2> HIDE DEF then
  <2> QED
    BY <1>4, <1>7, <2>1, CheckAgainStep
<1> QED
  BY <1>5, <1>6, <1>7 DEF HearLogout

LEMMA HearInv ==
    ASSUME IInv, NEW c \in Calls, calls[c].stage # "Idle",
           NEW in, Muted(in, c), NEW d \in Calls, NEW cookies \in Cookies,
           NEW answer, AnswerFits(calls[c], answer), Hear(c, answer, in, d, cookies),
           jar' \in Cookies, UNCHANGED <<serverVars, bound>>
    PROVE  IInv'
<1>1. CASE calls[c].kind # "inspect" /\ ~ IsCurrent(c) /\ calls' = in
           /\ UNCHANGED <<tabs, spent, signedOut>>
  <2> DEFINE t == calls[c].tab
  <2>1. t \in Tabs
    BY CallOf DEF Call
  <2>2. tabs[t] \in Controller /\ TabFits(tabs[t]) /\ tabs' = [tabs EXCEPT ![t] = tabs[t]]
    BY <1>1, <2>1 DEF IInv, TypeOK, TabsFit
  <2>3. Ready(calls', t) /\ OwnFit(calls', t, tabs[t])
    BY <1>1, <2>1, MutedReady DEF IsCurrent
  <2>4. RestOK'
    BY <1>1 DEF IInv, TypeOK, RestOK, serverVars
  <2> QED
    BY <2>1, <2>2, <2>3, <2>4, TabStep
<1>2. IsCurrent(c) => IsHeard(calls[c])
  BY DEF IsCurrent, IsHeard
<1> QED
  BY <1>1, <1>2, HearInspectInv, HearBeginInv, HearLoginInv, HearLogoutInv DEF Hear

LEMMA FinishedMuted ==
    ASSUME IInv, NEW c \in Calls
    PROVE  Muted(Finished(c), c)
<1>1. calls \in AllCalls
  BY DEF IInv, TypeOK, AllCalls
<1>2. CallWell(Idle) /\ ~ IsHeard(Idle)
  BY DEF CallWell, IsHeard, Idle
<1> QED
  BY <1>1, <1>2 DEF Finished, Muted, AllCalls

LEMMA ReceiveInv ==
    ASSUME IInv, NEW c \in Calls, Receive(c)
    PROVE  IInv'
<1> DEFINE answer == calls[c].answer
           in == Finished(c)
           cookies == [attempt |-> SetCookie(jar.attempt, answer.setAttempt),
                       session |-> SetCookie(jar.session, answer.setSession)]
<1>1. calls[c].stage = "Answered" /\ calls[c] \in Call /\ CallWell(calls[c])
  BY CallOf DEF Receive
<1>2. AnswerFits(calls[c], answer)
  BY <1>1 DEF CallWell, AnswerFits
<1>3. cookies \in Cookies
  <2>1. answer.setAttempt \in Attempts \cup {Null, Erase}
        /\ answer.setSession \in Sessions \cup {Null, Erase}
    BY <1>2 DEF AnswerFits, Answer
  <2>2. jar.attempt \in Attempts \cup {Null} /\ jar.session \in Sessions \cup {Null}
    BY DEF IInv, TypeOK, Cookies
  <2>3. /\ SetCookie(jar.attempt, answer.setAttempt) \in Attempts \cup {Null}
        /\ SetCookie(jar.session, answer.setSession) \in Sessions \cup {Null}
    BY <2>1, <2>2 DEF SetCookie
  <2> QED
    BY <2>3 DEF Cookies
<1>4. /\ jar' = cookies
      /\ Hear(c, answer, in, c, jar')
      /\ UNCHANGED <<serverVars, bound>>
  BY DEF Receive
<1>5. Muted(in, c) /\ calls[c].stage # "Idle"
  BY <1>1, FinishedMuted
<1> HIDE DEF answer, in, cookies
<1>6. jar' \in Cookies
  BY <1>3, <1>4
<1> QED
  BY <1>2, <1>4, <1>5, <1>6, HearInv

\* Nothing comes back.
LEMMA SilenceInv ==
    ASSUME IInv, NEW c \in Calls, calls[c].stage # "Idle",
           NEW in, Muted(in, c), NEW d \in Calls,
           Hear(c, Reply("unavailable"), in, d, jar),
           UNCHANGED <<serverVars, jar, bound>>
    PROVE  IInv'
<1> DEFINE status == "unavailable"
           answer == Reply(status)
<1>1. AnswerFits(calls[c], answer)
  BY ReplyFits
<1>2. jar \in Cookies /\ jar' \in Cookies
  BY DEF IInv, TypeOK
<1>3. Hear(c, answer, in, d, jar)
  OBVIOUS
<1> HIDE DEF status, answer
<1> QED
  BY <1>1, <1>2, <1>3, HearInv

LEMMA LoseInv ==
    ASSUME IInv, NEW c \in Calls, Lose(c)
    PROVE  IInv'
  BY FinishedMuted, SilenceInv DEF Lose

LEMMA GiveUpInv ==
    ASSUME IInv, NEW c \in Calls, NEW d \in Calls, GiveUp(c, d)
    PROVE  IInv'
<1> DEFINE in == [calls EXCEPT ![c] = Abandoned(@)]
<1>1. calls[c].stage # "Idle" /\ calls[c] \in Call /\ CallWell(calls[c])
      /\ calls \in AllCalls
  BY CallOf DEF GiveUp, IInv, TypeOK, AllCalls
<1>2. in \in AllCalls /\ in[c] = Abandoned(calls[c])
      /\ \A e \in Calls : e # c => in[e] = calls[e]
  BY <1>1, AbandonedCall DEF AllCalls
<1>3. Hear(c, Reply("unavailable"), in, d, jar) /\ UNCHANGED <<serverVars, jar, bound>>
  BY DEF GiveUp
<1> HIDE DEF in
<1>4. Muted(in, c)
  BY <1>1, <1>2, AbandonedCall DEF Muted
<1> QED
  BY <1>1, <1>3, <1>4, SilenceInv

-----------------------------------------------------------------------------
(* The theorems *)

LEMMA InitInv == Init => IInv
<1> SUFFICES ASSUME Init
             PROVE  IInv
  OBVIOUS
<1>1. TypeOK
  BY DEF Init, TypeOK, Cookies, Controller, Phase
<1>2. TabsFit
  BY DEF Init, TabsFit, TabFits
<1>3. CallsFit /\ CallsWell /\ OneHeard
  BY DEF Init, CallsFit, CallFits, CallsWell, CallWell, OneHeard, IsHeard, Idle
<1> QED
  BY <1>1, <1>2, <1>3 DEF IInv

LEMMA NextInv == IInv /\ [Next]_vars => IInv'
<1> SUFFICES ASSUME IInv, [Next]_vars
             PROVE  IInv'
  OBVIOUS
<1>1. Focus => IInv'
  BY RefreshInv DEF Focus
<1>2. ASSUME NEW t \in Tabs, User(t)
      PROVE  IInv'
  BY <1>2, StartInv, PressBeginInv, CredentialInv, LogoutInv, StopInv, ReloadInv,
     ClickGoogleInv, CancelInv DEF User
<1>3. ASSUME NEW t \in Tabs, Page(t)
      PROVE  IInv'
  BY <1>3, MountGoogleInv, GoogleUnavailableInv, CheckExpiryInv, CoolDownInv DEF Page
<1>4. Network => IInv'
  BY ServeInv, ReceiveInv, LoseInv, GiveUpInv DEF Network, Return
<1>5. Time /\ UNCHANGED tabVars => IInv'
  BY TimeInv
<1>6. UNCHANGED vars => IInv'
  BY DEF vars, serverVars, tabVars, IInv, TypeOK, TabsFit, CallsFit, CallsWell, OneHeard
<1> QED
  BY <1>1, <1>2, <1>3, <1>4, <1>5, <1>6 DEF Next

LEMMA Invariance == Spec => []IInv
  BY InitInv, NextInv, PTL DEF Spec

\* The login page and the server keep the types of their state, for any number of
\* tabs and calls.
THEOREM TypeCorrect == Spec => []TypeOK
<1>1. IInv => TypeOK
  BY DEF IInv
<1> QED
  BY <1>1, Invariance, PTL

\* However the answers to any number of calls are delayed, lost or reordered, a tab
\* never shows something else than what it holds.
THEOREM ViewsFitSecrets == Spec => []PhaseMatchesSecrets
<1>1. IInv => PhaseMatchesSecrets
  BY DEF IInv, TabsFit, TabFits, PhaseMatchesSecrets
<1> QED
  BY <1>1, Invariance, PTL

-----------------------------------------------------------------------------
(* Sessions                                                                *)

\* The session s has ended, or its cookie is gone.
Over(s) == sessions[s].state = "ended" \/ jar.session # s

\* The session s exists, and no answer under way brings its cookie.
Carries(call, s) == call.stage = "Answered" /\ call.answer.setSession = s
Stays(s) == s \in DOMAIN sessions /\ \A c \in Calls : ~ Carries(calls[c], s)

\* Who knows of a session.
IsSignOut(call) == call.kind = "logout" \/ call.then = "logout"
Finds(call, s) ==
    /\ call.stage = "Answered" /\ call.kind = "inspect"
    /\ call.answer.status = "ok" /\ call.answer.value = s
Tells(call, s) ==
    /\ call.stage # "Idle"
    /\ \/ call.cookies.session = s
       \/ IsSignOut(call) /\ call.subject = s
       \/ Finds(call, s)
IsKnown(s) ==
    \/ jar.session = s
    \/ \E t \in Tabs : tabs[t].session = s \/ s \in signedOut[t]
    \/ \E c \in Calls : Tells(calls[c], s)

\* Whatever is known of was brought to the browser, and is brought to it once.
KnownStay == \A s \in Sessions : IsKnown(s) => Stays(s)
CarriedOnce ==
    \A c \in Calls, s \in Sessions : Carries(calls[c], s) =>
        s \in DOMAIN sessions /\ \A d \in Calls : Carries(calls[d], s) => d = c

\* An inspection whose answer will be applied; there is one for each tab.
IsLatest(call) == IsHeard(call) /\ call.latest /\ call.kind = "inspect"
OneLatest ==
    \A c, d \in Calls :
        IsLatest(calls[c]) /\ IsLatest(calls[d]) /\ calls[c].tab = calls[d].tab => c = d

\* It will show the session s, or may find that it is gone.
Shows(call, s) ==
    \/ call.stage = "Sent" /\ call.cookies.session = s /\ sessions[s].state = "active"
    \/ Finds(call, s)
Drops(call, s) ==
    \/ call.stage = "Sent" /\ call.cookies.session # s
    \/ call.stage = "Answered" /\ call.answer.status = "required"
    \/ /\ call.stage = "Answered" /\ call.answer.status = "ok" /\ call.answer.value # s

\* The session s is over, and tab t will not be told otherwise.
Unheard(t) == \A c \in Calls : IsLatest(calls[c]) => calls[c].tab # t
Gone(t, s) ==
    /\ Over(s)
    /\ \A c \in Calls : IsLatest(calls[c]) /\ calls[c].tab = t => ~ Shows(calls[c], s)

\* What a tab will be told of a session is true when it is told.
InspectionsAreTrue ==
    \A c \in Calls, s \in Sessions :
        (/\ IsLatest(calls[c])
         /\ tabs[calls[c].tab].session = s
         /\ Drops(calls[c], s)) => Over(s)
LogoutsAreTrue ==
    \A c \in Calls, s \in Sessions :
        (calls[c].stage # "Idle" /\ calls[c].kind = "logout" /\ calls[c].subject = s) =>
            /\ calls[c].stage = "Sent" /\ calls[c].cookies.session # s => Over(s)
            /\ calls[c].stage = "Answered" /\ calls[c].answer.status = "ok" => Over(s)
            /\ calls[c].fresh => tabs[calls[c].tab].session = s

\* An inspection after a sign-out is about the session the tab still holds.
SignOutsAreFollowed ==
    \A c \in Calls, t \in Tabs, s \in Sessions :
        (/\ IsHeard(calls[c])
         /\ calls[c].tab = t
         /\ calls[c].kind = "inspect" /\ calls[c].then = "logout"
         /\ calls[c].subject = s) => tabs[t].session = s \/ Gone(t, s)

SignedOutAreGone ==
    \A t \in Tabs : \A s \in signedOut[t] :
        Gone(t, s) /\ (tabs[t].phase = "authenticated" => tabs[t].session # s)

SessionsInv ==
    /\ KnownStay
    /\ CarriedOnce
    /\ OneLatest
    /\ InspectionsAreTrue
    /\ LogoutsAreTrue
    /\ SignOutsAreFollowed
    /\ SignedOutAreGone

-----------------------------------------------------------------------------
(* Attempts                                                                *)

Offers(call, a) ==
    /\ call.stage = "Answered" /\ call.kind = "begin"
    /\ call.answer.status = "ok" /\ call.answer.value = a

\* An attempt is offered to, or held by, one tab, until it is spent.
AttemptsInv ==
    /\ spent \subseteq DOMAIN attempts
    /\ \A t \in Tabs : tabs[t].attempt # Null =>
          /\ tabs[t].attempt \in DOMAIN attempts \ spent
          /\ \A u \in Tabs : tabs[u].attempt = tabs[t].attempt => u = t
    /\ \A c \in Calls, a \in Attempts : Offers(calls[c], a) =>
          /\ a \in DOMAIN attempts \ spent
          /\ \A t \in Tabs : tabs[t].attempt # a
          /\ \A d \in Calls : Offers(calls[d], a) => d = c

-----------------------------------------------------------------------------
(* What a step does to the calls, the tabs and the records.                *)

\* The call is as it was, but fewer may listen to it.
IsQuieter(old, new) ==
    /\ old.stage # "Idle"
    /\ new.stage = old.stage /\ new.kind = old.kind /\ new.tab = old.tab
    /\ new.subject = old.subject /\ new.cookies = old.cookies /\ new.answer = old.answer
    /\ new.fresh => old.fresh
    /\ new.latest => old.latest
    /\ new.then = "logout" => old.then = "logout"

\* The call c is a new one.
IsOpened(c) ==
    LET call == calls'[c]
    IN  /\ call.stage = "Sent"
        /\ call.cookies.session = jar'.session
        /\ call.kind = "inspect" =>
               \A d \in Calls \ {c} : IsLatest(calls'[d]) => calls'[d].tab # call.tab
        /\ IsSignOut(call) => /\ call.subject = tabs'[call.tab].session
                              /\ call.subject = tabs[call.tab].session
        /\ call.kind = "login" => call.subject \notin spent

\* What the server answers to call c is true when it is said.
IsTrue(c, answer) ==
    LET kind == calls[c].kind
    IN  /\ \A s \in Sessions : answer.setSession = s =>
               s \notin DOMAIN sessions /\ s \in DOMAIN sessions'
        /\ kind = "inspect" /\ answer.status = "ok" =>
               /\ calls[c].stage = "Sent" /\ SessionActive(c)
               /\ answer.value = calls[c].cookies.session
        /\ kind = "inspect" /\ answer.status = "required" =>
               calls[c].stage = "Sent" /\ ~ SessionActive(c)
        /\ kind = "logout" /\ answer.status = "ok" =>
               \/ sessions'[calls[c].subject].state = "ended"
               \/ calls[c].stage = "Sent" /\ ~ SessionActive(c)
        /\ kind = "begin" /\ answer.status = "ok" =>
               answer.value \notin DOMAIN attempts /\ answer.value \in DOMAIN attempts'
Says(c) == calls'[c].cookies = NoCookies /\ IsTrue(c, calls'[c].answer)

\* The server has worked on call c.
IsServed(c) ==
    /\ calls[c].stage \in {"Sent", "Checked"}
    /\ calls'[c].kind = calls[c].kind /\ calls'[c].tab = calls[c].tab
    /\ calls'[c].subject = calls[c].subject /\ calls'[c].then = calls[c].then
    /\ calls'[c].fresh = calls[c].fresh /\ calls'[c].latest = calls[c].latest
    /\ \A d \in Calls \ {c} : calls'[d] = calls[d]
    /\ \/ /\ calls'[c].stage = "Checked"
          /\ calls[c].kind # "inspect"
          /\ calls'[c].cookies = calls[c].cookies
       \/ calls'[c].stage = "Answered" /\ Says(c)

CallsMove ==
    \A c \in Calls :
        \/ calls'[c].stage = "Idle"
        \/ IsQuieter(calls[c], calls'[c])
        \/ IsOpened(c)
        \/ IsServed(c)

\* A tab takes another session only when it has learnt that its own is over.
SessionMoves(t) ==
    \/ tabs'[t].session = tabs[t].session
    \/ /\ Unheard(t)'
       /\ tabs'[t].phase # "logout"
       /\ tabs'[t].active /\ tabs[t].session # Null => Over(tabs[t].session)
       /\ tabs'[t].session # Null => IsKnown(tabs'[t].session)

ViewMoves(t) ==
    tabs'[t].phase = "authenticated" =>
        /\ signedOut'[t] = signedOut[t]
        /\ \/ tabs[t].phase = "authenticated" /\ tabs'[t].session = tabs[t].session
           \/ \E c \in Calls : /\ IsLatest(calls[c]) /\ calls[c].tab = t
                               /\ Shows(calls[c], tabs'[t].session)

SignOutMoves(t) ==
    \A s \in signedOut'[t] \ signedOut[t] :
        IsKnown(s) /\ Over(s) /\ (Gone(t, s) \/ Unheard(t)')

\* The answer to c has arrived.
IsTaken(c) == calls'[c].stage # "Answered"

AttemptMoves(t) ==
    \/ tabs'[t].attempt \in {tabs[t].attempt, Null}
    \/ /\ spent' = spent
       /\ \E c \in Calls : /\ Offers(calls[c], tabs'[t].attempt)
                           /\ calls[c].tab = t /\ IsTaken(c)

TabsMove ==
    \A t \in Tabs : SessionMoves(t) /\ ViewMoves(t) /\ SignOutMoves(t) /\ AttemptMoves(t)

SpentMoves ==
    \A a \in spent' \ spent :
        \/ \E t \in Tabs : tabs[t].attempt = a /\ tabs'[t].attempt = Null
        \/ /\ \A t \in Tabs : tabs'[t].attempt \in {tabs[t].attempt, Null}
           /\ \E c \in Calls : Offers(calls[c], a) /\ IsTaken(c)

RecordsMove ==
    /\ DOMAIN attempts \subseteq DOMAIN attempts'
    /\ \A s \in DOMAIN sessions :
          s \in DOMAIN sessions' /\ (sessions[s].state = "ended" => sessions'[s].state = "ended")
    /\ \/ jar'.session \in {jar.session, Null}
       \/ \E c \in Calls : Carries(calls[c], jar'.session) /\ IsTaken(c)

Evolves == CallsMove /\ TabsMove /\ SpentMoves /\ RecordsMove

-----------------------------------------------------------------------------
(* Such a step keeps what is known of sessions.                            *)

LEMMA StaysKept ==
    ASSUME CallsMove, RecordsMove, NEW s \in Sessions, Stays(s)
    PROVE  Stays(s)'
<1>1. s \in DOMAIN sessions'
  BY DEF RecordsMove, Stays
<1>2. ASSUME NEW c \in Calls, Carries(calls'[c], s)
      PROVE  FALSE
  <2>1. calls'[c].stage = "Answered" /\ calls'[c].answer.setSession = s
    BY <1>2 DEF Carries
  <2>2. CASE IsQuieter(calls[c], calls'[c])
    BY <2>1, <2>2 DEF IsQuieter, Stays, Carries
  <2>3. CASE IsOpened(c)
    BY <2>1, <2>3 DEF IsOpened
  <2>4. CASE IsServed(c)
    BY <2>1, <2>4 DEF IsServed, Says, IsTrue, Stays
  <2> QED
    BY <2>1, <2>2, <2>3, <2>4 DEF CallsMove
<1> QED
  BY <1>1, <1>2 DEF Stays

LEMMA OverKept ==
    ASSUME RecordsMove, NEW s \in Sessions, Stays(s), Over(s)
    PROVE  Over(s)'
<1>1. CASE sessions[s].state = "ended"
  BY <1>1 DEF RecordsMove, Stays, Over
<1>2. CASE jar.session # s
  <2>1. s # Null
    BY SecretsDiffer
  <2>2. jar'.session # s
    BY <1>2, <2>1 DEF RecordsMove, Stays
  <2> QED
    BY <2>2 DEF Over
<1> QED
  BY <1>1, <1>2 DEF Over

LEMMA CallAfter ==
    ASSUME IInv', NEW c \in Calls, calls'[c].stage # "Idle"
    PROVE  calls'[c] \in Call
  BY DEF IInv, TypeOK, Idle

LEMMA KnownBefore ==
    ASSUME IInv', CallsMove, TabsMove, NEW s \in Sessions, IsKnown(s)'
    PROVE  IsKnown(s) \/ jar'.session = s
<1>0. s # Null
  BY SecretsDiffer
<1>1. ASSUME NEW t \in Tabs, tabs'[t].session = s \/ s \in signedOut'[t]
      PROVE  IsKnown(s)
  <2>1. SessionMoves(t) /\ SignOutMoves(t)
    BY DEF TabsMove
  <2>2. CASE tabs'[t].session = s
    BY <1>0, <2>1, <2>2 DEF SessionMoves, IsKnown
  <2>3. CASE s \in signedOut'[t]
    BY <2>1, <2>3 DEF SignOutMoves, IsKnown
  <2> QED
    BY <1>1, <2>2, <2>3
<1>2. ASSUME NEW c \in Calls, Tells(calls'[c], s)
      PROVE  IsKnown(s) \/ jar'.session = s
  <2>1. calls'[c].stage # "Idle"
    BY <1>2 DEF Tells
  <2>2. CASE IsQuieter(calls[c], calls'[c])
    <3>1. Tells(calls[c], s)
      BY <1>2, <2>2 DEF IsQuieter, Tells, IsSignOut, Finds
    <3> QED
      BY <3>1 DEF IsKnown
  <2>3. CASE IsOpened(c)
    <3>1. calls'[c].tab \in Tabs
      BY <2>1, CallAfter DEF Call
    <3>2. ~ Finds(calls'[c], s)
      BY <2>3 DEF IsOpened, Finds
    <3>3. IsSignOut(calls'[c]) /\ calls'[c].subject = s => IsKnown(s)
      BY <2>3, <3>1 DEF IsOpened, IsKnown
    <3> QED
      BY <1>2, <2>3, <3>2, <3>3 DEF IsOpened, Tells
  <2>4. CASE IsServed(c)
    <3>1. calls[c].stage # "Idle"
      BY <2>4 DEF IsServed
    <3>2. IsSignOut(calls'[c]) /\ calls'[c].subject = s => Tells(calls[c], s)
      BY <2>4, <3>1 DEF IsServed, IsSignOut, Tells
    <3>3. calls'[c].cookies.session = s => Tells(calls[c], s)
      BY <1>0, <2>4, <3>1 DEF IsServed, Says, IsTrue, NoCookies, Tells
    <3>4. Finds(calls'[c], s) => Tells(calls[c], s)
      BY <2>4, <3>1 DEF IsServed, Says, IsTrue, Finds, Tells
    <3> QED
      BY <1>2, <3>2, <3>3, <3>4 DEF Tells, IsKnown
  <2> QED
    BY <2>1, <2>2, <2>3, <2>4 DEF CallsMove
<1> QED
  BY <1>1, <1>2 DEF IsKnown

\* What was over stays over, and no tab is told otherwise later.
LEMMA GoneKept ==
    ASSUME IInv, CallsMove, RecordsMove, NEW s \in Sessions, Stays(s),
           NEW t, Gone(t, s)
    PROVE  Gone(t, s)'
<1>1. Over(s) /\ Over(s)'
  BY OverKept DEF Gone
<1>2. ASSUME NEW c \in Calls, IsLatest(calls'[c]), calls'[c].tab = t, Shows(calls[c], s)'
      PROVE  FALSE
  <2>1. /\ calls'[c].stage # "Idle" /\ calls'[c].fresh /\ calls'[c].latest
        /\ calls'[c].kind = "inspect"
    BY <1>2 DEF IsLatest, IsHeard
  <2>2. sessions'[s].state = "active" => sessions[s].state = "active"
    <3>1. s \in DOMAIN sessions /\ sessions[s].state \in {"active", "ended"}
      BY DEF Stays, IInv, TypeOK
    <3>2. sessions[s].state = "ended" => sessions'[s].state = "ended"
      BY <3>1 DEF RecordsMove
    <3> QED
      BY <3>1, <3>2
  <2>3. CASE IsQuieter(calls[c], calls'[c])
    <3>1. IsLatest(calls[c]) /\ calls[c].tab = t
      BY <1>2, <2>1, <2>3 DEF IsQuieter, IsLatest, IsHeard
    <3>2. Shows(calls[c], s)
      BY <1>2, <2>2, <2>3 DEF IsQuieter, Shows, Finds
    <3> QED
      BY <3>1, <3>2 DEF Gone
  <2>4. CASE IsOpened(c)
    <3>1. jar'.session = s /\ sessions'[s].state = "active"
      BY <1>2, <2>4 DEF IsOpened, Shows, Finds
    <3> QED
      BY <1>1, <3>1 DEF Over
  <2>5. CASE IsServed(c)
    <3>1. IsLatest(calls[c]) /\ calls[c].tab = t /\ calls[c].kind = "inspect"
      BY <1>2, <2>1, <2>5 DEF IsServed, IsLatest, IsHeard
    <3>2. Says(c) /\ calls'[c].stage = "Answered"
      BY <2>5, <3>1 DEF IsServed
    <3>3. Finds(calls'[c], s)
      BY <1>2, <3>2 DEF Shows
    <3>4. calls[c].stage = "Sent" /\ SessionActive(c) /\ s = calls[c].cookies.session
      BY <3>1, <3>2, <3>3 DEF Finds, Says, IsTrue
    <3>5. Shows(calls[c], s)
      BY <3>4 DEF Shows, SessionActive
    <3> QED
      BY <3>1, <3>5 DEF Gone
  <2> QED
    BY <2>1, <2>3, <2>4, <2>5 DEF CallsMove
<1> QED
  BY <1>1, <1>2 DEF Gone

\* A tab that hears of no inspection will not be told otherwise either.
LEMMA GoneUnheard ==
    ASSUME RecordsMove, NEW s \in Sessions, Stays(s), Over(s), NEW t, Unheard(t)'
    PROVE  Gone(t, s)'
  BY OverKept DEF Gone, Unheard

LEMMA KnownStayKept ==
    ASSUME IInv', KnownStay, CarriedOnce, CallsMove, TabsMove, RecordsMove
    PROVE  KnownStay'
<1> SUFFICES ASSUME NEW s \in Sessions, IsKnown(s)'
             PROVE  Stays(s)'
  BY DEF KnownStay
<1>1. CASE IsKnown(s)
  BY <1>1, StaysKept DEF KnownStay
<1>2. CASE ~ IsKnown(s)
  <2>1. s # Null /\ jar'.session = s /\ jar.session # s
    BY <1>2, KnownBefore, SecretsDiffer DEF IsKnown
  <2>2. PICK c \in Calls : Carries(calls[c], s) /\ IsTaken(c)
    BY <2>1 DEF RecordsMove
  <2>3. s \in DOMAIN sessions'
    BY <2>2 DEF CarriedOnce, RecordsMove
  <2>4. ASSUME NEW d \in Calls, Carries(calls'[d], s)
        PROVE  FALSE
    <3>1. calls'[d].stage = "Answered" /\ calls'[d].answer.setSession = s
      BY <2>4 DEF Carries
    <3>2. CASE IsQuieter(calls[d], calls'[d])
      <4>1. Carries(calls[d], s)
        BY <3>1, <3>2 DEF IsQuieter, Carries
      <4>2. d = c
        BY <2>2, <4>1 DEF CarriedOnce
      <4> QED
        BY <2>2, <3>1, <4>2 DEF IsTaken
    <3>3. CASE IsOpened(d)
      BY <3>1, <3>3 DEF IsOpened
    <3>4. CASE IsServed(d)
      <4>1. s \notin DOMAIN sessions
        BY <3>1, <3>4 DEF IsServed, Says, IsTrue
      <4> QED
        BY <2>2, <4>1 DEF CarriedOnce
    <3> QED
      BY <3>1, <3>2, <3>3, <3>4 DEF CallsMove
  <2> QED
    BY <2>3, <2>4 DEF Stays
<1> QED
  BY <1>1, <1>2

LEMMA CarriedOnceKept ==
    ASSUME CarriedOnce, CallsMove, RecordsMove
    PROVE  CarriedOnce'
<1>1. ASSUME NEW c \in Calls, NEW s \in Sessions, Carries(calls'[c], s)
      PROVE  \/ Carries(calls[c], s)
             \/ /\ s \notin DOMAIN sessions /\ s \in DOMAIN sessions'
                /\ \A d \in Calls \ {c} : calls'[d] = calls[d]
  <2>1. calls'[c].stage = "Answered" /\ calls'[c].answer.setSession = s
    BY <1>1 DEF Carries
  <2>2. CASE IsQuieter(calls[c], calls'[c])
    BY <2>1, <2>2 DEF IsQuieter, Carries
  <2>3. CASE IsOpened(c)
    BY <2>1, <2>3 DEF IsOpened
  <2>4. CASE IsServed(c)
    BY <2>1, <2>4 DEF IsServed, Says, IsTrue
  <2> QED
    BY <2>1, <2>2, <2>3, <2>4 DEF CallsMove
<1> SUFFICES ASSUME NEW c \in Calls, NEW s \in Sessions, Carries(calls'[c], s)
             PROVE  /\ s \in DOMAIN sessions'
                    /\ \A d \in Calls : Carries(calls'[d], s) => d = c
  BY DEF CarriedOnce
<1>2. CASE Carries(calls[c], s)
  <2>1. s \in DOMAIN sessions
    BY <1>2 DEF CarriedOnce
  <2>2. ASSUME NEW d \in Calls, Carries(calls'[d], s)
        PROVE  d = c
    BY <1>1, <1>2, <2>1, <2>2 DEF CarriedOnce
  <2> QED
    BY <2>1, <2>2 DEF RecordsMove
<1>3. CASE s \notin DOMAIN sessions /\ s \in DOMAIN sessions'
           /\ \A d \in Calls \ {c} : calls'[d] = calls[d]
  <2>1. ASSUME NEW d \in Calls, Carries(calls'[d], s), d # c
        PROVE  FALSE
    <3>1. Carries(calls[d], s)
      BY <1>3, <2>1
    <3> QED
      BY <1>3, <3>1 DEF CarriedOnce
  <2> QED
    BY <1>3, <2>1
<1> QED
  BY <1>1, <1>2, <1>3

\* A call that will be heard was heard before, or is new.
LEMMA HeardBefore ==
    ASSUME CallsMove, NEW c \in Calls, IsHeard(calls'[c])
    PROVE  \/ /\ IsQuieter(calls[c], calls'[c]) \/ IsServed(c)
              /\ IsHeard(calls[c])
              /\ calls[c].tab = calls'[c].tab /\ calls[c].kind = calls'[c].kind
              /\ calls'[c].latest => calls[c].latest
              /\ calls'[c].subject = calls[c].subject
              /\ calls'[c].then = "logout" => calls[c].then = "logout"
           \/ IsOpened(c)
<1>1. CASE IsQuieter(calls[c], calls'[c])
  BY <1>1 DEF IsQuieter, IsHeard
<1>2. CASE IsServed(c)
  BY <1>2 DEF IsServed, IsHeard
<1> QED
  BY <1>1, <1>2 DEF CallsMove, IsHeard

LEMMA OneLatestKept ==
    ASSUME OneLatest, CallsMove
    PROVE  OneLatest'
<1> SUFFICES ASSUME NEW c \in Calls, NEW d \in Calls, IsLatest(calls'[c]),
                    IsLatest(calls'[d]), calls'[c].tab = calls'[d].tab, c # d
             PROVE  FALSE
  BY DEF OneLatest
<1>1. IsHeard(calls'[c]) /\ IsHeard(calls'[d])
      /\ calls'[c].kind = "inspect" /\ calls'[d].kind = "inspect"
  BY DEF IsLatest
<1>2. ~ IsOpened(c) /\ ~ IsOpened(d)
  BY <1>1 DEF IsOpened
<1>3. /\ IsLatest(calls[c]) /\ IsLatest(calls[d])
      /\ calls[c].tab = calls'[c].tab /\ calls[d].tab = calls'[d].tab
  BY <1>1, <1>2, HeardBefore DEF IsLatest
<1> QED
  BY <1>3 DEF OneLatest

LEMMA InspectionsAreTrueKept ==
    ASSUME IInv, IInv', KnownStay, InspectionsAreTrue, CallsMove, TabsMove, RecordsMove
    PROVE  InspectionsAreTrue'
<1> SUFFICES ASSUME NEW c \in Calls, NEW s \in Sessions, IsLatest(calls'[c]),
                    tabs'[calls'[c].tab].session = s, Drops(calls'[c], s)
             PROVE  Over(s)'
  BY DEF InspectionsAreTrue
<1> DEFINE t == calls'[c].tab
<1>1. IsHeard(calls'[c]) /\ calls'[c].stage # "Idle" /\ calls'[c].kind = "inspect"
  BY DEF IsLatest, IsHeard
<1>2. t \in Tabs
  BY <1>1, CallAfter DEF Call
<1>3. tabs[t].session = s
  BY <1>2 DEF TabsMove, SessionMoves, Unheard
<1>4. Stays(s)
  BY <1>2, <1>3 DEF KnownStay, IsKnown
<1>5. CASE IsOpened(c)
  BY <1>5 DEF IsOpened, Drops, Over
<1>6. CASE IsQuieter(calls[c], calls'[c])
  <2>1. IsLatest(calls[c]) /\ calls[c].tab = t /\ Drops(calls[c], s)
    BY <1>1, <1>6 DEF IsQuieter, IsLatest, IsHeard, Drops
  <2>2. Over(s)
    BY <1>3, <2>1 DEF InspectionsAreTrue
  <2> QED
    BY <1>4, <2>2, OverKept
<1>7. CASE IsServed(c)
  <2>1. IsLatest(calls[c]) /\ calls[c].tab = t /\ calls[c].kind = "inspect"
    BY <1>1, <1>7 DEF IsServed, IsLatest, IsHeard
  <2>2. Says(c) /\ calls'[c].stage = "Answered" /\ calls[c].stage = "Sent"
    BY <1>7, <2>1 DEF IsServed, Says, IsTrue, Drops
  <2>3. CASE calls[c].cookies.session # s
    <3>1. Drops(calls[c], s)
      BY <2>2, <2>3 DEF Drops
    <3>2. Over(s)
      BY <1>3, <2>1, <3>1 DEF InspectionsAreTrue
    <3> QED
      BY <1>4, <3>2, OverKept
  <2>4. CASE calls[c].cookies.session = s
    <3>1. ~ SessionActive(c)
      BY <2>1, <2>2, <2>4 DEF Drops, Says, IsTrue
    <3>2. sessions[s].state = "ended"
      BY <1>4, <2>4, <3>1 DEF Stays, SessionActive, IInv, TypeOK
    <3>3. Over(s)
      BY <3>2 DEF Over
    <3> QED
      BY <1>4, <3>3, OverKept
  <2> QED
    BY <2>3, <2>4
<1> QED
  BY <1>1, <1>5, <1>6, <1>7 DEF CallsMove

LEMMA LogoutsAreTrueKept ==
    ASSUME IInv, IInv', KnownStay, LogoutsAreTrue, CallsMove, TabsMove, RecordsMove
    PROVE  LogoutsAreTrue'
<1> SUFFICES ASSUME NEW c \in Calls, NEW s \in Sessions, calls'[c].stage # "Idle",
                    calls'[c].kind = "logout", calls'[c].subject = s
             PROVE  /\ calls'[c].stage = "Sent" /\ calls'[c].cookies.session # s => Over(s)'
                    /\ calls'[c].stage = "Answered" /\ calls'[c].answer.status = "ok"
                           => Over(s)'
                    /\ calls'[c].fresh => tabs'[calls'[c].tab].session = s
  BY DEF LogoutsAreTrue
<1> DEFINE t == calls'[c].tab
<1>1. t \in Tabs
  BY CallAfter DEF Call
<1>2. CASE IsOpened(c)
  BY <1>2 DEF IsOpened, IsSignOut, Over
\* The tab that hears of the sign-out still holds the session.
<1>3. ASSUME calls[c].fresh => tabs[t].session = s,
             calls'[c].fresh => calls[c].fresh
      PROVE  calls'[c].fresh => tabs'[t].session = s
  <2> SUFFICES ASSUME calls'[c].fresh
               PROVE  tabs'[t].session = s
    OBVIOUS
  <2>1. CallFits(calls'[c], tabs'[t]) /\ tabs'[t] \in Controller
    BY <1>1 DEF IInv, TypeOK, CallsFit
  <2>2. tabs'[t].phase = "logout"
    BY <2>1 DEF CallFits, IsHeard, Awaits
  <2> QED
    BY <1>1, <1>3, <2>2 DEF TabsMove, SessionMoves
<1>4. CASE IsQuieter(calls[c], calls'[c])
  <2>1. /\ calls[c].stage # "Idle" /\ calls[c].kind = "logout" /\ calls[c].subject = s
        /\ calls[c].tab = t
    BY <1>4 DEF IsQuieter
  <2>2. Stays(s)
    BY <2>1 DEF KnownStay, IsKnown, Tells, IsSignOut
  <2> QED
    BY <1>3, <1>4, <2>1, <2>2, OverKept DEF IsQuieter, LogoutsAreTrue
<1>5. CASE IsServed(c)
  <2>1. /\ calls[c].stage # "Idle" /\ calls[c].kind = "logout" /\ calls[c].subject = s
        /\ calls[c].tab = t /\ calls'[c].stage # "Sent"
    BY <1>5 DEF IsServed
  <2>2. Stays(s)
    BY <2>1 DEF KnownStay, IsKnown, Tells, IsSignOut
  <2>3. ASSUME calls'[c].stage = "Answered", calls'[c].answer.status = "ok"
        PROVE  Over(s)'
    <3>1. \/ sessions'[s].state = "ended"
          \/ calls[c].stage = "Sent" /\ ~ SessionActive(c)
      BY <1>5, <2>1, <2>3 DEF IsServed, Says, IsTrue
    <3>2. CASE sessions'[s].state = "ended"
      BY <3>2 DEF Over
    <3>3. CASE calls[c].stage = "Sent" /\ calls[c].cookies.session # s
      <4>1. Over(s)
        BY <2>1, <3>3 DEF LogoutsAreTrue
      <4> QED
        BY <2>2, <4>1, OverKept
    <3>4. CASE ~ SessionActive(c) /\ calls[c].cookies.session = s
      <4>1. sessions[s].state = "ended"
        BY <2>2, <3>4 DEF Stays, SessionActive, IInv, TypeOK
      <4>2. Over(s)
        BY <4>1 DEF Over
      <4> QED
        BY <2>2, <4>2, OverKept
    <3> QED
      BY <3>1, <3>2, <3>3, <3>4
  <2>4. (calls[c].fresh => tabs[t].session = s) /\ (calls'[c].fresh => calls[c].fresh)
    BY <1>5, <2>1 DEF IsServed, LogoutsAreTrue
  <2> QED
    BY <1>3, <2>1, <2>3, <2>4
<1> QED
  BY <1>2, <1>4, <1>5 DEF CallsMove

LEMMA SignOutsAreFollowedKept ==
    ASSUME IInv, IInv', KnownStay, SignOutsAreFollowed, CallsMove, TabsMove, RecordsMove
    PROVE  SignOutsAreFollowed'
<1> SUFFICES ASSUME NEW c \in Calls, NEW t \in Tabs, NEW s \in Sessions,
                    IsHeard(calls'[c]), calls'[c].tab = t, calls'[c].kind = "inspect",
                    calls'[c].then = "logout", calls'[c].subject = s
             PROVE  tabs'[t].session = s \/ Gone(t, s)'
  BY DEF SignOutsAreFollowed
<1>1. CASE IsOpened(c)
  BY <1>1 DEF IsOpened, IsSignOut
<1>2. CASE ~ IsOpened(c)
  <2>1. /\ IsHeard(calls[c]) /\ calls[c].tab = t /\ calls[c].kind = "inspect"
        /\ calls[c].then = "logout" /\ calls[c].subject = s
    BY <1>2, HeardBefore DEF IsServed
  <2>2. Stays(s)
    BY <2>1 DEF KnownStay, IsKnown, Tells, IsSignOut, IsHeard
  <2>3. CASE Gone(t, s)
    BY <2>2, <2>3, GoneKept
  <2>4. CASE tabs[t].session = s /\ tabs'[t].session # s
    <3>1. tabs'[t].active
      BY DEF IInv, CallsFit, CallFits
    <3>2. Unheard(t)' /\ Over(s)
      BY <2>4, <3>1, SecretsDiffer DEF TabsMove, SessionMoves
    <3> QED
      BY <2>2, <3>2, GoneUnheard
  <2> QED
    BY <2>1, <2>3, <2>4 DEF SignOutsAreFollowed
<1> QED
  BY <1>1, <1>2

LEMMA SignedOutAreGoneKept ==
    ASSUME IInv, IInv', KnownStay, SignedOutAreGone, CallsMove, TabsMove, RecordsMove
    PROVE  SignedOutAreGone'
<1> SUFFICES ASSUME NEW t \in Tabs, NEW s \in signedOut'[t]
             PROVE  Gone(t, s)' /\ (tabs'[t].phase = "authenticated" => tabs'[t].session # s)
  BY DEF SignedOutAreGone
<1>1. s \in Sessions
  BY DEF IInv, TypeOK
<1>2. ViewMoves(t) /\ SignOutMoves(t)
  BY DEF TabsMove
<1>3. CASE s \in signedOut[t]
  <2>1. Gone(t, s) /\ Stays(s)
    BY <1>1, <1>3 DEF SignedOutAreGone, KnownStay, IsKnown
  <2>2. ASSUME tabs'[t].phase = "authenticated", tabs'[t].session = s
        PROVE  FALSE
    BY <1>2, <1>3, <2>1, <2>2 DEF ViewMoves, SignedOutAreGone, Gone
  <2> QED
    BY <1>1, <2>1, <2>2, GoneKept
<1>4. CASE s \notin signedOut[t]
  <2>1. IsKnown(s) /\ Over(s) /\ (Gone(t, s) \/ Unheard(t)')
    BY <1>2, <1>4 DEF SignOutMoves
  <2>2. Stays(s)
    BY <1>1, <2>1 DEF KnownStay
  <2>3. Gone(t, s)'
    BY <1>1, <2>1, <2>2, GoneKept, GoneUnheard
  <2>4. tabs'[t].phase # "authenticated"
    BY <1>2, <1>4 DEF ViewMoves
  <2> QED
    BY <2>3, <2>4
<1> QED
  BY <1>3, <1>4

LEMMA SessionsKept ==
    ASSUME IInv, IInv', SessionsInv, Evolves
    PROVE  SessionsInv'
<1>1. CallsMove /\ TabsMove /\ RecordsMove
  BY DEF Evolves
<1>2. KnownStay' /\ CarriedOnce' /\ OneLatest'
  BY <1>1, KnownStayKept, CarriedOnceKept, OneLatestKept DEF SessionsInv
<1>3. InspectionsAreTrue' /\ LogoutsAreTrue'
  BY <1>1, InspectionsAreTrueKept, LogoutsAreTrueKept DEF SessionsInv
<1>4. SignOutsAreFollowed' /\ SignedOutAreGone'
  BY <1>1, SignOutsAreFollowedKept, SignedOutAreGoneKept DEF SessionsInv
<1> QED
  BY <1>2, <1>3, <1>4 DEF SessionsInv

\* An attempt is offered by a call that offered it before, or is a new one.
LEMMA OffersBefore ==
    ASSUME CallsMove, NEW c \in Calls, NEW a, Offers(calls'[c], a)
    PROVE  \/ Offers(calls[c], a)
           \/ /\ a \notin DOMAIN attempts /\ a \in DOMAIN attempts'
              /\ \A d \in Calls \ {c} : calls'[d] = calls[d]
<1>1. /\ calls'[c].stage = "Answered" /\ calls'[c].kind = "begin"
      /\ calls'[c].answer.status = "ok" /\ calls'[c].answer.value = a
  BY DEF Offers
<1>2. CASE IsQuieter(calls[c], calls'[c])
  BY <1>1, <1>2 DEF IsQuieter, Offers
<1>3. CASE IsOpened(c)
  BY <1>1, <1>3 DEF IsOpened
<1>4. CASE IsServed(c)
  BY <1>1, <1>4 DEF IsServed, Says, IsTrue
<1> QED
  BY <1>1, <1>2, <1>3, <1>4 DEF CallsMove

LEMMA AttemptsKept ==
    ASSUME IInv, IInv', AttemptsInv, Evolves
    PROVE  AttemptsInv'
<1>1. CallsMove /\ TabsMove /\ SpentMoves /\ DOMAIN attempts \subseteq DOMAIN attempts'
  BY DEF Evolves, RecordsMove
<1>2. /\ Null \notin Attempts
      /\ \A t \in Tabs : tabs'[t].attempt \in Attempts \cup {Null}
      /\ spent' \subseteq Attempts
  BY SecretsDiffer DEF IInv, TypeOK, Controller
\* An attempt that is spent now was held by a tab or offered to one.
<1>3. ASSUME NEW a \in spent' \ spent
      PROVE  a \in DOMAIN attempts
  BY <1>1, <1>2, <1>3 DEF SpentMoves, AttemptsInv
<1>4. spent' \subseteq DOMAIN attempts'
  BY <1>1, <1>3 DEF AttemptsInv
\* A tab keeps its attempt or takes what it is offered.
<1>5. ASSUME NEW t \in Tabs, NEW a \in Attempts, tabs'[t].attempt = a
      PROVE  /\ a \in DOMAIN attempts' \ spent'
             /\ \/ tabs[t].attempt = a
                \/ \E c \in Calls : Offers(calls[c], a) /\ calls[c].tab = t /\ IsTaken(c)
  <2>1. a # Null
    BY <1>2
  <2>2. CASE tabs[t].attempt = a
    <3>1. a \in DOMAIN attempts \ spent
      BY <2>1, <2>2 DEF AttemptsInv
    <3>2. ASSUME a \in spent'
          PROVE  FALSE
      <4>1. \/ \E u \in Tabs : tabs[u].attempt = a /\ tabs'[u].attempt = Null
            \/ \E c \in Calls : Offers(calls[c], a)
        BY <1>1, <3>1, <3>2 DEF SpentMoves
      <4> QED
        BY <1>5, <2>1, <2>2, <4>1 DEF AttemptsInv
    <3> QED
      BY <1>1, <2>2, <3>1, <3>2
  <2>3. CASE tabs[t].attempt # a
    <3>1. spent' = spent
          /\ \E c \in Calls : Offers(calls[c], a) /\ calls[c].tab = t /\ IsTaken(c)
      BY <1>1, <1>5, <2>1, <2>3 DEF TabsMove, AttemptMoves
    <3>2. a \in DOMAIN attempts \ spent
      BY <3>1 DEF AttemptsInv
    <3> QED
      BY <1>1, <3>1, <3>2
  <2> QED
    BY <2>2, <2>3
<1>6. ASSUME NEW t \in Tabs, NEW u \in Tabs, tabs'[t].attempt # Null,
             tabs'[u].attempt = tabs'[t].attempt
      PROVE  u = t
  <2>1. PICK a \in Attempts : tabs'[t].attempt = a /\ tabs'[u].attempt = a /\ a # Null
    BY <1>2, <1>6
  <2>2. /\ \/ tabs[t].attempt = a
           \/ \E c \in Calls : Offers(calls[c], a) /\ calls[c].tab = t
        /\ \/ tabs[u].attempt = a
           \/ \E c \in Calls : Offers(calls[c], a) /\ calls[c].tab = u
    BY <1>5, <2>1
  <2> QED
    BY <2>1, <2>2 DEF AttemptsInv
<1>7. ASSUME NEW c \in Calls, NEW a \in Attempts, Offers(calls'[c], a)
      PROVE  /\ a \in DOMAIN attempts' \ spent'
             /\ \A t \in Tabs : tabs'[t].attempt # a
             /\ \A d \in Calls : Offers(calls'[d], a) => d = c
  <2>0. ~ IsTaken(c)
    BY <1>7 DEF Offers, IsTaken
  <2>1. CASE Offers(calls[c], a)
    <3>1. a \in DOMAIN attempts \ spent /\ \A d \in Calls : Offers(calls[d], a) => d = c
      BY <2>1 DEF AttemptsInv
    <3>2. a \notin spent'
      BY <1>1, <2>0, <2>1, <3>1 DEF SpentMoves, AttemptsInv
    <3>3. ASSUME NEW t \in Tabs
          PROVE  tabs'[t].attempt # a
      BY <1>5, <2>0, <2>1, <3>1 DEF AttemptsInv
    <3>4. ASSUME NEW d \in Calls, Offers(calls'[d], a)
          PROVE  d = c
      BY <1>1, <3>1, <3>4, OffersBefore
    <3> QED
      BY <1>1, <3>1, <3>2, <3>3, <3>4
  <2>2. CASE /\ a \notin DOMAIN attempts /\ a \in DOMAIN attempts'
             /\ \A d \in Calls \ {c} : calls'[d] = calls[d]
    <3>1. a \notin spent'
      BY <1>3, <2>2 DEF AttemptsInv
    <3>2. ASSUME NEW t \in Tabs, tabs'[t].attempt = a
          PROVE  FALSE
      <4>1. tabs[t].attempt = a \/ \E d \in Calls : Offers(calls[d], a)
        BY <1>5, <3>2
      <4> QED
        BY <1>2, <2>2, <4>1 DEF AttemptsInv
    <3>3. ASSUME NEW d \in Calls, Offers(calls'[d], a), d # c
          PROVE  FALSE
      BY <2>2, <3>3 DEF AttemptsInv
    <3> QED
      BY <2>2, <3>1, <3>2, <3>3
  <2> QED
    BY <1>1, <1>7, <2>1, <2>2, OffersBefore
<1> QED
  BY <1>2, <1>4, <1>5, <1>6, <1>7 DEF AttemptsInv

-----------------------------------------------------------------------------
(* Every step evolves so: the calls                                        *)

\* Of the calls from, some are over in to, and the others are no less quiet.
Quieted(from, to) ==
    /\ to \in AllCalls
    /\ \A c \in Calls : to[c].stage = "Idle" \/ IsQuieter(from[c], to[c])

LEMMA QuietedSame ==
    ASSUME NEW in \in AllCalls
    PROVE  Quieted(in, in)
  BY DEF Quieted, IsQuieter

LEMMA QuietedTwice ==
    ASSUME NEW from, NEW in, NEW to, Quieted(from, in), Quieted(in, to)
    PROVE  Quieted(from, to)
  BY DEF Quieted, IsQuieter

LEMMA SupersededQuiet ==
    ASSUME NEW in \in AllCalls, NEW t
    PROVE  /\ Quieted(in, Superseded(in, t))
           /\ \A c \in Calls : Superseded(in, t)[c].stage = in[c].stage
<1>1. Superseded(in, t) \in AllCalls
  BY SupersededCalls
<1> SUFFICES ASSUME NEW c \in Calls
             PROVE  LET call == Superseded(in, t)[c]
                    IN  /\ call.stage = in[c].stage
                        /\ call.stage = "Idle" \/ IsQuieter(in[c], call)
  BY <1>1 DEF Quieted
<1> DEFINE call == Superseded(in, t)[c]
<1>2. CASE in[c].stage = "Idle" \/ in[c].tab # t
  <2>1. call = in[c]
    BY <1>2 DEF Superseded
  <2> QED
    BY <2>1 DEF IsQuieter
<1>3. CASE in[c].stage # "Idle" /\ in[c].tab = t
  <2>1. in[c] \in Call
    BY <1>3, CallCases
  <2>2. call = [in[c] EXCEPT !.fresh = FALSE, !.latest = FALSE, !.then = "nothing"]
    BY <1>3 DEF Superseded
  <2>3. /\ ~ call.fresh /\ ~ call.latest /\ call.then = "nothing"
        /\ call.stage = in[c].stage /\ call.kind = in[c].kind /\ call.tab = in[c].tab
        /\ call.subject = in[c].subject /\ call.answer = in[c].answer
        /\ call.cookies = in[c].cookies
    BY <2>1, <2>2 DEF Call
  <2> HIDE DEF call
  <2>4. call.stage = in[c].stage /\ IsQuieter(in[c], call)
    BY <1>3, <2>3 DEF IsQuieter
  <2> QED
    BY <2>4 DEF call
<1> QED
  BY <1>2, <1>3

LEMMA ReinspectedQuiet ==
    ASSUME NEW in \in AllCalls, NEW t
    PROVE  /\ Quieted(in, Reinspected(in, t))
           /\ \A c \in Calls :
                  /\ Reinspected(in, t)[c].stage = in[c].stage
                  /\ IsLatest(Reinspected(in, t)[c]) => Reinspected(in, t)[c].tab # t
<1>1. Reinspected(in, t) \in AllCalls
  BY ReinspectedCalls
<1> SUFFICES ASSUME NEW c \in Calls
             PROVE  LET call == Reinspected(in, t)[c]
                    IN  /\ call.stage = in[c].stage
                        /\ IsLatest(call) => call.tab # t
                        /\ call.stage = "Idle" \/ IsQuieter(in[c], call)
  BY <1>1 DEF Quieted
<1> DEFINE call == Reinspected(in, t)[c]
<1>2. CASE in[c].stage = "Idle" \/ in[c].tab # t \/ in[c].kind # "inspect"
  <2>1. call = in[c]
    BY <1>2 DEF Reinspected
  <2> QED
    BY <1>2, <2>1 DEF IsQuieter, IsLatest, IsHeard
<1>3. CASE in[c].stage # "Idle" /\ in[c].tab = t /\ in[c].kind = "inspect"
  <2>1. in[c] \in Call
    BY <1>3, CallCases
  <2>2. call = [in[c] EXCEPT !.latest = FALSE]
    BY <1>3 DEF Reinspected
  <2>3. /\ ~ call.latest /\ call.fresh = in[c].fresh /\ call.then = in[c].then
        /\ call.stage = in[c].stage /\ call.kind = in[c].kind /\ call.tab = in[c].tab
        /\ call.subject = in[c].subject /\ call.answer = in[c].answer
        /\ call.cookies = in[c].cookies
    BY <2>1, <2>2 DEF Call
  <2> HIDE DEF call
  <2>4. call.stage = in[c].stage /\ ~ IsLatest(call) /\ IsQuieter(in[c], call)
    BY <1>3, <2>3 DEF IsQuieter, IsLatest
  <2> QED
    BY <2>4 DEF call
<1> QED
  BY <1>2, <1>3

LEMMA AbandonedQuiet ==
    ASSUME NEW call \in Call
    PROVE  Abandoned(call).stage = "Idle" \/ IsQuieter(call, Abandoned(call))
<1>1. CASE call.stage = "Answered"
  BY <1>1 DEF Abandoned, Idle
<1>2. CASE call.stage # "Answered"
  <2> DEFINE new == Abandoned(call)
  <2>1. new = [call EXCEPT !.fresh = FALSE, !.latest = FALSE,
                           !.then = "nothing", !.awaited = FALSE]
    BY <1>2 DEF Abandoned
  <2>2. /\ ~ new.fresh /\ ~ new.latest /\ new.then = "nothing"
        /\ new.stage = call.stage /\ new.kind = call.kind /\ new.tab = call.tab
        /\ new.subject = call.subject /\ new.answer = call.answer
        /\ new.cookies = call.cookies
    BY <2>1 DEF Call
  <2>3. call.stage # "Idle"
    BY DEF Call
  <2> HIDE DEF new
  <2>4. IsQuieter(call, new)
    BY <2>2, <2>3 DEF IsQuieter
  <2> QED
    BY <2>4 DEF new
<1> QED
  BY <1>1, <1>2

LEMMA CallsQuieted ==
    ASSUME Quieted(calls, calls')
    PROVE  CallsMove
  BY DEF Quieted, CallsMove

\* A new call beside quieter ones.
LEMMA CallsSent ==
    ASSUME NEW in, Quieted(calls, in), NEW d \in Calls, NEW t, NEW kind,
           NEW subject, NEW then, NEW cookies,
           calls' = Sent(in, d, t, kind, subject, then, cookies),
           cookies.session = jar'.session,
           kind = "inspect" => \A e \in Calls : IsLatest(in[e]) => in[e].tab # t,
           (kind = "logout" \/ then = "logout") =>
               subject = tabs[t].session /\ subject = tabs'[t].session,
           kind = "login" => subject \notin spent
    PROVE  CallsMove /\ \A e \in Calls : calls'[e].stage = "Answered" => in[e].stage = "Answered"
<1> DEFINE call == [stage |-> "Sent", kind |-> kind, tab |-> t, subject |-> subject,
                    cookies |-> cookies, then |-> then, answer |-> Null,
                    fresh |-> TRUE, latest |-> TRUE, awaited |-> TRUE]
<1>1. in \in AllCalls
  BY DEF Quieted
<1>2. calls' = [in EXCEPT ![d] = call]
  BY DEF Sent
<1>3. calls'[d] = call /\ \A e \in Calls : e # d => calls'[e] = in[e]
  BY <1>1, <1>2 DEF AllCalls
<1>4. /\ call.stage = "Sent" /\ call.kind = kind /\ call.tab = t /\ call.subject = subject
      /\ call.cookies = cookies /\ call.then = then
  OBVIOUS
<1> HIDE DEF call
<1>5. IsOpened(d)
  BY <1>3, <1>4 DEF IsOpened, IsSignOut
<1>6. CallsMove
  BY <1>3, <1>5 DEF CallsMove, Quieted
<1>7. \A e \in Calls : calls'[e].stage = "Answered" => in[e].stage = "Answered"
  BY <1>3, <1>4
<1> QED
  BY <1>6, <1>7

-----------------------------------------------------------------------------
(* Every step evolves so: the user and the page                            *)

LEMMA SameTab ==
    ASSUME NEW u \in Tabs, tabs'[u] = tabs[u], signedOut'[u] = signedOut[u]
    PROVE  SessionMoves(u) /\ ViewMoves(u) /\ SignOutMoves(u) /\ AttemptMoves(u)
  BY DEF SessionMoves, ViewMoves, SignOutMoves, AttemptMoves

LEMMA OneTabMoves ==
    ASSUME IInv, NEW t \in Tabs, NEW T, tabs' = [tabs EXCEPT ![t] = T],
           \A u \in Tabs : u # t => signedOut'[u] = signedOut[u],
           SessionMoves(t), ViewMoves(t), SignOutMoves(t), AttemptMoves(t)
    PROVE  TabsMove
<1>1. \A u \in Tabs : u # t => tabs'[u] = tabs[u]
  BY DEF IInv, TypeOK
<1> QED
  BY <1>1, SameTab DEF TabsMove

\* A tab that keeps its session, and gets no other attempt.
LEMMA KeepingTab ==
    ASSUME IInv, NEW t \in Tabs, NEW T, tabs' = [tabs EXCEPT ![t] = T],
           UNCHANGED signedOut, T.session = tabs[t].session,
           T.phase = "authenticated" => tabs[t].phase = "authenticated",
           T.attempt \in {tabs[t].attempt, Null}
    PROVE  TabsMove
<1>1. tabs'[t] = T
  BY DEF IInv, TypeOK
<1>2. SessionMoves(t) /\ ViewMoves(t) /\ SignOutMoves(t) /\ AttemptMoves(t)
  BY <1>1 DEF SessionMoves, ViewMoves, SignOutMoves, AttemptMoves
<1> QED
  BY <1>2, OneTabMoves

\* A tab that is left.
LEMMA LeavingTab ==
    ASSUME IInv, NEW t \in Tabs, NEW T, tabs' = [tabs EXCEPT ![t] = T],
           UNCHANGED signedOut, Unheard(t)', ~ T.active, T.phase = "checking",
           T.session = Null, T.attempt = Null
    PROVE  TabsMove
<1>1. tabs'[t] = T
  BY DEF IInv, TypeOK
<1>2. SessionMoves(t)
  BY <1>1 DEF SessionMoves
<1>3. ViewMoves(t) /\ SignOutMoves(t) /\ AttemptMoves(t)
  BY <1>1 DEF ViewMoves, SignOutMoves, AttemptMoves
<1> QED
  BY <1>2, <1>3, OneTabMoves

LEMMA SameTabs ==
    ASSUME UNCHANGED <<tabs, signedOut>>
    PROVE  TabsMove
  BY SameTab DEF TabsMove

LEMMA SameRecords ==
    ASSUME UNCHANGED <<serverVars, jar>>
    PROVE  RecordsMove
  BY DEF RecordsMove, serverVars

LEMMA SameSpent ==
    ASSUME UNCHANGED spent
    PROVE  SpentMoves
  BY DEF SpentMoves

\* The actions that change nothing but the calls and one controller.
LEMMA LocalStep ==
    ASSUME UnchangedRest, CallsMove, TabsMove
    PROVE  Evolves
  BY SameRecords, SameSpent DEF Evolves, UnchangedRest

LEMMA CallsTyped == IInv => calls \in AllCalls
  BY DEF IInv, TypeOK, AllCalls

LEMMA NoneLatest ==
    ASSUME IInv, NEW t
    PROVE  /\ Quieted(calls, Superseded(calls, t))
           /\ \A e \in Calls : IsLatest(Superseded(calls, t)[e])
                                   => Superseded(calls, t)[e].tab # t
  BY CallsTyped, SupersededQuiet, SupersededCalls DEF IsLatest

\* A call sent by a tab that hears of no other.
LEMMA SendingMoves ==
    ASSUME IInv, NEW t \in Tabs, NEW d \in Calls, NEW kind, NEW subject,
           calls' = Sent(Superseded(calls, t), d, t, kind, subject, "nothing", jar),
           UNCHANGED jar,
           kind = "logout" => subject = tabs[t].session /\ subject = tabs'[t].session,
           kind = "login" => subject \notin spent
    PROVE  CallsMove
<1> DEFINE then == "nothing"
<1>1. /\ calls' = Sent(Superseded(calls, t), d, t, kind, subject, then, jar)
      /\ then # "logout" /\ jar.session = jar'.session
  OBVIOUS
<1> HIDE DEF then
<1> QED
  BY <1>1, NoneLatest, CallsSent

LEMMA StartEvolves ==
    ASSUME IInv, NEW t \in Tabs, NEW d \in Calls, Start(t, d)
    PROVE  Evolves
<1> DEFINE old == tabs[t]
           kind == "inspect"
<1>1. PICK attempted \in {old.attempted, FALSE} :
          tabs' = [tabs EXCEPT ![t] =
               [In(old, "checking") EXCEPT !.active = TRUE, !.attempted = attempted]]
  BY DEF Start, IInv, TypeOK
<1> DEFINE T == [In(old, "checking") EXCEPT !.active = TRUE, !.attempted = attempted]
<1>2. old \in Controller
  BY DEF IInv, TypeOK
<1>3. T.session = old.session /\ T.phase = "checking" /\ T.attempt = old.attempt
  BY <1>2 DEF In, Controller
<1>4. tabs' = [tabs EXCEPT ![t] = T]
  BY <1>1
<1> HIDE DEF T
<1>5. TabsMove
  BY <1>3, <1>4, KeepingTab DEF Start, UnchangedRest
<1>6. /\ calls' = Sent(Superseded(calls, t), d, t, kind, Null, "nothing", jar)
      /\ kind # "logout" /\ kind # "login" /\ UNCHANGED jar
  BY DEF Start, UnchangedRest
<1> HIDE DEF kind
<1>7. CallsMove
  BY <1>6, SendingMoves
<1> QED
  BY <1>5, <1>7, LocalStep DEF Start

LEMMA StopEvolves ==
    ASSUME IInv, NEW t \in Tabs, Stop(t)
    PROVE  Evolves
<1> DEFINE W == Without(tabs[t], "checking")
           T == [W EXCEPT !.active = FALSE, !.session = Null]
<1>1. tabs[t] \in Controller /\ "checking" \in Phase
  BY DEF IInv, TypeOK, Phase
<1>2. W \in Controller /\ W.attempt = Null /\ W.phase = "checking"
  BY <1>1, NewStates
<1>3. tabs' = [tabs EXCEPT ![t] = T] /\ calls' = Superseded(calls, t)
  BY <1>1 DEF Stop, IInv, TypeOK
<1> HIDE DEF W
<1>4. T.active = FALSE /\ T.phase = "checking" /\ T.session = Null /\ T.attempt = Null
  BY <1>2 DEF Controller
<1> HIDE DEF T
<1>5. CallsMove /\ Unheard(t)'
  BY <1>3, NoneLatest, CallsQuieted DEF Unheard
<1>6. TabsMove
  BY <1>3, <1>4, <1>5, LeavingTab DEF Stop, UnchangedRest
<1> QED
  BY <1>5, <1>6, LocalStep DEF Stop

LEMMA ReloadEvolves ==
    ASSUME IInv, IInv', NEW t \in Tabs, Reload(t)
    PROVE  Evolves
<1> DEFINE T == [active |-> FALSE, phase |-> "checking", cooling |-> FALSE,
                 attempt |-> Null, session |-> Null, attempted |-> FALSE]
<1>1. ASSUME NEW c \in Calls
      PROVE  /\ calls'[c].stage = "Idle" \/ IsQuieter(calls[c], calls'[c])
             /\ IsLatest(calls'[c]) => calls'[c].tab # t
  <2>1. CASE calls[c].stage # "Idle" /\ calls[c].tab = t
    <3>1. calls'[c] = Abandoned(calls[c]) /\ calls[c] \in Call
      BY <2>1, CallOf DEF Reload
    <3> QED
      BY <3>1, AbandonedQuiet, AbandonedCall DEF IsLatest
  <2>2. CASE ~ (calls[c].stage # "Idle" /\ calls[c].tab = t)
    <3>1. calls'[c] = calls[c]
      BY <2>2 DEF Reload
    <3> QED
      BY <2>2, <3>1 DEF IsQuieter, IsLatest, IsHeard
  <2> QED
    BY <2>1, <2>2
<1>2. CallsMove /\ Unheard(t)'
  BY <1>1 DEF CallsMove, Unheard
<1>3. tabs' = [tabs EXCEPT ![t] = T] /\ UNCHANGED <<serverVars, jar, spent, signedOut>>
  BY DEF Reload
<1>4. T.active = FALSE /\ T.phase = "checking" /\ T.session = Null /\ T.attempt = Null
  OBVIOUS
<1> HIDE DEF T
<1>5. TabsMove
  BY <1>2, <1>3, <1>4, LeavingTab
<1> QED
  BY <1>2, <1>3, <1>5, SameRecords, SameSpent DEF Evolves

LEMMA RefreshEvolves ==
    ASSUME IInv, NEW t \in Tabs, NEW d \in Calls, Refresh(t, d)
    PROVE  Evolves
<1> DEFINE then == "nothing"
           kind == "inspect"
<1>1. /\ calls' = Sent(Reinspected(calls, t), d, t, kind, Null, then, jar)
      /\ kind # "logout" /\ kind # "login" /\ then # "logout"
      /\ UNCHANGED <<tabs, signedOut>> /\ jar.session = jar'.session
  BY DEF Refresh, UnchangedRest
<1> HIDE DEF then, kind
<1>2. CallsMove
  BY <1>1, CallsTyped, ReinspectedQuiet, CallsSent
<1> QED
  BY <1>1, <1>2, SameTabs, LocalStep DEF Refresh

LEMMA PressBeginEvolves ==
    ASSUME IInv, NEW t \in Tabs, NEW d \in Calls, PressBegin(t, d)
    PROVE  Evolves
<1> DEFINE kind == "begin"
           T == In(tabs[t], "preparing")
<1>1. tabs[t] \in Controller /\ "preparing" \in Phase
  BY DEF IInv, TypeOK, Phase
<1>2. T.phase = "preparing" /\ T.attempt = tabs[t].attempt /\ T.session = tabs[t].session
  BY <1>1, NewStates
<1>3. /\ tabs' = [tabs EXCEPT ![t] = T]
      /\ calls' = Sent(Superseded(calls, t), d, t, kind, Null, "nothing", jar)
      /\ kind # "logout" /\ kind # "login" /\ UNCHANGED <<jar, signedOut>>
  BY <1>1 DEF PressBegin, IInv, TypeOK, UnchangedRest
<1> HIDE DEF T, kind
<1>4. TabsMove /\ CallsMove
  BY <1>2, <1>3, KeepingTab, SendingMoves
<1> QED
  BY <1>4, LocalStep DEF PressBegin

LEMMA MountGoogleEvolves ==
    ASSUME IInv, NEW t \in Tabs, MountGoogle(t)
    PROVE  Evolves
<1>1. UNCHANGED <<serverVars, calls, jar, tabs, spent, signedOut>>
  BY DEF MountGoogle
<1>2. CallsMove
  BY <1>1, CallsTyped, QuietedSame, CallsQuieted
<1> QED
  BY <1>1, <1>2, SameTabs, SameRecords, SameSpent DEF Evolves

\* Nothing is sent, and the tab only changes its phase or lets its attempt go.
LEMMA QuietEvolves ==
    ASSUME IInv, NEW t \in Tabs, NEW T, tabs' = [tabs EXCEPT ![t] = T],
           T.session = tabs[t].session,
           T.phase = "authenticated" => tabs[t].phase = "authenticated",
           T.attempt \in {tabs[t].attempt, Null},
           UNCHANGED calls, UnchangedRest
    PROVE  Evolves
<1>1. TabsMove
  BY KeepingTab DEF UnchangedRest
<1>2. CallsMove
  BY CallsTyped, QuietedSame, CallsQuieted
<1> QED
  BY <1>1, <1>2, LocalStep

LEMMA GoogleUnavailableEvolves ==
    ASSUME IInv, NEW t \in Tabs, GoogleUnavailable(t)
    PROVE  Evolves
<1> DEFINE status == "unavailable"
           T == Failed(tabs[t], status)
<1>1. tabs[t] \in Controller /\ "error" \in Phase
  BY DEF IInv, TypeOK, Phase
<1>2. tabs' = [tabs EXCEPT ![t] = T] /\ UNCHANGED calls /\ UnchangedRest
  BY DEF GoogleUnavailable, IInv, TypeOK
<1> HIDE DEF status
<1>3. T.phase = "error" /\ T.attempt = Null /\ T.session = tabs[t].session
  BY <1>1, NewStates
<1> HIDE DEF T
<1> QED
  BY <1>2, <1>3, QuietEvolves

LEMMA ClickGoogleEvolves ==
    ASSUME IInv, NEW t \in Tabs, ClickGoogle(t)
    PROVE  Evolves
<1> DEFINE T == In(tabs[t], "waiting")
<1>1. tabs[t] \in Controller /\ "waiting" \in Phase
  BY DEF IInv, TypeOK, Phase
<1>2. tabs' = [tabs EXCEPT ![t] = T] /\ UNCHANGED calls /\ UnchangedRest
  BY DEF ClickGoogle, IInv, TypeOK
<1>3. T.phase = "waiting" /\ T.attempt = tabs[t].attempt /\ T.session = tabs[t].session
  BY <1>1, NewStates
<1> HIDE DEF T
<1> QED
  BY <1>2, <1>3, QuietEvolves

LEMMA CoolDownEvolves ==
    ASSUME IInv, NEW t \in Tabs, CoolDown(t)
    PROVE  Evolves
<1> DEFINE T == [tabs[t] EXCEPT !.cooling = FALSE]
<1>1. tabs[t] \in Controller
  BY DEF IInv, TypeOK
<1>2. tabs' = [tabs EXCEPT ![t] = T] /\ UNCHANGED calls /\ UnchangedRest
  BY DEF CoolDown, IInv, TypeOK
<1>3. /\ T.phase = tabs[t].phase /\ T.attempt = tabs[t].attempt
      /\ T.session = tabs[t].session
  BY <1>1 DEF Controller
<1> HIDE DEF T
<1> QED
  BY <1>2, <1>3, QuietEvolves

\* The tab gives its attempt up.
LEMMA SpendingMoves ==
    ASSUME NEW t \in Tabs, tabs'[t].attempt = Null,
           spent' \subseteq spent \cup ({tabs[t].attempt} \ {Null})
    PROVE  SpentMoves
  BY DEF SpentMoves

LEMMA RestartingEvolves ==
    ASSUME IInv, NEW t \in Tabs,
           tabs' = [tabs EXCEPT ![t] = Without(@, "restart")],
           calls' = Superseded(calls, t),
           spent' \subseteq spent \cup ({tabs[t].attempt} \ {Null}),
           UNCHANGED <<serverVars, jar, signedOut>>
    PROVE  Evolves
<1> DEFINE T == Without(tabs[t], "restart")
<1>1. tabs[t] \in Controller /\ "restart" \in Phase
  BY DEF IInv, TypeOK, Phase
<1>2. T.phase = "restart" /\ T.attempt = Null /\ T.session = tabs[t].session
  BY <1>1, NewStates
<1>3. tabs' = [tabs EXCEPT ![t] = T] /\ tabs'[t] = T
  BY DEF IInv, TypeOK
<1> HIDE DEF T
<1>4. TabsMove /\ SpentMoves
  BY <1>2, <1>3, KeepingTab, SpendingMoves
<1>5. CallsMove
  BY NoneLatest, CallsQuieted
<1> QED
  BY <1>4, <1>5, SameRecords DEF Evolves

LEMMA CheckExpiryEvolves ==
    ASSUME IInv, NEW t \in Tabs, CheckExpiry(t)
    PROVE  Evolves
<1>1. tabs[t].attempt # Null
  BY SecretsDiffer DEF CheckExpiry, IInv, TypeOK
<1> QED
  BY <1>1, RestartingEvolves DEF CheckExpiry

LEMMA CancelEvolves ==
    ASSUME IInv, NEW t \in Tabs, Cancel(t)
    PROVE  Evolves
  BY RestartingEvolves DEF Cancel

LEMMA CredentialEvolves ==
    ASSUME IInv, AttemptsInv, NEW t \in Tabs, NEW d \in Calls, Credential(t, d)
    PROVE  Evolves
<1>1. /\ tabs[t] \in Controller
      /\ bound[t] = tabs[t].attempt /\ tabs[t].attempt # Null
      /\ UNCHANGED <<serverVars, jar, signedOut>>
  BY DEF IInv, TypeOK, Credential, IsSubmittable, IsBound
<1>2. CASE tabs' = [tabs EXCEPT ![t] = Failed(@, "rejected")] /\ UNCHANGED <<calls, spent>>
  <2> DEFINE status == "rejected"
             T == Failed(tabs[t], status)
  <2>1. "error" \in Phase
    BY DEF Phase
  <2>2. tabs' = [tabs EXCEPT ![t] = T]
    BY <1>2 DEF IInv, TypeOK
  <2> HIDE DEF status
  <2>3. T.phase = "error" /\ T.attempt = Null /\ T.session = tabs[t].session
    BY <1>1, <2>1, NewStates
  <2> HIDE DEF T
  <2>4. TabsMove
    BY <1>1, <2>2, <2>3, KeepingTab
  <2>5. CallsMove
    BY <1>2, CallsTyped, QuietedSame, CallsQuieted
  <2> QED
    BY <1>1, <1>2, <2>4, <2>5, SameRecords, SameSpent DEF Evolves
<1>3. CASE /\ tabs' = [tabs EXCEPT ![t] = Without(@, "completing")]
           /\ calls' = Sent(Superseded(calls, t), d, t, "login", bound[t], "nothing", jar)
           /\ spent' = spent \cup {bound[t]}
  <2> DEFINE kind == "login"
             T == Without(tabs[t], "completing")
  <2>1. "completing" \in Phase
    BY DEF Phase
  <2>2. T.phase = "completing" /\ T.attempt = Null /\ T.session = tabs[t].session
    BY <1>1, <2>1, NewStates
  <2>3. tabs' = [tabs EXCEPT ![t] = T] /\ tabs'[t] = T
    BY <1>3 DEF IInv, TypeOK
  <2>4. /\ calls' = Sent(Superseded(calls, t), d, t, kind, bound[t], "nothing", jar)
        /\ kind # "logout" /\ bound[t] \notin spent
    BY <1>1, <1>3 DEF AttemptsInv
  <2> HIDE DEF T, kind
  <2>5. TabsMove
    BY <1>1, <2>2, <2>3, KeepingTab
  <2>6. SpentMoves
    BY <1>1, <1>3, <2>2, <2>3, SpendingMoves
  <2>7. CallsMove
    BY <1>1, <2>4, SendingMoves
  <2> QED
    BY <1>1, <2>5, <2>6, <2>7, SameRecords DEF Evolves
<1> QED
  BY <1>2, <1>3 DEF Credential

LEMMA LogoutEvolves ==
    ASSUME IInv, NEW t \in Tabs, NEW d \in Calls, Logout(t, d)
    PROVE  Evolves
<1> DEFINE kind == "logout"
           T == In(tabs[t], "logout")
<1>1. tabs[t] \in Controller /\ "logout" \in Phase
  BY DEF IInv, TypeOK, Phase
<1>2. T.phase = "logout" /\ T.attempt = tabs[t].attempt /\ T.session = tabs[t].session
  BY <1>1, NewStates
<1>3. /\ tabs' = [tabs EXCEPT ![t] = T] /\ tabs'[t] = T
      /\ calls' = Sent(Superseded(calls, t), d, t, kind, tabs[t].session, "nothing", jar)
      /\ kind # "login" /\ UNCHANGED <<jar, signedOut>>
  BY <1>1 DEF Logout, IInv, TypeOK, UnchangedRest
<1> HIDE DEF T, kind
<1>4. TabsMove
  BY <1>2, <1>3, KeepingTab
<1>5. CallsMove
  BY <1>2, <1>3, SendingMoves
<1> QED
  BY <1>4, <1>5, LocalStep DEF Logout

-----------------------------------------------------------------------------
(* Every step evolves so: the answers                                      *)

\* An answer of the server that has arrived, or none.
Arrives(c, answer, in) ==
    \/ calls[c].stage = "Answered" /\ answer = calls[c].answer /\ in[c] = Idle
    \/ answer.status = "unavailable"

LEMMA Arrived ==
    ASSUME NEW c, NEW answer, NEW in, Arrives(c, answer, in),
           answer.status # "unavailable"
    PROVE  calls[c].stage = "Answered" /\ answer = calls[c].answer /\ in[c] = Idle
  BY DEF Arrives

\* The tab that heard of the last inspection hears of none any more.
LEMMA LastHeard ==
    ASSUME NEW c \in Calls, NEW in, Muted(in, c), calls' = in, NEW t, t = calls[c].tab,
           \/ OneLatest /\ IsLatest(calls[c])
           \/ IInv /\ IsHeard(calls[c]) /\ calls[c].kind # "inspect"
    PROVE  Unheard(t)'
<1> SUFFICES ASSUME NEW e \in Calls, IsLatest(in[e]), in[e].tab = t
             PROVE  FALSE
  BY DEF Unheard
<1>1. IsHeard(in[e]) /\ in[e].kind = "inspect"
  BY DEF IsLatest
<1>2. e # c /\ in[e] = calls[e]
  BY <1>1 DEF Muted
<1> QED
  BY <1>1, <1>2 DEF OneLatest, IInv, OneHeard

\* What an inspection makes of a controller.
LEMMA InspectedSays ==
    ASSUME NEW T \in Controller, NEW answer,
           answer.status = "ok" => answer.value \in Sessions
    PROVE  LET new == Inspected(T, answer)
           IN  /\ new \in Controller
               /\ \/ /\ answer.status = "ok"
                     /\ new.phase = "authenticated" /\ new.session = answer.value
                     /\ new.attempt = Null
                  \/ new = T
                  \/ /\ answer.status = "required"
                     /\ new.phase \in {"restart", "anonymous"} /\ new.session = Null
                     /\ new.attempt = Null
                  \/ /\ new.phase = "error" /\ new.session = T.session
                     /\ new.attempt = Null
<1> DEFINE new == Inspected(T, answer)
<1>1. CASE answer.status = "ok"
  <2> DEFINE W == Without(T, "authenticated")
  <2>1. "authenticated" \in Phase
    BY DEF Phase
  <2>2. W \in Controller /\ W.phase = "authenticated" /\ W.attempt = Null
    BY <2>1, NewStates
  <2>3. new = [W EXCEPT !.session = answer.value]
    BY <1>1 DEF Inspected
  <2> HIDE DEF W
  <2>4. /\ new.phase = "authenticated" /\ new.session = answer.value /\ new.attempt = Null
        /\ new \in Controller
    BY <1>1, <2>2, <2>3 DEF Controller
  <2> QED
    BY <1>1, <2>4
<1>2. CASE answer.status = "required" /\ KeepsAttempt(T)
  BY <1>2 DEF Inspected
<1>3. CASE answer.status = "required" /\ ~ KeepsAttempt(T)
  <2> DEFINE phase == IF T.session # Null \/ T.attempted THEN "restart" ELSE "anonymous"
             W == Without(T, phase)
  <2>1. phase \in Phase /\ phase \in {"restart", "anonymous"}
    BY DEF Phase
  <2>2. new = [W EXCEPT !.session = Null]
    BY <1>3 DEF Inspected
  <2> HIDE DEF phase
  <2>3. W \in Controller /\ W.phase = phase /\ W.attempt = Null
    BY <2>1, NewStates
  <2> HIDE DEF W
  <2>4. /\ new.phase = phase /\ new.attempt = Null /\ new.session = Null
        /\ new \in Controller
    BY <2>2, <2>3 DEF Controller
  <2> QED
    BY <1>3, <2>1, <2>4
<1>4. CASE answer.status \notin {"ok", "required"}
  <2> DEFINE status == answer.status
  <2>1. new = Failed(T, status)
    BY <1>4 DEF Inspected
  <2>2. "error" \in Phase
    BY DEF Phase
  <2> HIDE DEF new, status
  <2>3. /\ new.phase = "error" /\ new.session = T.session /\ new.attempt = Null
        /\ new \in Controller
    BY <2>1, <2>2, NewStates
  <2> QED
    BY <2>3 DEF new
<1> QED
  BY <1>1, <1>2, <1>3, <1>4

\* The tab learns from an inspection that it is signed in.
LEMMA ShownMoves ==
    ASSUME SessionsInv, NEW c \in Calls, IsLatest(calls[c]), NEW t \in Tabs,
           t = calls[c].tab, tabs[t].session \in Sessions \cup {Null},
           calls[c].stage = "Answered", calls[c].answer.status = "ok",
           Unheard(t)', tabs'[t].session = calls[c].answer.value,
           tabs'[t].phase = "authenticated", signedOut'[t] = signedOut[t]
    PROVE  SessionMoves(t) /\ ViewMoves(t) /\ SignOutMoves(t)
<1> DEFINE s == tabs[t].session
           v == calls[c].answer.value
<1>1. Finds(calls[c], v)
  BY DEF Finds, IsLatest
<1>2. IsKnown(v)
  BY <1>1 DEF IsKnown, Tells, IsLatest, IsHeard
<1>3. s # Null /\ v # s => Over(s)
  <2> SUFFICES ASSUME s \in Sessions, v # s
               PROVE  Over(s)
    OBVIOUS
  <2>1. Drops(calls[c], s)
    BY DEF Drops
  <2> QED
    BY <2>1 DEF SessionsInv, InspectionsAreTrue
<1>4. SessionMoves(t)
  BY <1>2, <1>3 DEF SessionMoves
<1>5. ViewMoves(t)
  BY <1>1 DEF ViewMoves, Shows
<1>6. SignOutMoves(t)
  BY DEF SignOutMoves
<1> QED
  BY <1>4, <1>5, <1>6

\* The tab learns from an inspection that it is not signed in.
LEMMA MissedMoves ==
    ASSUME SessionsInv, NEW c \in Calls, IsLatest(calls[c]), NEW t \in Tabs,
           t = calls[c].tab, tabs[t].session \in Sessions \cup {Null},
           calls[c].stage = "Answered", calls[c].answer.status = "required",
           CallWell(calls[c]),
           Unheard(t)', tabs'[t].session = Null,
           tabs'[t].phase \in {"restart", "anonymous"},
           \/ signedOut'[t] = signedOut[t]
           \/ /\ calls[c].then = "logout"
              /\ signedOut'[t] = signedOut[t] \cup {calls[c].subject}
    PROVE  SessionMoves(t) /\ ViewMoves(t) /\ SignOutMoves(t)
<1> DEFINE s == tabs[t].session
<1>0. IsHeard(calls[c]) /\ calls[c].kind = "inspect" /\ calls[c].stage # "Idle"
  BY DEF IsLatest, IsHeard
<1>1. s # Null => Over(s)
  <2> SUFFICES ASSUME s \in Sessions
               PROVE  Over(s)
    OBVIOUS
  <2>1. Drops(calls[c], s)
    BY DEF Drops
  <2> QED
    BY <2>1 DEF SessionsInv, InspectionsAreTrue
<1>2. SessionMoves(t)
  BY <1>1 DEF SessionMoves
<1>3. ViewMoves(t)
  BY DEF ViewMoves
<1>4. ASSUME NEW x \in signedOut'[t] \ signedOut[t]
      PROVE  IsKnown(x) /\ Over(x)
  <2>1. calls[c].then = "logout" /\ x = calls[c].subject
    BY <1>4
  <2>2. x \in Sessions
    BY <1>0, <2>1 DEF CallWell
  <2>3. IsKnown(x)
    BY <1>0, <2>1 DEF IsKnown, Tells, IsSignOut
  <2>4. tabs[t].session = x \/ Gone(t, x)
    BY <1>0, <2>1, <2>2 DEF SessionsInv, SignOutsAreFollowed
  <2>5. Over(x)
    BY <1>1, <2>2, <2>4, SecretsDiffer DEF Gone
  <2> QED
    BY <2>3, <2>5
<1>5. SignOutMoves(t)
  BY <1>4 DEF SignOutMoves
<1> QED
  BY <1>2, <1>3, <1>5

\* An answer that tells nothing about the session of the tab.
LEMMA UntoldMoves ==
    ASSUME IInv, SessionsInv, NEW c \in Calls, calls[c].stage # "Idle",
           calls[c].kind = "inspect", NEW t \in Tabs, t = calls[c].tab,
           tabs'[t].session = tabs[t].session,
           tabs'[t].phase = "authenticated" => tabs[t].phase = "authenticated",
           \/ signedOut'[t] = signedOut[t]
           \/ /\ calls[c].fresh /\ calls[c].then = "logout"
              /\ tabs[t].phase = "restart" /\ tabs'[t].phase = "restart"
              /\ signedOut'[t] = signedOut[t] \cup {calls[c].subject}
    PROVE  SessionMoves(t) /\ ViewMoves(t) /\ SignOutMoves(t)
<1>1. SessionMoves(t)
  BY DEF SessionMoves
<1>2. ViewMoves(t)
  BY DEF ViewMoves
<1>3. ASSUME NEW x \in signedOut'[t] \ signedOut[t]
      PROVE  IsKnown(x) /\ Gone(t, x)
  <2>1. /\ calls[c].fresh /\ calls[c].then = "logout" /\ x = calls[c].subject
        /\ tabs[t].phase = "restart"
    BY <1>3
  <2>2. IsHeard(calls[c]) /\ CallFits(calls[c], tabs[t]) /\ TabFits(tabs[t])
    BY <2>1 DEF IsHeard, IInv, CallsFit, TabsFit
  <2>3. tabs[t].session = Null
    BY <2>1, <2>2 DEF CallFits, TabFits
  <2>4. x \in Sessions
    BY <2>1, CallOf DEF CallWell
  <2>5. IsKnown(x)
    BY <2>1 DEF IsKnown, Tells, IsSignOut
  <2>6. tabs[t].session = x \/ Gone(t, x)
    BY <2>1, <2>2, <2>4 DEF SessionsInv, SignOutsAreFollowed
  <2> QED
    BY <2>3, <2>4, <2>5, <2>6, SecretsDiffer
<1>4. SignOutMoves(t)
  BY <1>3 DEF SignOutMoves, Gone
<1> QED
  BY <1>1, <1>2, <1>4

LEMMA HearInspectEvolves ==
    ASSUME IInv, SessionsInv, NEW c \in Calls, calls[c].stage # "Idle",
           calls[c].kind = "inspect", NEW in, Muted(in, c), Quieted(calls, in),
           NEW answer, AnswerFits(calls[c], answer), Arrives(c, answer, in),
           HearInspect(c, answer, in), RecordsMove
    PROVE  Evolves
<1>1. calls[c] \in Call /\ CallWell(calls[c]) /\ calls[c].tab \in Tabs
  BY CallOf DEF Call
<1> SUFFICES ASSUME NEW t \in Tabs, t = calls[c].tab
             PROVE  Evolves
  BY <1>1
<1> DEFINE T == IF Applies(c) THEN Inspected(tabs[t], answer) ELSE tabs[t]
           new == IF calls[c].fresh /\ calls[c].then = "login" /\ T.phase = "anonymous"
                  THEN In(T, "restart") ELSE T
<1>2. t \in Tabs /\ tabs[t] \in Controller
  BY DEF IInv, TypeOK
<1>3. tabs' = [tabs EXCEPT ![t] = new] /\ tabs'[t] = new /\ calls' = in /\ UNCHANGED spent
  BY <1>2 DEF HearInspect, IInv, TypeOK
<1>4. /\ T \in Controller
      /\ answer.status = "ok" => answer.value \in Sessions
  BY <1>2, InspectedSays DEF AnswerFits
<1>5. /\ \A u \in Tabs : u # t => signedOut'[u] = signedOut[u]
      /\ \/ signedOut'[t] = signedOut[t]
         \/ /\ calls[c].fresh /\ calls[c].then = "logout" /\ T.phase = "restart"
            /\ signedOut'[t] = signedOut[t] \cup {calls[c].subject}
  BY <1>2 DEF HearInspect, IInv, TypeOK
<1>6. /\ new.session = T.session /\ new.attempt = T.attempt
      /\ \/ new.phase = T.phase
         \/ T.phase = "anonymous" /\ new.phase = "restart"
  <2>1. "restart" \in Phase
    BY DEF Phase
  <2> HIDE DEF T
  <2> QED
    BY <1>4, <2>1, NewStates
<1> HIDE DEF new
<1>7. CallsMove /\ SpentMoves
  BY <1>3, CallsQuieted, SameSpent
<1>8. SessionMoves(t) /\ ViewMoves(t) /\ SignOutMoves(t) /\ AttemptMoves(t)
  <2>1. CASE T = tabs[t]
    <3>1. SessionMoves(t) /\ ViewMoves(t) /\ SignOutMoves(t)
      <4> HIDE DEF T
      <4> QED
        BY <1>2, <1>3, <1>5, <1>6, <2>1, UntoldMoves
    <3>2. AttemptMoves(t)
      BY <1>3, <1>6, <2>1 DEF AttemptMoves
    <3> QED
      BY <3>1, <3>2
  <2>2. CASE Applies(c)
    <3>1. IsLatest(calls[c])
      BY <2>2 DEF Applies, IsLatest, IsHeard
    <3>2. Unheard(t)'
      BY <1>3, <3>1, LastHeard DEF SessionsInv
    <3>3. tabs[t].session \in Sessions \cup {Null}
      BY <1>2 DEF Controller
    <3>4. T = Inspected(tabs[t], answer)
      BY <2>2
    <3>5. \/ /\ answer.status = "ok"
             /\ T.phase = "authenticated" /\ T.session = answer.value
             /\ T.attempt = Null
          \/ T = tabs[t]
          \/ /\ answer.status = "required"
             /\ T.phase \in {"restart", "anonymous"} /\ T.session = Null
             /\ T.attempt = Null
          \/ /\ T.phase = "error" /\ T.session = tabs[t].session
             /\ T.attempt = Null
      BY <1>2, <1>4, <3>4, InspectedSays
    <3> HIDE DEF T
    <3>6. CASE /\ answer.status = "ok" /\ T.phase = "authenticated"
               /\ T.session = answer.value /\ T.attempt = Null
      <4>1. calls[c].stage = "Answered" /\ calls[c].answer = answer
        BY <3>6, Arrived
      <4>2. SessionMoves(t) /\ ViewMoves(t) /\ SignOutMoves(t)
        BY <1>2, <1>3, <1>5, <1>6, <3>1, <3>2, <3>3, <3>6, <4>1, ShownMoves
      <4> QED
        BY <1>3, <1>6, <3>6, <4>2 DEF AttemptMoves
    <3>7. CASE /\ answer.status = "required"
               /\ T.phase \in {"restart", "anonymous"} /\ T.session = Null
               /\ T.attempt = Null
      <4>1. calls[c].stage = "Answered" /\ calls[c].answer = answer
        BY <3>7, Arrived
      <4>2. SessionMoves(t) /\ ViewMoves(t) /\ SignOutMoves(t)
        BY <1>1, <1>2, <1>3, <1>5, <1>6, <3>1, <3>2, <3>3, <3>7, <4>1, MissedMoves
      <4> QED
        BY <1>3, <1>6, <3>7, <4>2 DEF AttemptMoves
    <3>8. CASE /\ T.phase = "error" /\ T.session = tabs[t].session /\ T.attempt = Null
      <4>1. SessionMoves(t) /\ ViewMoves(t) /\ SignOutMoves(t)
        BY <1>2, <1>3, <1>5, <1>6, <3>8, UntoldMoves
      <4> QED
        BY <1>3, <1>6, <3>8, <4>1 DEF AttemptMoves
    <3> QED
      BY <2>1, <3>5, <3>6, <3>7, <3>8
  <2> QED
    BY <2>1, <2>2
<1>9. TabsMove
  BY <1>2, <1>3, <1>5, <1>8, OneTabMoves
<1> QED
  BY <1>7, <1>9 DEF Evolves

\* What every answer that is heard, and is not to an inspection, finds.
LEMMA HeardCall ==
    ASSUME IInv, NEW c \in Calls, IsHeard(calls[c])
    PROVE  /\ calls[c] \in Call /\ CallWell(calls[c]) /\ calls[c].stage # "Idle"
           /\ calls[c].tab \in Tabs
           /\ tabs[calls[c].tab] \in Controller
           /\ TabFits(tabs[calls[c].tab])
           /\ tabs[calls[c].tab].active
           /\ calls[c].kind = Awaits(tabs[calls[c].tab].phase)
<1>1. calls[c] \in Call /\ CallWell(calls[c]) /\ calls[c].stage # "Idle"
  BY CallOf DEF IsHeard
<1>2. calls[c].tab \in Tabs
  BY <1>1 DEF Call
<1> QED
  BY <1>1, <1>2 DEF IInv, TypeOK, TabsFit, CallsFit, CallFits

LEMMA CheckAgainEvolves ==
    ASSUME IInv, SessionsInv, NEW c \in Calls, IsHeard(calls[c]),
           NEW in, Quieted(calls, in), NEW d \in Calls, NEW then, NEW cookies,
           cookies.session = jar'.session,
           then = "logout" => calls[c].kind = "logout",
           CheckAgain(c, in, d, then, cookies),
           UNCHANGED <<spent, signedOut>>, RecordsMove
    PROVE  Evolves
<1> SUFFICES ASSUME NEW t \in Tabs, t = calls[c].tab
             PROVE  Evolves
  BY HeardCall
<1> DEFINE T == In(tabs[t], "checking")
           mid == Reinspected(in, t)
           kind == "inspect"
<1>1. tabs[t] \in Controller /\ "checking" \in Phase
  BY DEF IInv, TypeOK, Phase
<1>2. T.phase = "checking" /\ T.attempt = tabs[t].attempt /\ T.session = tabs[t].session
  BY <1>1, NewStates
<1>3. /\ tabs' = [tabs EXCEPT ![t] = T] /\ tabs'[t] = T
      /\ calls' = Sent(mid, d, t, kind, calls[c].subject, then, cookies)
      /\ kind # "logout" /\ kind # "login"
  BY DEF CheckAgain, IInv, TypeOK
<1>4. /\ Quieted(calls, mid)
      /\ \A e \in Calls : IsLatest(mid[e]) => mid[e].tab # t
  <2>1. in \in AllCalls
    BY DEF Quieted
  <2> QED
    BY <2>1, ReinspectedQuiet, QuietedTwice
<1>5. then = "logout" => calls[c].subject = tabs[t].session
  <2> SUFFICES ASSUME then = "logout"
               PROVE  calls[c].subject = tabs[t].session
    OBVIOUS
  <2>1. calls[c].subject \in Sessions /\ calls[c].stage # "Idle" /\ calls[c].fresh
    BY HeardCall DEF CallWell, IsHeard
  <2> QED
    BY <2>1 DEF SessionsInv, LogoutsAreTrue
<1> HIDE DEF T, mid, kind
<1>6. CallsMove
  BY <1>2, <1>3, <1>4, <1>5, CallsSent
<1>7. TabsMove
  BY <1>2, <1>3, KeepingTab
<1> QED
  BY <1>6, <1>7, SameSpent DEF Evolves

LEMMA FailEvolves ==
    ASSUME IInv, NEW c \in Calls, IsHeard(calls[c]), NEW in, Quieted(calls, in),
           NEW answer, Fail(c, answer, in), UNCHANGED <<spent, signedOut>>, RecordsMove
    PROVE  Evolves
<1> SUFFICES ASSUME NEW t \in Tabs, t = calls[c].tab
             PROVE  Evolves
  BY HeardCall
<1> DEFINE status == answer.status
           T == Failed(tabs[t], status)
<1>1. tabs[t] \in Controller /\ "error" \in Phase
  BY DEF IInv, TypeOK, Phase
<1>2. tabs' = [tabs EXCEPT ![t] = T] /\ calls' = in
  BY DEF Fail, IInv, TypeOK
<1> HIDE DEF status
<1>3. T.phase = "error" /\ T.attempt = Null /\ T.session = tabs[t].session
  BY <1>1, NewStates
<1> HIDE DEF T
<1>4. TabsMove
  BY <1>2, <1>3, KeepingTab
<1> QED
  BY <1>2, <1>4, CallsQuieted, SameSpent DEF Evolves

LEMMA HearBeginEvolves ==
    ASSUME IInv, SessionsInv, NEW c \in Calls, IsHeard(calls[c]), calls[c].kind = "begin",
           NEW in, Muted(in, c), Quieted(calls, in), NEW d \in Calls,
           NEW cookies, cookies.session = jar'.session,
           NEW answer, Arrives(c, answer, in),
           HearBegin(c, answer, in, d, cookies), RecordsMove, IsTaken(c)
    PROVE  Evolves
<1> SUFFICES ASSUME NEW t \in Tabs, t = calls[c].tab
             PROVE  Evolves
  BY HeardCall
<1> DEFINE a == answer.value
<1>1. /\ tabs[t] \in Controller
      /\ "google" \in Phase /\ "restart" \in Phase
      /\ UNCHANGED signedOut
  BY DEF IInv, TypeOK, Phase, HearBegin
<1>2. answer.status = "ok" => Offers(calls[c], a)
  BY Arrived DEF Offers
<1>3. CASE /\ answer.status = "ok"
           /\ tabs' = [tabs EXCEPT ![t] =
                  [In(@, "google") EXCEPT !.attempt = a, !.attempted = TRUE]]
           /\ calls' = in
           /\ UNCHANGED spent
  <2> DEFINE G == In(tabs[t], "google")
             T == [G EXCEPT !.attempt = a, !.attempted = TRUE]
  <2>1. G \in Controller /\ G.phase = "google" /\ G.session = tabs[t].session
    BY <1>1, NewStates
  <2>2. tabs' = [tabs EXCEPT ![t] = T] /\ tabs'[t] = T
    BY <1>3 DEF IInv, TypeOK
  <2> HIDE DEF G
  <2>3. T.phase = "google" /\ T.attempt = a /\ T.session = tabs[t].session
    BY <2>1 DEF Controller
  <2> HIDE DEF T
  <2>4. AttemptMoves(t)
    BY <1>2, <1>3, <2>2, <2>3 DEF AttemptMoves
  <2>5. SessionMoves(t) /\ ViewMoves(t) /\ SignOutMoves(t)
    BY <1>1, <2>2, <2>3 DEF SessionMoves, ViewMoves, SignOutMoves
  <2>6. TabsMove
    BY <1>1, <2>2, <2>4, <2>5, OneTabMoves
  <2> QED
    BY <1>3, <2>6, CallsQuieted, SameSpent DEF Evolves
<1>4. CASE /\ answer.status = "ok"
           /\ tabs' = [tabs EXCEPT ![t] = [Without(@, "restart") EXCEPT !.attempted = TRUE]]
           /\ calls' = Superseded(in, t)
           /\ spent' = spent \cup {a}
  <2> DEFINE W == Without(tabs[t], "restart")
             T == [W EXCEPT !.attempted = TRUE]
  <2>1. /\ W \in Controller /\ W.phase = "restart"
        /\ W.attempt = Null /\ W.session = tabs[t].session
    BY <1>1, NewStates
  <2>2. tabs' = [tabs EXCEPT ![t] = T] /\ tabs'[t] = T
    BY <1>4 DEF IInv, TypeOK
  <2> HIDE DEF W
  <2>3. T.phase = "restart" /\ T.attempt = Null /\ T.session = tabs[t].session
    BY <2>1 DEF Controller
  <2> HIDE DEF T
  <2>4. TabsMove
    BY <1>1, <2>2, <2>3, KeepingTab
  <2>5. CallsMove
    BY <1>4, SupersededQuiet, QuietedTwice, CallsQuieted DEF Muted
  <2>6. \A u \in Tabs : tabs'[u].attempt \in {tabs[u].attempt, Null}
    BY <2>2, <2>3 DEF IInv, TypeOK
  <2>7. SpentMoves
    BY <1>2, <1>4, <2>6 DEF SpentMoves
  <2> QED
    BY <2>4, <2>5, <2>7 DEF Evolves
<1>5. CASE CheckAgain(c, in, d, "nothing", cookies) /\ UNCHANGED spent
  <2> DEFINE then == "nothing"
  <2>1. CheckAgain(c, in, d, then, cookies) /\ then # "logout"
    BY <1>5
  <2> HIDE DEF then
  <2> QED
    BY <1>1, <1>5, <2>1, CheckAgainEvolves
<1>6. CASE Fail(c, answer, in) /\ UNCHANGED spent
  BY <1>1, <1>6, FailEvolves
<1> QED
  BY <1>3, <1>4, <1>5, <1>6 DEF HearBegin

LEMMA HearLoginEvolves ==
    ASSUME IInv, SessionsInv, NEW c \in Calls, IsHeard(calls[c]), calls[c].kind = "login",
           NEW in, Quieted(calls, in), NEW d \in Calls,
           NEW cookies, cookies.session = jar'.session, NEW answer,
           HearLogin(c, answer, in, d, cookies), RecordsMove
    PROVE  Evolves
<1> DEFINE then == "login"
<1>1. CheckAgain(c, in, d, then, cookies) \/ Fail(c, answer, in)
  BY DEF HearLogin
<1>2. then # "logout" /\ UNCHANGED <<spent, signedOut>>
  BY DEF HearLogin
<1> HIDE DEF then
<1> QED
  BY <1>1, <1>2, CheckAgainEvolves, FailEvolves

LEMMA HearLogoutEvolves ==
    ASSUME IInv, SessionsInv, NEW c \in Calls, IsHeard(calls[c]), calls[c].kind = "logout",
           NEW in, Muted(in, c), Quieted(calls, in), NEW d \in Calls,
           NEW cookies, cookies.session = jar'.session,
           NEW answer, Arrives(c, answer, in),
           HearLogout(c, answer, in, d, cookies), RecordsMove
    PROVE  Evolves
<1> SUFFICES ASSUME NEW t \in Tabs, t = calls[c].tab
             PROVE  Evolves
  BY HeardCall
<1> DEFINE s == calls[c].subject
<1>1. /\ tabs[t] \in Controller /\ "restart" \in Phase
      /\ UNCHANGED spent
  BY DEF IInv, TypeOK, Phase, HearLogout
<1>2. s \in Sessions /\ calls[c].stage # "Idle" /\ calls[c].fresh
  BY HeardCall DEF CallWell, IsHeard
<1>3. CASE /\ answer.status = "ok"
           /\ tabs' = [tabs EXCEPT ![t] = [In(@, "restart") EXCEPT !.session = Null]]
           /\ calls' = in
           /\ signedOut' = [signedOut EXCEPT ![t] = @ \cup {s}]
  <2> DEFINE R == In(tabs[t], "restart")
             T == [R EXCEPT !.session = Null]
  <2>1. R \in Controller /\ R.phase = "restart" /\ R.attempt = tabs[t].attempt
    BY <1>1, NewStates
  <2>2. tabs' = [tabs EXCEPT ![t] = T] /\ tabs'[t] = T
    BY <1>3 DEF IInv, TypeOK
  <2> HIDE DEF R
  <2>3. T.phase = "restart" /\ T.session = Null /\ T.attempt = tabs[t].attempt
    BY <2>1 DEF Controller
  <2> HIDE DEF T
  <2>4. Unheard(t)'
    BY <1>3, LastHeard
  <2>5. Over(s) /\ s = tabs[t].session
    BY <1>2, <1>3, Arrived DEF SessionsInv, LogoutsAreTrue
  <2>6. IsKnown(s)
    BY <1>2 DEF IsKnown, Tells, IsSignOut
  <2>7. /\ signedOut'[t] = signedOut[t] \cup {s}
        /\ \A u \in Tabs : u # t => signedOut'[u] = signedOut[u]
    BY <1>3 DEF IInv, TypeOK
  <2>8. SessionMoves(t) /\ ViewMoves(t) /\ AttemptMoves(t)
    BY <2>2, <2>3, <2>4, <2>5 DEF SessionMoves, ViewMoves, AttemptMoves
  <2>9. SignOutMoves(t)
    BY <2>4, <2>5, <2>6, <2>7 DEF SignOutMoves
  <2>10. TabsMove
    BY <2>2, <2>7, <2>8, <2>9, OneTabMoves
  <2> QED
    BY <1>1, <1>3, <2>10, CallsQuieted, SameSpent DEF Evolves
<1>4. CASE Fail(c, answer, in) /\ UNCHANGED signedOut
  BY <1>1, <1>4, FailEvolves
<1>5. CASE CheckAgain(c, in, d, "logout", cookies) /\ UNCHANGED signedOut
  <2> DEFINE then == "logout"
  <2>1. CheckAgain(c, in, d, then, cookies)
    BY <1>5
  <2> HIDE DEF then
  <2> QED
    BY <1>1, <1>5, <2>1, CheckAgainEvolves
<1> QED
  BY <1>3, <1>4, <1>5 DEF HearLogout

LEMMA HearEvolves ==
    ASSUME IInv, SessionsInv, NEW c \in Calls, calls[c].stage # "Idle",
           NEW in, Muted(in, c), Quieted(calls, in), NEW d \in Calls,
           NEW cookies, cookies.session = jar'.session,
           NEW answer, AnswerFits(calls[c], answer), Arrives(c, answer, in),
           Hear(c, answer, in, d, cookies), RecordsMove, IsTaken(c)
    PROVE  Evolves
<1>1. CASE calls' = in /\ UNCHANGED <<tabs, spent, signedOut>>
  BY <1>1, CallsQuieted, SameTabs, SameSpent DEF Evolves
<1>2. IsCurrent(c) => IsHeard(calls[c])
  BY DEF IsCurrent, IsHeard
<1> QED
  BY <1>1, <1>2, HearInspectEvolves, HearBeginEvolves, HearLoginEvolves,
     HearLogoutEvolves DEF Hear

LEMMA SentStages ==
    ASSUME NEW in \in AllCalls, NEW d, NEW t, NEW kind, NEW subject, NEW then,
           NEW cookies, NEW e \in Calls, in[e].stage # "Answered"
    PROVE  Sent(in, d, t, kind, subject, then, cookies)[e].stage # "Answered"
<1> DEFINE call == [stage |-> "Sent", kind |-> kind, tab |-> t, subject |-> subject,
                    cookies |-> cookies, then |-> then, answer |-> Null,
                    fresh |-> TRUE, latest |-> TRUE, awaited |-> TRUE]
<1>1. Sent(in, d, t, kind, subject, then, cookies) = [in EXCEPT ![d] = call]
  BY DEF Sent
<1>2. call.stage = "Sent"
  OBVIOUS
<1> HIDE DEF call
<1> QED
  BY <1>1, <1>2 DEF AllCalls

\* The answer to a call is heard once.
LEMMA HearTakes ==
    ASSUME NEW c \in Calls, NEW in \in AllCalls, in[c].stage # "Answered", NEW d,
           NEW cookies, NEW answer, Hear(c, answer, in, d, cookies)
    PROVE  IsTaken(c)
<1>1. CASE \E then : CheckAgain(c, in, d, then, cookies)
  <2>1. PICK then : CheckAgain(c, in, d, then, cookies)
    BY <1>1
  <2>2. Reinspected(in, calls[c].tab) \in AllCalls
        /\ Reinspected(in, calls[c].tab)[c].stage # "Answered"
    BY ReinspectedQuiet DEF Quieted
  <2> QED
    BY <2>1, <2>2, SentStages DEF CheckAgain, IsTaken
<1>2. CASE calls' = in
  BY <1>2 DEF IsTaken
<1>3. CASE calls' = Superseded(in, calls[c].tab)
  BY <1>3, SupersededQuiet DEF IsTaken
<1> QED
  BY <1>1, <1>2, <1>3 DEF Hear, HearInspect, HearBegin, HearLogin, HearLogout, Fail

LEMMA FinishedQuiet ==
    ASSUME IInv, NEW c \in Calls
    PROVE  Quieted(calls, Finished(c)) /\ Finished(c)[c] = Idle
<1>1. calls \in AllCalls /\ Finished(c) \in AllCalls
  BY CallsTyped, FinishedMuted DEF Muted
<1>2. Finished(c)[c] = Idle /\ \A e \in Calls : e # c => Finished(c)[e] = calls[e]
  BY <1>1 DEF Finished, AllCalls
<1> QED
  BY <1>1, <1>2 DEF Quieted, IsQuieter, Idle

LEMMA ReceiveEvolves ==
    ASSUME IInv, SessionsInv, NEW c \in Calls, Receive(c)
    PROVE  Evolves
<1> DEFINE answer == calls[c].answer
           in == Finished(c)
<1>1. calls[c].stage = "Answered" /\ calls[c] \in Call /\ CallWell(calls[c])
  BY CallOf DEF Receive
<1>2. AnswerFits(calls[c], answer)
  BY <1>1 DEF CallWell, AnswerFits
<1>3. /\ jar'.session = SetCookie(jar.session, answer.setSession)
      /\ Hear(c, answer, in, c, jar')
      /\ UNCHANGED serverVars
  BY DEF Receive
<1>4. Muted(in, c) /\ Quieted(calls, in) /\ in[c] = Idle
  BY FinishedMuted, FinishedQuiet
<1>5. IsTaken(c)
  BY <1>3, <1>4, HearTakes DEF Muted, Idle
<1>6. RecordsMove
  <2>1. \/ jar'.session \in {jar.session, Null}
        \/ Carries(calls[c], jar'.session)
    BY <1>1, <1>3 DEF SetCookie, Carries
  <2> QED
    BY <1>3, <1>5, <2>1 DEF RecordsMove, serverVars
<1>7. Arrives(c, answer, in)
  BY <1>1, <1>4 DEF Arrives
<1> HIDE DEF in, answer
<1> QED
  BY <1>1, <1>2, <1>3, <1>4, <1>5, <1>6, <1>7, HearEvolves

\* Nothing comes back.
LEMMA SilenceEvolves ==
    ASSUME IInv, SessionsInv, NEW c \in Calls, calls[c].stage # "Idle",
           NEW in, Muted(in, c), Quieted(calls, in), in[c].stage # "Answered",
           NEW d \in Calls, Hear(c, Reply("unavailable"), in, d, jar),
           UNCHANGED <<serverVars, jar>>
    PROVE  Evolves
<1> DEFINE status == "unavailable"
           answer == Reply(status)
<1>1. AnswerFits(calls[c], answer)
  BY ReplyFits
<1>2. Arrives(c, answer, in)
  BY DEF Arrives, Reply
<1>3. Hear(c, answer, in, d, jar) /\ jar.session = jar'.session
  OBVIOUS
<1> HIDE DEF answer, status
<1>4. IsTaken(c)
  BY <1>3, HearTakes DEF Muted
<1> QED
  BY <1>1, <1>2, <1>3, <1>4, SameRecords, HearEvolves

LEMMA LoseEvolves ==
    ASSUME IInv, SessionsInv, NEW c \in Calls, Lose(c)
    PROVE  Evolves
<1>1. /\ Muted(Finished(c), c) /\ Quieted(calls, Finished(c))
      /\ Finished(c)[c].stage # "Answered"
  BY FinishedMuted, FinishedQuiet DEF Idle
<1> QED
  BY <1>1, SilenceEvolves DEF Lose

LEMMA GiveUpEvolves ==
    ASSUME IInv, SessionsInv, NEW c \in Calls, NEW d \in Calls, GiveUp(c, d)
    PROVE  Evolves
<1> DEFINE in == [calls EXCEPT ![c] = Abandoned(@)]
<1>1. /\ calls[c].stage \in {"Sent", "Checked"}
      /\ calls[c] \in Call /\ CallWell(calls[c]) /\ calls \in AllCalls
  BY CallOf, CallsTyped DEF GiveUp
<1>2. in \in AllCalls /\ in[c] = Abandoned(calls[c])
      /\ \A e \in Calls : e # c => in[e] = calls[e]
  BY <1>1, AbandonedCall DEF AllCalls
<1>3. Hear(c, Reply("unavailable"), in, d, jar) /\ UNCHANGED <<serverVars, jar>>
  BY DEF GiveUp
<1> HIDE DEF in
<1>4. Muted(in, c)
  BY <1>1, <1>2, AbandonedCall DEF Muted
<1>5. Quieted(calls, in)
  BY <1>1, <1>2, AbandonedQuiet DEF Quieted, IsQuieter
<1>6. in[c].stage # "Answered"
  BY <1>1, <1>2, <1>5 DEF Quieted, IsQuieter
<1> QED
  BY <1>1, <1>3, <1>4, <1>5, <1>6, SilenceEvolves

-----------------------------------------------------------------------------
(* Every step evolves so: the server                                       *)

LEMMA AnsweredMoves ==
    ASSUME IInv, NEW c \in Calls, calls[c].stage \in {"Sent", "Checked"},
           NEW answer, Answered(c, answer), IsTrue(c, answer)
    PROVE  CallsMove
<1> DEFINE old == calls[c]
           new == [old EXCEPT !.stage = "Answered", !.answer = answer,
                              !.cookies = NoCookies]
<1>1. old \in Call /\ calls \in AllCalls
  BY CallOf, CallsTyped
<1>2. CASE old.awaited
  <2>1. calls' = [calls EXCEPT ![c] = new]
    BY <1>1, <1>2 DEF Answered, AllCalls
  <2>2. /\ new.stage = "Answered" /\ new.answer = answer /\ new.cookies = NoCookies
        /\ new.tab = old.tab /\ new.kind = old.kind /\ new.fresh = old.fresh
        /\ new.then = old.then /\ new.subject = old.subject /\ new.latest = old.latest
    BY <1>1 DEF Call
  <2> HIDE DEF new
  <2>3. calls'[c] = new /\ \A e \in Calls : e # c => calls'[e] = calls[e]
    BY <1>1, <2>1 DEF AllCalls
  <2>4. Says(c)
    BY <2>2, <2>3 DEF Says
  <2>5. IsServed(c)
    BY <2>2, <2>3, <2>4 DEF IsServed
  <2> QED
    BY <2>3, <2>5 DEF CallsMove, IsQuieter
<1>3. CASE ~ old.awaited
  <2>1. calls' = [calls EXCEPT ![c] = Idle]
    BY <1>1, <1>3 DEF Answered, AllCalls
  <2>2. calls'[c] = Idle /\ \A e \in Calls : e # c => calls'[e] = calls[e]
    BY <1>1, <2>1 DEF AllCalls
  <2> QED
    BY <2>2 DEF CallsMove, IsQuieter, Idle
<1> QED
  BY <1>2, <1>3

LEMMA CheckedMoves ==
    ASSUME IInv, NEW c \in Calls, calls[c].stage = "Sent", calls[c].kind # "inspect",
           calls' = [calls EXCEPT ![c].stage = "Checked"]
    PROVE  CallsMove
<1> DEFINE old == calls[c]
           new == [old EXCEPT !.stage = "Checked"]
<1>1. old \in Call /\ calls \in AllCalls
  BY CallOf, CallsTyped
<1>2. calls' = [calls EXCEPT ![c] = new]
  BY <1>1 DEF AllCalls
<1>3. /\ new.stage = "Checked" /\ new.cookies = old.cookies
      /\ new.tab = old.tab /\ new.kind = old.kind /\ new.fresh = old.fresh
      /\ new.then = old.then /\ new.subject = old.subject /\ new.latest = old.latest
  BY <1>1 DEF Call
<1> HIDE DEF new
<1>4. calls'[c] = new /\ \A e \in Calls : e # c => calls'[e] = calls[e]
  BY <1>1, <1>2 DEF AllCalls
<1>5. IsServed(c)
  BY <1>3, <1>4 DEF IsServed
<1> QED
  BY <1>4, <1>5 DEF CallsMove, IsQuieter

\* Nothing is said in an answer that is neither "ok" nor sets the cookie of a session,
\* but that an inspection found nothing.
LEMMA TellsNothing ==
    ASSUME NEW c, NEW answer, answer.setSession \in {Null, Erase},
           answer.status # "ok",
           calls[c].kind = "inspect" => answer.status # "required"
    PROVE  IsTrue(c, answer)
  BY SecretsDiffer DEF IsTrue

LEMMA ServerMoves ==
    ASSUME UNCHANGED tabVars, CallsMove, RecordsMove
    PROVE  Evolves
  BY SameTabs, SameSpent DEF Evolves, tabVars

LEMMA SameServer ==
    ASSUME UNCHANGED serverVars, UNCHANGED tabVars
    PROVE  RecordsMove
  BY SameRecords DEF tabVars

LEMMA ReplyTrue ==
    ASSUME NEW c, NEW status,
           \/ status \in {"restart", "rejected", "unavailable", "limited"}
           \/ status = "required" /\ calls[c].kind # "inspect"
    PROVE  IsTrue(c, Reply(status))
<1> DEFINE answer == Reply(status)
<1>1. answer.setSession = Null /\ answer.status = status
  BY DEF Reply
<1> HIDE DEF answer
<1>2. IsTrue(c, answer)
  BY <1>1, TellsNothing
<1> QED
  BY <1>2 DEF answer

LEMMA RestartTrue ==
    ASSUME NEW c, calls[c].kind # "inspect"
    PROVE  IsTrue(c, Restart) /\ IsTrue(c, Reply("restart"))
<1> DEFINE answer == Restart
           reply == Reply("restart")
<1>1. /\ answer.setSession = Null /\ answer.status = "restart"
      /\ reply.setSession = Null /\ reply.status = "restart"
  BY DEF Restart, Reply
<1> HIDE DEF answer, reply
<1>2. IsTrue(c, answer) /\ IsTrue(c, reply)
  BY <1>1, TellsNothing
<1> QED
  BY <1>2 DEF answer, reply

\* What was committed is answered, or "unavailable".
LEMMA UnknownMoves ==
    ASSUME IInv, NEW c \in Calls, calls[c].stage \in {"Sent", "Checked"},
           calls[c].kind # "inspect",
           NEW answer, AnsweredOrUnknown(c, answer), IsTrue(c, answer)
    PROVE  CallsMove
<1> DEFINE status == "unavailable"
<1>1. IsTrue(c, Reply(status))
  BY ReplyTrue
<1> QED
  BY <1>1, AnsweredMoves DEF AnsweredOrUnknown

LEMMA RefuseEvolves ==
    ASSUME IInv, NEW c \in Calls, Refuse(c), UNCHANGED tabVars
    PROVE  Evolves
<1>1. PICK status \in {"limited", "unavailable"} : Answered(c, Reply(status))
  BY DEF Refuse
<1>2. calls[c].stage \in {"Sent", "Checked"} /\ IsTrue(c, Reply(status))
  BY ReplyTrue DEF Refuse
<1> QED
  BY <1>1, <1>2, AnsweredMoves, SameServer, ServerMoves DEF Refuse

LEMMA BeginEvolves ==
    ASSUME IInv, NEW c \in Calls, Begin(c), UNCHANGED tabVars
    PROVE  Evolves
<1>1. /\ calls[c].stage = "Sent" /\ calls[c].kind = "begin"
      /\ UNCHANGED <<sessions, jar>>
  BY DEF Begin, At, tabVars
<1>2. CASE Answered(c, Reply("restart")) /\ UNCHANGED attempts
  <2>1. RecordsMove
    BY <1>1, <1>2 DEF RecordsMove
  <2>2. CallsMove
    BY <1>1, <1>2, RestartTrue, AnsweredMoves
  <2> QED
    BY <2>1, <2>2, ServerMoves
<1>3. ASSUME NEW a \in Attempts \ DOMAIN attempts,
             DOMAIN attempts' = DOMAIN attempts \cup {a},
             AnsweredOrUnknown(c, Issued(a))
      PROVE  Evolves
  <2> DEFINE answer == Issued(a)
  <2>1. answer.status = "ok" /\ answer.value = a /\ answer.setSession = Null
    BY DEF Issued, Reply
  <2>2. AnsweredOrUnknown(c, answer)
    BY <1>3
  <2> HIDE DEF answer
  <2>3. IsTrue(c, answer)
    BY <1>1, <1>3, <2>1, SecretsDiffer DEF IsTrue
  <2>4. CallsMove
    BY <1>1, <2>2, <2>3, UnknownMoves
  <2>5. RecordsMove
    BY <1>1, <1>3 DEF RecordsMove
  <2> QED
    BY <2>4, <2>5, ServerMoves
<1> QED
  BY <1>2, <1>3 DEF Begin

LEMMA LoginChecksEvolve ==
    ASSUME IInv, NEW c \in Calls, ReadAttempt(c) \/ InvalidCredential(c),
           UNCHANGED tabVars
    PROVE  Evolves
<1>1. RecordsMove /\ calls[c].kind = "login" /\ calls[c].stage \in {"Sent", "Checked"}
  BY SameServer DEF ReadAttempt, InvalidCredential, At
<1>2. CASE ReadAttempt(c)
  BY <1>1, <1>2, RestartTrue, AnsweredMoves, CheckedMoves, ServerMoves
     DEF ReadAttempt, At
<1>3. CASE InvalidCredential(c)
  <2> DEFINE status == "required"
  <2>1. IsTrue(c, Reply(status))
    BY <1>1, ReplyTrue
  <2>2. Answered(c, Reply(status))
    BY <1>3 DEF InvalidCredential
  <2> HIDE DEF status
  <2> QED
    BY <1>1, <2>1, <2>2, AnsweredMoves, ServerMoves
<1> QED
  BY <1>2, <1>3

LEMMA CompleteEvolves ==
    ASSUME IInv, NEW c \in Calls, Complete(c), UNCHANGED tabVars
    PROVE  Evolves
<1>1. /\ calls[c].stage = "Checked" /\ calls[c].kind = "login" /\ UNCHANGED jar
  <2>1. At(c, "login", "Checked")
    BY Zenon DEF Complete
  <2> QED
    BY <2>1 DEF At, tabVars
<1>2. CASE /\ Answered(c, Reply("restart")) \/ Answered(c, Restart)
           /\ UNCHANGED <<attempts, sessions>>
  <2>1. RecordsMove
    BY <1>1, <1>2 DEF RecordsMove
  <2>2. CallsMove
    BY <1>1, <1>2, RestartTrue, AnsweredMoves
  <2> QED
    BY <2>1, <2>2, ServerMoves
<1>3. ASSUME NEW s \in Sessions \ DOMAIN sessions,
             sessions' = [x \in DOMAIN sessions \cup {s} |->
                 IF x = s THEN [state |-> "active", attempt |-> calls[c].subject]
                          ELSE sessions[x]],
             attempts' = [attempts EXCEPT ![calls[c].subject] = "consumed"],
             AnsweredOrUnknown(c, [Reply("ok") EXCEPT !.setSession = s,
                                                      !.setAttempt = Erase])
      PROVE  Evolves
  <2> DEFINE answer == [Reply("ok") EXCEPT !.setSession = s, !.setAttempt = Erase]
  <2>1. answer.setSession = s
    BY DEF Reply
  <2>2. AnsweredOrUnknown(c, answer)
    BY <1>3
  <2> HIDE DEF answer
  <2>3. s \notin DOMAIN sessions /\ s \in DOMAIN sessions'
    BY <1>3
  <2>4. IsTrue(c, answer)
    BY <1>1, <2>1, <2>3 DEF IsTrue
  <2>5. CallsMove
    BY <1>1, <2>2, <2>4, UnknownMoves
  <2>6. RecordsMove
    BY <1>1, <1>3 DEF RecordsMove
  <2> QED
    BY <2>5, <2>6, ServerMoves
<1> QED
  BY <1>2, <1>3, Zenon DEF Complete

LEMMA InspectEvolves ==
    ASSUME IInv, NEW c \in Calls, Inspect(c), UNCHANGED tabVars
    PROVE  Evolves
<1>1. /\ calls[c].stage = "Sent" /\ calls[c].kind = "inspect" /\ RecordsMove
  BY SameServer DEF Inspect, At
<1>2. CASE SessionActive(c)
  <2> DEFINE answer == [Reply("ok") EXCEPT !.value = calls[c].cookies.session]
  <2>1. /\ answer.status = "ok" /\ answer.value = calls[c].cookies.session
        /\ answer.setSession = Null
    BY DEF Reply
  <2>2. Answered(c, answer)
    BY <1>2 DEF Inspect
  <2> HIDE DEF answer
  <2>3. IsTrue(c, answer)
    BY <1>1, <1>2, <2>1, SecretsDiffer DEF IsTrue
  <2> QED
    BY <1>1, <2>2, <2>3, AnsweredMoves, ServerMoves
<1>3. CASE ~ SessionActive(c)
  <2> DEFINE answer == [Reply("required") EXCEPT !.setSession = Erase]
  <2>1. answer.status = "required" /\ answer.setSession = Erase
    BY DEF Reply
  <2>2. Answered(c, answer)
    BY <1>3 DEF Inspect
  <2> HIDE DEF answer
  <2>3. IsTrue(c, answer)
    BY <1>1, <1>3, <2>1, SecretsDiffer DEF IsTrue
  <2> QED
    BY <1>1, <2>2, <2>3, AnsweredMoves, ServerMoves
<1> QED
  BY <1>2, <1>3

LEMMA CheckLogoutEvolves ==
    ASSUME IInv, NEW c \in Calls, CheckLogout(c), UNCHANGED tabVars
    PROVE  Evolves
<1> DEFINE answer == [Reply("ok") EXCEPT !.setSession = Erase]
           status == "rejected"
<1>1. calls[c].stage = "Sent" /\ calls[c].kind = "logout" /\ RecordsMove
  BY SameServer DEF CheckLogout, At
<1>2. answer.status = "ok" /\ answer.setSession = Erase
  BY DEF Reply
<1>3. \/ Answered(c, answer) /\ ~ SessionActive(c)
      \/ Answered(c, Reply(status))
      \/ calls' = [calls EXCEPT ![c].stage = "Checked"]
  BY DEF CheckLogout
<1> HIDE DEF answer
<1>4. ~ SessionActive(c) => IsTrue(c, answer)
  BY <1>1, <1>2, SecretsDiffer DEF IsTrue
<1>5. IsTrue(c, Reply(status))
  BY ReplyTrue
<1> HIDE DEF status
<1>6. CallsMove
  BY <1>1, <1>3, <1>4, <1>5, AnsweredMoves, CheckedMoves
<1> QED
  BY <1>1, <1>6, ServerMoves

LEMMA RevokeEvolves ==
    ASSUME IInv, SessionsInv, NEW c \in Calls, Revoke(c), UNCHANGED tabVars
    PROVE  Evolves
<1> DEFINE answer == [Reply("ok") EXCEPT !.setSession = Erase]
           id == calls[c].subject
<1>1. /\ calls[c].stage = "Checked" /\ calls[c].kind = "logout"
      /\ UNCHANGED <<attempts, jar>>
      /\ sessions' = [sessions EXCEPT ![id].state = "ended"]
  BY DEF Revoke, At, tabVars
<1>2. id \in Sessions
  BY <1>1, CallOf DEF CallWell
<1>3. id \in DOMAIN sessions
  <2>1. IsKnown(id)
    BY <1>1 DEF IsKnown, Tells, IsSignOut
  <2> QED
    BY <1>2, <2>1 DEF SessionsInv, KnownStay, Stays
<1>4. /\ DOMAIN sessions' = DOMAIN sessions
      /\ \A s \in DOMAIN sessions :
             sessions'[s].state = IF s = id THEN "ended" ELSE sessions[s].state
  <2>1. \A s \in DOMAIN sessions : sessions[s] \in [state: {"active", "ended"}, attempt: Attempts]
    BY DEF IInv, TypeOK
  <2> QED
    BY <1>1, <1>3, <2>1
<1>5. RecordsMove
  BY <1>1, <1>4 DEF RecordsMove
<1>6. answer.setSession = Erase
  BY DEF Reply
<1>7. AnsweredOrUnknown(c, answer)
  BY DEF Revoke
<1> HIDE DEF answer
<1>8. IsTrue(c, answer)
  BY <1>1, <1>3, <1>4, <1>6, SecretsDiffer DEF IsTrue
<1>9. CallsMove
  BY <1>1, <1>7, <1>8, UnknownMoves
<1> QED
  BY <1>5, <1>9, ServerMoves

LEMMA TimeEvolves ==
    ASSUME IInv, Time, UNCHANGED tabVars
    PROVE  Evolves
<1>1. CallsMove
  BY CallsTyped, QuietedSame, CallsQuieted DEF Time, AttemptExpires, SessionEnds
<1>2. RecordsMove
  <2>1. CASE \E a \in Attempts : AttemptExpires(a)
    BY <2>1 DEF AttemptExpires, RecordsMove, tabVars
  <2>2. ASSUME NEW s \in Sessions, SessionEnds(s)
        PROVE  RecordsMove
    <3>1. \A x \in DOMAIN sessions : sessions[x] \in [state: {"active", "ended"}, attempt: Attempts]
      BY DEF IInv, TypeOK
    <3> QED
      BY <2>2, <3>1 DEF SessionEnds, RecordsMove, tabVars
  <2> QED
    BY <2>1, <2>2 DEF Time
<1> QED
  BY <1>1, <1>2, ServerMoves

-----------------------------------------------------------------------------
(* The invariant of the sessions and the attempts                          *)

FullInv == IInv /\ SessionsInv /\ AttemptsInv

LEMMA ServeEvolves ==
    ASSUME IInv, SessionsInv, NEW c \in Calls, Serve(c), UNCHANGED tabVars
    PROVE  Evolves
  BY RefuseEvolves, BeginEvolves, LoginChecksEvolve, CompleteEvolves, InspectEvolves,
     CheckLogoutEvolves, RevokeEvolves DEF Serve

LEMMA NextEvolves == FullInv /\ [Next]_vars => Evolves
<1> SUFFICES ASSUME IInv, SessionsInv, AttemptsInv, [Next]_vars
             PROVE  Evolves
  BY DEF FullInv
<1>0. IInv'
  BY NextInv
<1>1. Focus => Evolves
  BY RefreshEvolves DEF Focus
<1>2. ASSUME NEW t \in Tabs, User(t)
      PROVE  Evolves
  BY <1>0, <1>2, StartEvolves, PressBeginEvolves, CredentialEvolves, LogoutEvolves,
     StopEvolves, ReloadEvolves, ClickGoogleEvolves, CancelEvolves DEF User
<1>3. ASSUME NEW t \in Tabs, Page(t)
      PROVE  Evolves
  BY <1>3, MountGoogleEvolves, GoogleUnavailableEvolves, CheckExpiryEvolves,
     CoolDownEvolves DEF Page
<1>4. Network => Evolves
  BY ServeEvolves, ReceiveEvolves, LoseEvolves, GiveUpEvolves DEF Network, Return
<1>5. Time /\ UNCHANGED tabVars => Evolves
  BY TimeEvolves
<1>6. UNCHANGED vars => Evolves
  <2> SUFFICES ASSUME UNCHANGED vars
               PROVE  Evolves
    OBVIOUS
  <2>1. UNCHANGED <<serverVars, calls, jar, tabs, spent, signedOut>>
    BY DEF vars, tabVars
  <2>2. CallsMove
    BY <2>1, CallsTyped, QuietedSame, CallsQuieted
  <2> QED
    BY <2>1, <2>2, SameTabs, SameRecords, SameSpent DEF Evolves
<1> QED
  BY <1>1, <1>2, <1>3, <1>4, <1>5, <1>6 DEF Next

LEMMA InitSessions == Init => SessionsInv /\ AttemptsInv
<1> SUFFICES ASSUME Init
             PROVE  SessionsInv /\ AttemptsInv
  OBVIOUS
<1>1. \A c \in Calls : calls[c].stage = "Idle"
  BY DEF Init, Idle
<1>2. /\ jar.session = Null
      /\ \A t \in Tabs : tabs[t].session = Null /\ tabs[t].attempt = Null
                         /\ signedOut[t] = {}
      /\ spent = {}
  BY DEF Init
<1>3. KnownStay
  BY <1>1, <1>2, SecretsDiffer DEF KnownStay, IsKnown, Tells, Finds
<1>4. CarriedOnce /\ OneLatest /\ InspectionsAreTrue /\ LogoutsAreTrue
  BY <1>1 DEF CarriedOnce, Carries, OneLatest, InspectionsAreTrue, LogoutsAreTrue,
              IsLatest, IsHeard
<1>5. SignOutsAreFollowed /\ SignedOutAreGone
  BY <1>1, <1>2 DEF SignOutsAreFollowed, SignedOutAreGone, IsHeard
<1>6. AttemptsInv
  BY <1>1, <1>2 DEF AttemptsInv, Offers
<1> QED
  BY <1>3, <1>4, <1>5, <1>6 DEF SessionsInv

LEMMA FullInvariance == Spec => []FullInv
<1>1. Init => FullInv
  BY InitInv, InitSessions DEF FullInv
<1>2. FullInv /\ [Next]_vars => FullInv'
  BY NextInv, NextEvolves, SessionsKept, AttemptsKept DEF FullInv
<1> QED
  BY <1>1, <1>2, PTL DEF Spec

-----------------------------------------------------------------------------
(* Sessions and attempts last                                              *)

\* For any number of tabs, calls and sessions: a tab that has confirmed the end of a
\* session never shows it again, whatever answer was on its way, and confirms it only
\* when the session has ended or is lost to the browser.
THEOREM SignOutsAreFinal == Spec => []SignOutIsFinal
<1>1. FullInv => SignOutIsFinal
  <2> SUFFICES ASSUME FullInv
               PROVE  SignOutIsFinal
    OBVIOUS
  <2>1. TypeOK /\ SignedOutAreGone
    BY DEF FullInv, IInv, SessionsInv
  <2>2. NoResurrection /\ SignedOutIsOver
    BY <2>1 DEF NoResurrection, SignedOutIsOver, SignedOutAreGone, Gone, Over
  <2> QED
    BY <2>1, <2>2 DEF SignOutIsFinal
<1> QED
  BY <1>1, FullInvariance, PTL

\* No step makes more of an attempt that is not ready, or a session of it.
LEMMA OnlyReadyAttempts ==
    ASSUME IInv, [Next]_vars, NEW a \in DOMAIN attempts, attempts[a] # "ready"
    PROVE  /\ attempts'[a] = attempts[a]
           /\ \A s \in DOMAIN sessions' \ DOMAIN sessions : sessions'[s].attempt # a
<1>1. CASE UNCHANGED <<attempts, sessions>>
  BY <1>1
<1>2. ASSUME NEW c \in Calls, Serve(c)
      PROVE  /\ attempts'[a] = attempts[a]
             /\ \A s \in DOMAIN sessions' \ DOMAIN sessions : sessions'[s].attempt # a
  <2>1. CASE Begin(c)
    BY <2>1 DEF Begin
  <2>2. CASE Complete(c)
    <3>1. CASE UNCHANGED <<attempts, sessions>>
      BY <3>1
    <3>2. ASSUME NEW s \in Sessions \ DOMAIN sessions, CanComplete(c),
                 sessions' = [x \in DOMAIN sessions \cup {s} |->
                     IF x = s THEN [state |-> "active", attempt |-> calls[c].subject]
                              ELSE sessions[x]],
                 attempts' = [attempts EXCEPT ![calls[c].subject] = "consumed"]
          PROVE  /\ attempts'[a] = attempts[a]
                 /\ \A x \in DOMAIN sessions' \ DOMAIN sessions : sessions'[x].attempt # a
      <4>1. calls[c].subject # a
        BY <3>2 DEF CanComplete, AttemptReady
      <4>2. attempts'[a] = attempts[a]
        BY <3>2, <4>1 DEF IInv, TypeOK
      <4>3. \A x \in DOMAIN sessions' \ DOMAIN sessions : sessions'[x].attempt # a
        BY <3>2, <4>1
      <4> QED
        BY <4>2, <4>3
    <3> QED
      BY <2>2, <3>1, <3>2, Zenon DEF Complete
  <2>3. CASE Revoke(c)
    BY <2>3 DEF Revoke
  <2>4. CASE UNCHANGED serverVars
    BY <1>1, <2>4 DEF serverVars
  <2> QED
    BY <1>2, <2>1, <2>2, <2>3, <2>4
       DEF Serve, Refuse, ReadAttempt, InvalidCredential, Inspect, CheckLogout
<1>3. CASE Time
  BY <1>3 DEF Time, AttemptExpires, SessionEnds
<1>4. ASSUME NEW t \in Tabs, User(t) \/ Page(t)
      PROVE  UNCHANGED <<attempts, sessions>>
  BY <1>4 DEF User, Page, Start, PressBegin, Credential, Logout, Stop, Reload, ClickGoogle,
     Cancel, MountGoogle, GoogleUnavailable, CheckExpiry, CoolDown, UnchangedRest, serverVars
<1>5. Focus => UNCHANGED <<attempts, sessions>>
  BY DEF Focus, Refresh, UnchangedRest, serverVars
<1>6. ASSUME NEW c \in Calls, Return(c)
      PROVE  UNCHANGED <<attempts, sessions>>
  BY <1>6 DEF Return, Receive, Lose, GiveUp, serverVars
<1>7. UNCHANGED vars => UNCHANGED <<attempts, sessions>>
  BY DEF vars, serverVars
<1> QED
  BY <1>1, <1>2, <1>3, <1>4, <1>5, <1>6, <1>7 DEF Next, Network

\* For any number of tabs, calls, attempts and sessions: an attempt becomes a session at
\* most once and its credential is sent at most once, and a tab that is not left keeps
\* the session it shows until the session ends or the browser loses its cookie.
THEOREM LoginsAlwaysStand == Spec => LoginsStand
<1>1. FullInv /\ [Next]_vars =>
          [\A a \in DOMAIN attempts :
              attempts[a] # "ready" =>
                  /\ attempts'[a] = attempts[a]
                  /\ \A s \in DOMAIN sessions' \ DOMAIN sessions :
                         sessions'[s].attempt # a]_vars
  BY OnlyReadyAttempts DEF FullInv
<1>2. FullInv /\ [Next]_vars =>
          [\A c \in Calls :
              LET IsLogin(call) == call.stage = "Sent" /\ call.kind = "login"
              IN  IsLogin(calls'[c]) /\ ~ IsLogin(calls[c])
                      => calls'[c].subject \notin spent]_vars
  <2> SUFFICES ASSUME FullInv, [Next]_vars, NEW c \in Calls,
                      calls'[c].stage = "Sent", calls'[c].kind = "login",
                      ~ (calls[c].stage = "Sent" /\ calls[c].kind = "login")
               PROVE  calls'[c].subject \notin spent
    OBVIOUS
  <2>1. CallsMove
    BY NextEvolves DEF Evolves
  <2> QED
    BY <2>1 DEF CallsMove, IsQuieter, IsOpened, IsServed
<1>3. FullInv /\ [Next]_vars =>
          [\A t \in Tabs :
              LET s == tabs[t].session
              IN  (s # Null /\ tabs'[t].active /\ tabs'[t].session # s)
                     => sessions[s].state = "ended" \/ jar.session # s]_vars
  <2> SUFFICES ASSUME FullInv, [Next]_vars, NEW t \in Tabs, tabs[t].session # Null,
                      tabs'[t].active, tabs'[t].session # tabs[t].session
               PROVE  \/ sessions[tabs[t].session].state = "ended"
                      \/ jar.session # tabs[t].session
    OBVIOUS
  <2>1. TabsMove
    BY NextEvolves DEF Evolves
  <2> QED
    BY <2>1 DEF TabsMove, SessionMoves, Over
<1>4. Spec => AttemptsEndOnce
  BY <1>1, FullInvariance, PTL DEF Spec, AttemptsEndOnce
<1>5. Spec => CredentialSentOnce
  BY <1>2, FullInvariance, PTL DEF Spec, CredentialSentOnce
<1>6. Spec => DropsOnlyLostSessions
  BY <1>3, FullInvariance, PTL DEF Spec, DropsOnlyLostSessions
<1> QED
  BY <1>4, <1>5, <1>6 DEF LoginsStand
=============================================================================
