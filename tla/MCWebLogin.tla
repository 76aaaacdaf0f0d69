----------------------------- MODULE MCWebLogin -----------------------------
(* The login page in one tab or in two tabs of one browser. *)
EXTENDS WebLogin, TLC

Symmetry ==
    Permutations(Attempts) \cup Permutations(Sessions) \cup Permutations(Calls)
        \cup Permutations(Tabs)

\* The tabs that were ever started.
InUse ==
    {t \in Tabs :
        \/ tabs[t].active \/ tabs[t].attempted \/ tabs[t].attempt # Null
        \/ bound[t] # Null \/ signedOut[t] # {}
        \/ \E c \in Calls : calls[c].stage # "Idle" /\ calls[c].tab = t}

\* A login between its two transactions.
BetweenTransactions(c) == calls[c].stage = "Checked" /\ calls[c].kind = "login"

\* Bounds.  With a second attempt, a second session or a second tab no request is refused for its
\* frequency, and a call that nobody awaits is a login between its transactions, in one tab.  With
\* two sessions no attempt expires.  In two tabs there is one session and no attempt expires; a
\* second attempt comes while a login is between its transactions, beside which only a begin is
\* under way.
OneThingAtATime ==
    LET manyAttempts == Cardinality(DOMAIN attempts) > 1
        manySessions == Cardinality(DOMAIN sessions) > 1
        bothTabs == Cardinality(InUse) > 1
        underway == {c \in Calls : calls[c].stage # "Idle"}
    IN  /\ manySessions => expired = {}
        /\ manyAttempts \/ manySessions \/ bothTabs =>
               /\ \A t \in Tabs : ~ tabs[t].cooling
               /\ \A c \in underway :
                      calls[c].awaited \/ (~ bothTabs /\ BetweenTransactions(c))
        /\ bothTabs =>
               /\ expired = {} /\ ~ manySessions
               /\ manyAttempts =>
                      /\ \E c \in underway : BetweenTransactions(c)
                      /\ \A c \in underway : BetweenTransactions(c) \/ calls[c].kind = "begin"
=============================================================================
