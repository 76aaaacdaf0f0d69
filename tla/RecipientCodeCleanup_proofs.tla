----------------------------- MODULE RecipientCodeCleanup_proofs -----------------------------
EXTENDS RecipientCodeCleanup, FiniteSetTheorems, TLAPS

-----------------------------------------------------------------------------
(* The cleanup of recipient codes: the inductive invariant                 *)

Stages ==
    {"idle", "tickets", "candidates", "next", "inspect", "prepare", "remove", "close", "absent", "complete",
     "recheck", "report"}
Found == [code : Codes, due : Nat, row : BOOLEAN]
Sweeps ==
    [at : Stages, now : Nat, todo : SUBSET Found, attempts : 0..Limit,
     failed : BOOLEAN, left : BOOLEAN, seals : BOOLEAN, code : Codes \cup {Nobody}, due : Nat,
     claims : SUBSET Codes, late : SUBSET Codes, blind : SUBSET Codes]
Uses == [code : Codes \cup {Nobody}, does : {"none", "issue", "end"}, at : Nat, sent : BOOLEAN]
CodesTyped ==
    /\ now \in 0..MaxTime /\ disabled \in [Recipients -> Nat]
    /\ row \in [Codes -> [there : BOOLEAN, ended : Nat]]
    /\ key \in [Codes -> [state : {"none", "live", "destroyed"}, expires : Nat]]
    /\ codeTicket \in [Codes -> [state : {"none", "pending", "complete"}, due : Nat]]
    /\ using \in [Recipients -> Uses]
    /\ sweep \in [Cleaners -> Sweeps]
    /\ damaged \subseteq Codes \cup Recipients /\ returned \subseteq Codes /\ returns \in Nat

\* The destruction of a code is registered, and its row is gone or back from a backup.
RowGone(c) == codeTicket[c].state # "none" /\ (row[c].there => c \in returned)
\* A time that has passed and is not after a code's expiry.
NotAfterEnd(t, c) == t <= now /\ t <= key[c].expires

(* What the tables and the provider hold.                                  *)
CodeFits(c) ==
    /\ ~row[c].there => row[c].ended = Never
    /\ key[c].state = "none" => ~row[c].there /\ codeTicket[c].state = "none"
    /\ key[c].state = "destroyed" => RowGone(c)
    /\ codeTicket[c].state = "complete" => key[c].state = "destroyed"
    /\ c \in returned => codeTicket[c].state = "complete" /\ returns > 0
    /\ codeTicket[c].state # "none" => NotAfterEnd(codeTicket[c].due, c)

(* A transaction of a user, under the actor's lock.                        *)
UseFits(a) ==
    using[a] # Unused =>
      LET c == using[a].code
      IN /\ c \in Codes /\ Owner[c] = a /\ key[c].state = "live" /\ disabled[a] = Never
         /\ \/ /\ using[a].does = "issue" /\ codeTicket[c].state = "none" /\ ~row[c].there
               /\ \A w \in Cleaners : sweep[w].at = "prepare" => sweep[w].code # c
            \/ using[a].does = "end" /\ row[c].there /\ row[c].ended = Never

(* A run, and the code it works on.                                        *)
Working == {"inspect", "prepare", "remove", "close", "absent", "complete", "recheck"}
Collecting == {"tickets", "candidates"}
Registered == {"remove", "close", "absent", "complete"}
SweepFits(j) ==
    /\ j.now <= now
    /\ j.claims \subseteq Listed /\ j.late \subseteq Listed
    /\ \A t \in j.todo : t.code \in Listed /\ NotAfterEnd(t.due, t.code)
    /\ j.at \in Working => j.code \in Listed
    /\ j.at = "prepare" => NotAfterEnd(j.due, j.code)
    /\ j.at \in Registered => codeTicket[j.code].state # "none" /\ codeTicket[j.code].due = j.due
    /\ j.at \in Registered \ {"remove"} => RowGone(j.code)
    /\ j.at \in {"absent", "complete"} => key[j.code].state = "destroyed"
    /\ j.at = "recheck" => codeTicket[j.code].state = "complete"
    /\ j.at \in Collecting => j.attempts = 0 /\ ~j.failed
    /\ j.at = "tickets" => ~j.seals /\ \A t, u \in j.todo : t.code = u.code => t = u
    /\ j.at = "report" => j.todo = {}

CodesInv ==
    /\ CodesTyped
    /\ \A c \in Codes : CodeFits(c)
    /\ \A a \in Recipients : UseFits(a)
    /\ \A w \in Cleaners : SweepFits(sweep[w])

-----------------------------------------------------------------------------
(* Times and records                                                       *)

LEMMA NeverIsLast == Never \in Nat /\ Never > MaxTime
BY CleanupAssumption DEF Never

LEMMA EarliestOfThree ==
    ASSUME NEW a \in Nat, NEW b \in Nat, NEW c \in Nat
    PROVE /\ Earliest({a, b, c}) \in {a, b, c} /\ Earliest({a, b, c}) \in Nat
          /\ Earliest({a, b, c}) <= a /\ Earliest({a, b, c}) <= b /\ Earliest({a, b, c}) <= c
<1> DEFINE S == {a, b, c}
<1>1. \E x \in S : \A y \in S : x <= y
  OBVIOUS
<1>2. Min(S) \in S /\ \A y \in S : Min(S) <= y
  BY <1>1 DEF Min
<1>3. Min(S) \in Nat
  BY <1>2
<1> QED BY <1>2, <1>3 DEF Earliest

LEMMA EarliestOfTwo ==
    ASSUME NEW a \in Nat, NEW b \in Nat
    PROVE Earliest({a, b}) \in {a, b} /\ Earliest({a, b}) <= a /\ Earliest({a, b}) <= b
<1> DEFINE S == {a, b}
<1>1. \E x \in S : \A y \in S : x <= y
  OBVIOUS
<1>2. Min(S) \in S /\ \A y \in S : Min(S) <= y
  BY <1>1 DEF Min
<1> QED BY <1>2 DEF Earliest

LEMMA EarliestOfOne ==
    ASSUME NEW a \in Nat
    PROVE Earliest({a}) = a
<1>1. \E x \in {a} : \A y \in {a} : x <= y
  OBVIOUS
<1> QED BY <1>1 DEF Min, Earliest

LEMMA DoneMoves ==
    ASSUME NEW j \in Sweeps
    PROVE LET d == Done(j)
          IN /\ d \in Sweeps /\ d.at = "next" /\ d.now = j.now /\ d.todo = j.todo /\ d.attempts = j.attempts
             /\ d.failed = j.failed /\ d.left = j.left /\ d.seals = j.seals
             /\ d.claims = j.claims /\ d.late = j.late /\ d.blind = j.blind
BY NeverIsLast DEF Done, Sweeps, Stages

LEMMA FailedMoves ==
    ASSUME NEW j \in Sweeps
    PROVE LET d == Failed(j)
          IN /\ d \in Sweeps /\ d.at = "next" /\ d.now = j.now /\ d.todo = j.todo
             /\ d.failed /\ d.claims = j.claims /\ d.late = j.late
BY NeverIsLast DEF Failed, Done, Sweeps, Stages

LEMMA RestingIs ==
    /\ Resting \in Sweeps /\ Resting.at = "idle" /\ Resting.now = 0 /\ Resting.todo = {} /\ Resting.attempts = 0
    /\ ~Resting.failed /\ ~Resting.left /\ ~Resting.seals
    /\ Resting.claims = {} /\ Resting.late = {} /\ Resting.blind = {}
BY NeverIsLast, CleanupAssumption DEF Resting, Sweeps, Stages

-----------------------------------------------------------------------------
(* What lasts under every step                                             *)

\* Time passes, a row that is gone stays gone, and what the provider and the actor's row say of
\* an end is final.
Lasts ==
    /\ now <= now' /\ returns <= returns'
    /\ \A c \in Codes : RowGone(c) => RowGone(c)'
    /\ \A c \in Listed : c \in Listed' /\ key'[c].expires = key[c].expires
    /\ \A c \in Codes : codeTicket[c].state # "none" =>
          codeTicket'[c].state # "none" /\ codeTicket'[c].due = codeTicket[c].due
    /\ \A c \in Codes : codeTicket[c].state = "complete" => codeTicket'[c].state = "complete"
    /\ \A c \in Codes : key[c].state = "destroyed" => key'[c].state = "destroyed"
    /\ \A a \in Recipients : disabled'[a] = disabled[a] \/ (disabled[a] = Never /\ disabled'[a] = now)

Tables == <<now, disabled, row, key, damaged, codeTicket, using, returned, returns>>

LEMMA EndLasts ==
    ASSUME CodesTyped, CodesTyped', Lasts, NEW t \in Nat, NEW c \in Listed, NotAfterEnd(t, c)
    PROVE NotAfterEnd(t, c)'
<1>1. c \in Codes /\ Owner[c] \in Recipients
  BY CleanupAssumption DEF Listed
<1>2. now \in Nat /\ now' \in Nat /\ disabled[Owner[c]] \in Nat /\ disabled'[Owner[c]] \in Nat
  BY <1>1 DEF CodesTyped
<1> QED BY <1>1, <1>2 DEF NotAfterEnd, Lasts

\* A run that somebody else is in keeps what it knows.
LEMMA SweepLasts ==
    ASSUME CodesTyped, CodesTyped', Lasts, NEW j \in Sweeps, SweepFits(j)
    PROVE SweepFits(j)'
<1>1. j.now <= now'
  BY DEF SweepFits, Lasts, CodesTyped, Sweeps
<1>2. j.claims \subseteq Listed' /\ j.late \subseteq Listed'
  BY DEF SweepFits, Lasts
<1>3. ASSUME NEW t \in j.todo PROVE t.code \in Listed' /\ NotAfterEnd(t.due, t.code)'
  <2>1. t.due \in Nat /\ t.code \in Listed /\ NotAfterEnd(t.due, t.code)
    BY DEF SweepFits, Sweeps, Found
  <2> QED BY <2>1, EndLasts DEF Lasts
<1>4. j.at \in Working => j.code \in Codes /\ j.code \in Listed'
  BY DEF SweepFits, Lasts, Listed
<1>5. j.at = "prepare" => NotAfterEnd(j.due, j.code)'
  <2>1. j.due \in Nat
    BY DEF Sweeps
  <2>2. j.at = "prepare" => j.code \in Listed
    BY DEF SweepFits, Working
  <2> QED BY <2>1, <2>2, EndLasts DEF SweepFits
<1>6. j.at \in Registered => j.at \in Working
  BY DEF Registered, Working
<1>7. /\ j.at \in Registered => codeTicket'[j.code].state # "none" /\ codeTicket'[j.code].due = j.due
      /\ j.at \in Registered \ {"remove"} => RowGone(j.code)'
      /\ j.at \in {"absent", "complete"} => key'[j.code].state = "destroyed"
      /\ j.at = "recheck" => codeTicket'[j.code].state = "complete"
  BY <1>4, <1>6 DEF SweepFits, Lasts, Working, Registered
<1>8. /\ j.at \in Collecting => j.attempts = 0 /\ ~j.failed
      /\ j.at = "tickets" => ~j.seals /\ \A t, u \in j.todo : t.code = u.code => t = u
      /\ j.at = "report" => j.todo = {}
  BY DEF SweepFits
<1> QED BY <1>1, <1>2, <1>3, <1>4, <1>5, <1>7, <1>8 DEF SweepFits

\* A step within a run that leaves the tables alone.
LEMMA QuietMove ==
    ASSUME CodesInv, UNCHANGED Tables, NEW w \in Cleaners, NEW j \in Sweeps,
           sweep' = [sweep EXCEPT ![w] = j], SweepFits(j),
           j.at = "prepare" => \A a \in Recipients : using[a] # Unused => using[a].code # j.code
    PROVE CodesInv' /\ Lasts
<1>1. CodesTyped'
  BY DEF CodesInv, CodesTyped, Tables
<1>2. Lasts
  BY DEF Lasts, Tables, CodesInv, CodesTyped, RowGone, Listed
<1>3. \A c \in Codes : CodeFits(c)'
  BY DEF CodesInv, CodeFits, Tables, RowGone, NotAfterEnd
<1>4. ASSUME NEW a \in Recipients PROVE UseFits(a)'
  BY DEF CodesInv, UseFits, Tables, CodesTyped
<1>5. ASSUME NEW v \in Cleaners PROVE SweepFits(sweep[v])'
  <2>1. PICK i \in Sweeps : i = sweep'[v] /\ SweepFits(i)
    BY DEF CodesInv, CodesTyped
  <2> QED BY <1>1, <1>2, <2>1, SweepLasts DEF CodesInv
<1> QED BY <1>1, <1>2, <1>3, <1>4, <1>5 DEF CodesInv

\* A run that rests, or goes on to the next code.
LEMMA RestingFits ==
    ASSUME CodesInv
    PROVE SweepFits(Resting)
BY RestingIs DEF SweepFits, Working, Registered, Collecting, CodesInv, CodesTyped

LEMMA NextFits ==
    ASSUME NEW j \in Sweeps, NEW d \in Sweeps, SweepFits(j), d.at = "next", d.now = j.now, d.todo \subseteq j.todo,
           d.claims = j.claims, d.late = j.late
    PROVE SweepFits(d)
BY DEF SweepFits, Working, Registered, Collecting

LEMMA DoneFits ==
    ASSUME NEW j \in Sweeps, SweepFits(j)
    PROVE Done(j) \in Sweeps /\ SweepFits(Done(j)) /\ Done(j).at # "prepare"
BY DoneMoves, NextFits

LEMMA FailedFits ==
    ASSUME NEW j \in Sweeps, SweepFits(j)
    PROVE Failed(j) \in Sweeps /\ SweepFits(Failed(j)) /\ Failed(j).at # "prepare"
BY FailedMoves, NextFits

-----------------------------------------------------------------------------
(* The steps of a run that read                                            *)

LEMMA OverSinceIs ==
    ASSUME CodesTyped, NEW c \in Codes
    PROVE /\ OverSince(c) \in Nat
          /\ OverSince(c) \in {key[c].expires, row[c].ended, disabled[Owner[c]]}
          /\ OverSince(c) <= key[c].expires /\ OverSince(c) <= row[c].ended /\ OverSince(c) <= disabled[Owner[c]]
<1>1. key[c].expires \in Nat /\ row[c].ended \in Nat /\ disabled[Owner[c]] \in Nat
  BY CleanupAssumption DEF CodesTyped
<1> QED BY <1>1, EarliestOfThree DEF OverSince

LEMMA WindowIs ==
    ASSUME NEW a \in Nat, NEW b \in Nat, NEW c \in Nat
    PROVE /\ Window(a, b, c) \in Nat /\ Window(a, b, c) \in {a, b, c}
          /\ Window(a, b, c) <= a /\ Window(a, b, c) <= b /\ Window(a, b, c) <= c
BY EarliestOfThree DEF Window

LEMMA FirstAreEarliest ==
    ASSUME NEW S \in SUBSET Codes, NEW time, NEW T \in FirstOf(S, time)
    PROVE /\ T \subseteq S /\ (S # {} => T # {})
          /\ \A x \in T, y \in S \ T : time[x] <= time[y]
<1>1. IsFiniteSet(S) /\ T \in SUBSET S /\ Cardinality(T) = Earliest({Limit, Cardinality(S)})
  BY CleanupAssumption, FS_Subset DEF FirstOf
<1>2. Limit \in Nat \ {0} /\ Cardinality(S) \in Nat
  BY <1>1, CleanupAssumption, FS_CardinalityType
<1>3. Cardinality(T) \in {Limit, Cardinality(S)}
  BY <1>1, <1>2, EarliestOfTwo
<1>4. S # {} => T # {}
  BY <1>1, <1>2, <1>3, FS_EmptySet
<1> QED BY <1>1, <1>4 DEF FirstOf

Over == {c \in Codes : row[c].there /\ now >= OverSince(c)}
Begins(j, hints) ==
    /\ hints \in FirstOf(Over, [c \in Codes |-> OverSince(c)])
    /\ j.at = "tickets" /\ j.now = now /\ j.left = (hints # Over)
    /\ j.todo = {Candidate(c, OverSince(c), TRUE) : c \in hints}
    /\ j.claims = {c \in Codes : key[c].state = "live" /\ now >= OverSince(c)}
    /\ j.late = {c \in Codes : key[c].state = "live" /\ now >= OverSince(c) + Day}
    /\ ~j.failed /\ ~j.seals /\ j.attempts = 0 /\ j.blind = {}
LEMMA RunMoves ==
    ASSUME CodesTyped, NEW w \in Cleaners, Run(w)
    PROVE \E j \in Sweeps, hints \in SUBSET Codes :
            sweep' = [sweep EXCEPT ![w] = j] /\ UNCHANGED Tables /\ Begins(j, hints)
<1>1. PICK hints \in FirstOf(Over, [c \in Codes |-> OverSince(c)]) :
        Goes(w, [Resting EXCEPT !.at = "tickets", !.now = now, !.left = hints # Over,
                                !.todo = {Candidate(c, OverSince(c), TRUE) : c \in hints},
                                !.claims = {c \in Codes : key[c].state = "live" /\ now >= OverSince(c)},
                                !.late = {c \in Codes : key[c].state = "live" /\ now >= OverSince(c) + Day}])
  BY DEF Run, Over, IsOverdue
<1>2. hints \subseteq Codes
  BY <1>1 DEF FirstOf, Over
<1>3. PICK left \in BOOLEAN : left = (hints # Over)
  OBVIOUS
<1>4. PICK todo \in SUBSET Found : todo = {Candidate(c, OverSince(c), TRUE) : c \in hints}
  <2>1. ASSUME NEW c \in hints PROVE Candidate(c, OverSince(c), TRUE) \in Found
    BY <1>2, OverSinceIs DEF Candidate, Found
  <2> QED BY <2>1
<1>5. PICK claims \in SUBSET Codes : claims = {c \in Codes : key[c].state = "live" /\ now >= OverSince(c)}
  OBVIOUS
<1>6. PICK late \in SUBSET Codes : late = {c \in Codes : key[c].state = "live" /\ now >= OverSince(c) + Day}
  OBVIOUS
<1> DEFINE j == [Resting EXCEPT !.at = "tickets", !.now = now, !.left = left, !.todo = todo, !.claims = claims,
                                !.late = late]
<1>7. now \in Nat
  BY CleanupAssumption DEF CodesTyped
<1>8. /\ j \in Sweeps /\ j.at = "tickets" /\ j.now = now /\ j.left = left /\ j.todo = todo /\ j.claims = claims
      /\ j.late = late /\ ~j.failed /\ ~j.seals /\ j.attempts = 0 /\ j.blind = {}
  <2>1. PICK r \in Sweeps : r = Resting
    BY RestingIs
  <2>2. PICK n \in Nat : n = now
    BY <1>7
  <2> DEFINE i == [r EXCEPT !.at = "tickets", !.now = n, !.left = left, !.todo = todo, !.claims = claims, !.late = late]
  <2>3. /\ i \in Sweeps /\ i.at = "tickets" /\ i.now = n /\ i.left = left /\ i.todo = todo /\ i.claims = claims
        /\ i.late = late /\ i.failed = r.failed /\ i.seals = r.seals /\ i.attempts = r.attempts /\ i.blind = r.blind
    BY DEF Sweeps, Stages
  <2>4. i = j
    BY <2>1, <2>2
  <2> HIDE DEF i, j
  <2> QED BY <2>1, <2>2, <2>3, <2>4, RestingIs
<1>9. sweep' = [sweep EXCEPT ![w] = j]
  BY <1>1, <1>3, <1>4, <1>5, <1>6 DEF Goes
<1>10. UNCHANGED Tables
  BY DEF Run, Tables
<1> HIDE DEF j
<1>11. Begins(j, hints)
  BY <1>1, <1>3, <1>4, <1>5, <1>6, <1>8 DEF Begins
<1> QED BY <1>2, <1>8, <1>9, <1>10, <1>11

BeginsWith(j, c) ==
    /\ j.at = "next" /\ j.now = 0 /\ ~j.left /\ j.todo = {Candidate(c, 0, TRUE)}
    /\ j.claims = {} /\ j.late = {} /\ j.attempts = 0 /\ ~j.failed /\ ~j.seals
LEMMA CleanOneMoves ==
    ASSUME CodesTyped, NEW w \in Cleaners, NEW c \in Codes, CleanOne(w, c)
    PROVE \E j \in Sweeps :
            sweep' = [sweep EXCEPT ![w] = j] /\ UNCHANGED Tables /\ c \in Listed /\ BeginsWith(j, c)
<1> DEFINE j == [Resting EXCEPT !.at = "next", !.todo = {Candidate(c, 0, TRUE)}]
<1>1. /\ j \in Sweeps /\ j.at = "next" /\ j.now = 0 /\ ~j.left /\ j.todo = {Candidate(c, 0, TRUE)}
      /\ j.claims = {} /\ j.late = {} /\ j.attempts = 0 /\ ~j.failed /\ ~j.seals
  <2>1. PICK r \in Sweeps : r = Resting
    BY RestingIs
  <2>2. PICK todo \in SUBSET Found : todo = {Candidate(c, 0, TRUE)}
    <3>1. {Candidate(c, 0, TRUE)} \in SUBSET Found
      BY DEF Candidate, Found
    <3> QED BY <3>1
  <2> DEFINE i == [r EXCEPT !.at = "next", !.todo = todo]
  <2>3. /\ i \in Sweeps /\ i.at = "next" /\ i.now = r.now /\ i.left = r.left /\ i.todo = todo /\ i.claims = r.claims
        /\ i.late = r.late /\ i.failed = r.failed /\ i.seals = r.seals /\ i.attempts = r.attempts
    BY DEF Sweeps, Stages
  <2>4. i = j
    BY <2>1, <2>2
  <2> HIDE DEF i, j
  <2> QED BY <2>1, <2>2, <2>3, <2>4, RestingIs
<1>2. sweep' = [sweep EXCEPT ![w] = j] /\ UNCHANGED Tables /\ c \in Listed
  BY DEF CleanOne, Goes, Tables
<1> HIDE DEF j
<1> QED BY <1>1, <1>2 DEF BeginsWith

\* What is known of a code twice is merged into one candidate, of the earlier time.
LEMMA MergedIs ==
    ASSUME CodesTyped, NEW hints \in SUBSET Found, NEW c \in Codes,
           \A t, u \in hints : t.code = u.code => t = u
    PROVE LET m == Merged(c, hints)
          IN /\ m \in Found /\ m.code = c /\ m.due <= codeTicket[c].due
             /\ \A h \in hints : h.code = c => m.due <= h.due
             /\ m.due = codeTicket[c].due \/ \E h \in hints : h.code = c /\ m.due = h.due
<1> DEFINE same == {h \in hints : h.code = c}
           due == codeTicket[c].due
           times == {due} \cup {h.due : h \in same}
<1>1. due \in Nat
  BY DEF CodesTyped
<1>2. CASE same = {}
  <2>1. times = {due}
    BY <1>2
  <2>2. Earliest(times) = due
    BY <1>1, <2>1, EarliestOfOne
  <2>3. Merged(c, hints) = Candidate(c, due, FALSE)
    BY <1>2, <2>2 DEF Merged
  <2> QED BY <1>1, <1>2, <2>3 DEF Candidate, Found
<1>3. CASE same # {}
  <2>1. PICK h \in hints : same = {h} /\ h.code = c /\ h.due \in Nat
    <3>1. PICK h \in same : TRUE
      BY <1>3
    <3> QED BY <3>1 DEF Found
  <2>2. times = {due, h.due}
    BY <2>1
  <2>3. Earliest(times) \in {due, h.due} /\ Earliest(times) <= due /\ Earliest(times) <= h.due
    BY <1>1, <2>1, <2>2, EarliestOfTwo
  <2>4. Merged(c, hints) = Candidate(c, Earliest(times), TRUE)
    BY <1>3 DEF Merged
  <2>5. \A g \in hints : g.code = c => g = h
    BY <2>1
  <2>6. PICK e \in Nat : e = Earliest(times)
    BY <1>1, <2>1, <2>3
  <2> HIDE DEF times, due, same
  <2>7. Candidate(c, e, TRUE) \in Found /\ Candidate(c, e, TRUE).code = c /\ Candidate(c, e, TRUE).due = e
    BY DEF Candidate, Found
  <2> QED BY <1>1, <2>1, <2>3, <2>4, <2>5, <2>6, <2>7 DEF due
<1> QED BY <1>2, <1>3

\* The members of i that a step leaves alone.
Keeps(i, j) ==
    /\ j.now = i.now /\ j.failed = i.failed /\ j.claims = i.claims /\ j.late = i.late
    /\ (i.left => j.left) /\ (i.seals => j.seals) /\ i.blind \subseteq j.blind

Reads(i, j, first) ==
    /\ i.at = "tickets" /\ j.at = "candidates" /\ Keeps(i, j) /\ j.attempts = i.attempts /\ j.blind = i.blind
    /\ \A c \in first : codeTicket[c].state = "pending"
    /\ j.todo = {t \in i.todo : t.code \notin first} \cup {Merged(c, i.todo) : c \in first}
    /\ j.seals = \E t \in j.todo : IsOverdue(t.due)
LEMMA ReadTicketsMoves ==
    ASSUME CodesInv, NEW w \in Cleaners, ReadTickets(w)
    PROVE \E i \in Sweeps, j \in Sweeps, first \in SUBSET Codes :
            i = sweep[w] /\ sweep' = [sweep EXCEPT ![w] = j] /\ UNCHANGED Tables /\ Reads(i, j, first)
<1>1. PICK i \in Sweeps : i = sweep[w] /\ SweepFits(i)
  BY DEF CodesInv, CodesTyped
<1>2. i.at = "tickets" /\ ~i.seals /\ (\A t, u \in i.todo : t.code = u.code => t = u) /\ i.todo \in SUBSET Found
  BY <1>1 DEF ReadTickets, SweepFits, Sweeps
<1> DEFINE Pending == {c \in Codes : codeTicket[c].state = "pending"}
           Todo(first) == {t \in i.todo : t.code \notin first} \cup {Merged(c, i.todo) : c \in first}
<1>3. PICK first \in FirstOf(Pending, [c \in Codes |-> codeTicket[c].due]) :
        LET todo == {t \in sweep[w].todo : t.code \notin first} \cup {Merged(c, sweep[w].todo) : c \in first}
            late == \E t \in todo : IsOverdue(t.due)
        IN Goes(w, [sweep[w] EXCEPT !.at = "candidates", !.todo = todo,
                                    !.left = @ \/ Cardinality(first) >= Limit, !.seals = late])
  BY DEF ReadTickets
<1>4. first \in SUBSET Pending
  BY <1>3 DEF FirstOf
<1>5. Todo(first) \in SUBSET Found
  <2>1. ASSUME NEW c \in first PROVE Merged(c, i.todo) \in Found
    BY <1>2, <1>4, MergedIs DEF CodesInv
  <2> QED BY <1>2, <2>1
<1>6. PICK todo \in SUBSET Found : todo = Todo(first)
  BY <1>5
<1>7. PICK left \in BOOLEAN : left = (i.left \/ Cardinality(first) >= Limit)
  OBVIOUS
<1>8. PICK seals \in BOOLEAN : seals = \E t \in todo : IsOverdue(t.due)
  OBVIOUS
<1> DEFINE j == [i EXCEPT !.at = "candidates", !.todo = todo, !.left = left, !.seals = seals]
<1>9. /\ j \in Sweeps /\ j.at = "candidates" /\ j.todo = todo /\ j.left = left /\ j.seals = seals /\ j.now = i.now
      /\ j.failed = i.failed /\ j.claims = i.claims /\ j.late = i.late /\ j.blind = i.blind
      /\ j.attempts = i.attempts
  BY DEF Sweeps, Stages
<1>10. sweep' = [sweep EXCEPT ![w] = j] /\ UNCHANGED Tables
  <2>1. {t \in sweep[w].todo : t.code \notin first} \cup {Merged(c, sweep[w].todo) : c \in first} = todo
    BY <1>1, <1>6
  <2>2. Goes(w, [sweep[w] EXCEPT !.at = "candidates", !.todo = todo,
                                 !.left = @ \/ Cardinality(first) >= Limit,
                                 !.seals = \E t \in todo : IsOverdue(t.due)])
    BY <1>3, <2>1
  <2>3. sweep[w].left \/ Cardinality(first) >= Limit <=> left
    BY <1>1, <1>7
  <2>4. Goes(w, j)
    BY <1>1, <1>7, <1>8, <2>2 DEF Goes
  <2> QED BY <2>4 DEF Goes, ReadTickets, Tables, World
<1> HIDE DEF j
<1>11. Keeps(i, j)
  BY <1>2, <1>7, <1>9 DEF Keeps
<1>12. Reads(i, j, first)
  BY <1>2, <1>4, <1>6, <1>8, <1>9, <1>11 DEF Reads
<1> QED BY <1>1, <1>4, <1>9, <1>10, <1>12

Due(c) == Window(key[c].expires, Never, disabled[Owner[c]])
LEMMA DueIs ==
    ASSUME CodesTyped, NEW c \in Codes
    PROVE /\ Due(c) \in Nat /\ Due(c) \in {key[c].expires, Never, disabled[Owner[c]]}
          /\ Due(c) <= key[c].expires /\ Due(c) <= disabled[Owner[c]]
<1>1. key[c].expires \in Nat /\ disabled[Owner[c]] \in Nat /\ Never \in Nat
  BY CleanupAssumption, NeverIsLast DEF CodesTyped
<1> QED BY <1>1, WindowIs DEF Due

Adds(i, j, known) ==
    /\ known = Listed \ {t.code : t \in i.todo}
    /\ i.at = "candidates" /\ j.at = "next" /\ Keeps(i, j) /\ j.attempts = i.attempts /\ j.left = i.left
    /\ j.seals = i.seals /\ j.blind = i.blind
    /\ j.todo = i.todo \cup {Candidate(c, Due(c), FALSE) : c \in {k \in known : Due(k) <= i.now}}
LEMMA CandidatesMoves ==
    ASSUME CodesInv, NEW w \in Cleaners, Candidates(w)
    PROVE \E i \in Sweeps, j \in Sweeps, known \in SUBSET Codes :
            i = sweep[w] /\ sweep' = [sweep EXCEPT ![w] = j] /\ UNCHANGED Tables /\ Adds(i, j, known)
<1>1. PICK i \in Sweeps : i = sweep[w] /\ SweepFits(i)
  BY DEF CodesInv, CodesTyped
<1>2. i.at = "candidates" /\ i.todo \in SUBSET Found
  BY <1>1 DEF Candidates, Sweeps
<1>3. PICK known \in SUBSET Codes : known = Listed \ {t.code : t \in i.todo}
  BY DEF Listed
<1>4. {Candidate(c, Due(c), FALSE) : c \in {k \in known : Due(k) <= i.now}} \in SUBSET Found
  <2>1. ASSUME NEW c \in known PROVE Candidate(c, Due(c), FALSE) \in Found
    BY DueIs DEF CodesInv, Candidate, Found
  <2> QED BY <2>1
<1>5. PICK todo \in SUBSET Found :
        todo = i.todo \cup {Candidate(c, Due(c), FALSE) : c \in {k \in known : Due(k) <= i.now}}
  BY <1>2, <1>4
<1> DEFINE j == [i EXCEPT !.at = "next", !.todo = todo]
<1>6. /\ j \in Sweeps /\ j.at = "next" /\ j.todo = todo /\ j.left = i.left /\ j.seals = i.seals /\ j.now = i.now
      /\ j.failed = i.failed /\ j.claims = i.claims /\ j.late = i.late /\ j.blind = i.blind
      /\ j.attempts = i.attempts
  BY DEF Sweeps, Stages
<1>7. sweep' = [sweep EXCEPT ![w] = j] /\ UNCHANGED Tables
  BY <1>1, <1>3, <1>5 DEF Candidates, Goes, Tables, World, Due
<1> HIDE DEF j
<1>8. Keeps(i, j)
  BY <1>6 DEF Keeps
<1>9. Adds(i, j, known)
  BY <1>2, <1>3, <1>5, <1>6, <1>8 DEF Adds
<1> QED BY <1>1, <1>6, <1>7, <1>9

\* What Take may do: report, drop a code that is done with, leave the rest to another run, or turn to
\* the code of the earliest time.
Turn(state) == CASE state = "none" -> "inspect" [] state = "complete" -> "recheck" [] state = "pending" -> "remove"
Reports(i, j) == i.todo = {} /\ j.at = "report" /\ j.todo = {} /\ j.left = i.left /\ j.seals = i.seals
Drops(i, j, t) ==
    /\ codeTicket[t.code].state = "complete" /\ ~t.row
    /\ j.at = "next" /\ j.todo = i.todo \ {t} /\ j.attempts = i.attempts /\ j.left = i.left /\ j.seals = i.seals
Leaves(i, j) == i.attempts >= Limit /\ j.at = "next" /\ j.todo = {} /\ j.attempts = i.attempts /\ j.left /\ j.seals = i.seals
Turns(i, j, t) ==
    /\ codeTicket[t.code].state = "complete" => t.row
    /\ j.at = Turn(codeTicket[t.code].state) /\ j.code = t.code /\ j.due = codeTicket[t.code].due
    /\ j.todo = i.todo \ {t} /\ j.left = i.left /\ (j.seals <=> i.seals \/ JudgedLate(t.code))

LEMMA TakeMoves ==
    ASSUME CodesTyped, NEW w \in Cleaners, Take(w)
    PROVE \E i \in Sweeps, j \in Sweeps :
            /\ i = sweep[w] /\ i.at = "next"
            /\ sweep' = [sweep EXCEPT ![w] = j] /\ UNCHANGED Tables
            /\ Keeps(i, j) /\ j.blind = i.blind
            /\ \/ Reports(i, j)
               \/ \E t \in i.todo : (\A u \in i.todo : t.due <= u.due) /\ (Drops(i, j, t) \/ Leaves(i, j) \/ Turns(i, j, t))
<1>1. PICK i \in Sweeps : i = sweep[w] /\ i.at = "next"
  BY DEF CodesTyped, Take
<1>2. UNCHANGED Tables
  BY DEF Take, Tables, World
<1>3. CASE sweep[w].todo = {}
  <2> DEFINE j == [i EXCEPT !.at = "report"]
  <2>1. j \in Sweeps /\ Keeps(i, j) /\ j.blind = i.blind /\ j.at = "report" /\ j.todo = i.todo /\ j.left = i.left
        /\ j.seals = i.seals
    BY DEF Sweeps, Stages, Keeps
  <2>2. sweep' = [sweep EXCEPT ![w] = j]
    BY <1>1, <1>3 DEF Take, Goes
  <2> HIDE DEF j
  <2> QED BY <1>1, <1>2, <1>3, <2>1, <2>2 DEF Reports
<1>4. CASE sweep[w].todo # {}
  <2> DEFINE rest(t) == [sweep[w] EXCEPT !.todo = @ \ {t}]
  <2>1. PICK t \in i.todo :
          /\ \A u \in i.todo : t.due <= u.due
          /\ IF codeTicket[t.code].state = "complete" /\ ~t.row THEN Goes(w, rest(t))
             ELSE IF sweep[w].attempts >= Limit THEN Goes(w, [sweep[w] EXCEPT !.left = TRUE, !.todo = {}])
             ELSE Goes(w, [rest(t) EXCEPT !.attempts = @ + 1, !.code = t.code, !.seals = @ \/ JudgedLate(t.code),
                                          !.due = codeTicket[t.code].due,
                                          !.at = Turn(codeTicket[t.code].state)])
    BY <1>1, <1>4 DEF Take, Turn
  <2>2. t \in Found /\ t.code \in Codes
    BY <1>1 DEF Sweeps, Found
  <2>3. CASE codeTicket[t.code].state = "complete" /\ ~t.row
    <3> DEFINE j == [i EXCEPT !.todo = @ \ {t}]
    <3>1. /\ j \in Sweeps /\ Keeps(i, j) /\ j.blind = i.blind /\ j.at = "next" /\ j.todo = i.todo \ {t}
          /\ j.attempts = i.attempts /\ j.left = i.left /\ j.seals = i.seals
      BY <1>1 DEF Sweeps, Stages, Keeps
    <3>2. sweep' = [sweep EXCEPT ![w] = j]
      BY <1>1, <2>1, <2>3 DEF Goes
    <3> HIDE DEF j
    <3>3. Drops(i, j, t)
      BY <2>3, <3>1 DEF Drops
    <3> QED BY <1>1, <1>2, <2>1, <3>1, <3>2, <3>3
  <2>4. CASE ~(codeTicket[t.code].state = "complete" /\ ~t.row) /\ i.attempts >= Limit
    <3> DEFINE j == [i EXCEPT !.left = TRUE, !.todo = {}]
    <3>1. /\ j \in Sweeps /\ Keeps(i, j) /\ j.blind = i.blind /\ j.at = "next" /\ j.todo = {}
          /\ j.attempts = i.attempts /\ j.left /\ j.seals = i.seals
      BY <1>1 DEF Sweeps, Stages, Keeps
    <3>2. sweep' = [sweep EXCEPT ![w] = j]
      BY <1>1, <2>1, <2>4 DEF Goes
    <3> HIDE DEF j
    <3>3. Leaves(i, j)
      BY <2>4, <3>1 DEF Leaves
    <3> QED BY <1>1, <1>2, <2>1, <3>1, <3>2, <3>3
  <2>5. CASE ~(codeTicket[t.code].state = "complete" /\ ~t.row) /\ ~(i.attempts >= Limit)
    <3>1. PICK seals \in BOOLEAN : seals = (i.seals \/ JudgedLate(t.code))
      OBVIOUS
    <3>2. PICK due \in Nat : due = codeTicket[t.code].due
      BY <2>2 DEF CodesTyped
    <3>3. codeTicket[t.code].state \in {"none", "pending", "complete"}
      BY <2>2 DEF CodesTyped
    <3>4. PICK at \in Stages : at = Turn(codeTicket[t.code].state)
      BY <3>3 DEF Turn, Stages
    <3>5. PICK n \in 0..Limit : n = i.attempts + 1
      BY <2>5, CleanupAssumption DEF Sweeps
    <3>6. PICK code \in Codes : code = t.code
      BY <2>2
    <3> DEFINE k == [i EXCEPT !.todo = @ \ {t}]
               j == [k EXCEPT !.attempts = n, !.code = code, !.seals = seals, !.due = due, !.at = at]
    <3>7. /\ k \in Sweeps /\ k.todo = i.todo \ {t} /\ k.now = i.now /\ k.failed = i.failed /\ k.left = i.left
          /\ k.claims = i.claims /\ k.late = i.late /\ k.blind = i.blind /\ k.attempts = i.attempts
          /\ k.seals = i.seals
      BY DEF Sweeps
    <3>8. k = rest(t)
      BY <1>1
    <3> HIDE DEF k
    <3>9. /\ j \in Sweeps /\ j.at = at /\ j.code = code /\ j.due = due /\ j.seals = seals /\ j.todo = k.todo
          /\ j.now = k.now /\ j.failed = k.failed /\ j.left = k.left /\ j.claims = k.claims /\ j.late = k.late
          /\ j.blind = k.blind
      BY <3>7 DEF Sweeps
    <3>10. [k EXCEPT !.attempts = @ + 1, !.code = t.code, !.seals = @ \/ JudgedLate(t.code),
                     !.due = codeTicket[t.code].due, !.at = Turn(codeTicket[t.code].state)] = j
      BY <3>1, <3>2, <3>4, <3>5, <3>6, <3>7
    <3> HIDE DEF j, rest
    <3>11. sweep' = [sweep EXCEPT ![w] = j]
      BY <1>1, <2>1, <2>5, <3>8, <3>10 DEF Goes
    <3>12. Turns(i, j, t)
      BY <2>5, <3>1, <3>2, <3>4, <3>6, <3>7, <3>9 DEF Turns
    <3>13. Keeps(i, j) /\ j.blind = i.blind
      BY <3>1, <3>7, <3>9 DEF Keeps
    <3> QED BY <1>1, <1>2, <2>1, <3>9, <3>11, <3>12, <3>13
  <2> QED BY <2>3, <2>4, <2>5
<1> QED BY <1>3, <1>4

\* What an inspection read, and what it made of it.
Counted(read, time) == IF read = "valid" THEN time ELSE Never
DueFrom(c, a, b) == Window(key[c].expires, Counted(b, row[c].ended), Counted(a, disabled[Owner[c]]))
LateFrom(c, a, b) == Worse(a, b) = "mismatch" \/ IsOverdue(DueFrom(c, a, b))
Judged(j, c, a, b) ==
    [j EXCEPT !.seals = @ \/ LateFrom(c, a, b), !.blind = IF Worse(a, b) = "unverifiable" THEN @ \cup {c} ELSE @]
Inspected(j, c, a, b) ==
    IF IsDue(DueFrom(c, a, b)) THEN [Judged(j, c, a, b) EXCEPT !.at = "prepare", !.due = DueFrom(c, a, b)]
    ELSE Done(Judged(j, c, a, b))
Inspects(i, j, c, due, a, b) ==
    /\ i.at = "inspect" /\ i.code = c /\ Free(Owner[c])
    /\ due = Window(key[c].expires, Counted(b, row[c].ended), Counted(a, disabled[Owner[c]]))
    /\ Keeps(i, j) /\ j.left = i.left /\ j.todo = i.todo /\ j.attempts = i.attempts
    /\ (j.seals <=> i.seals \/ Worse(a, b) = "mismatch" \/ IsOverdue(due))
    /\ (Worse(a, b) = "unverifiable" => c \in j.blind)
    /\ IF IsDue(due) THEN j.at = "prepare" /\ j.code = c /\ j.due = due ELSE j.at = "next"
LEMMA CountedIs ==
    ASSUME CodesTyped, NEW c \in Codes, NEW a, NEW b
    PROVE /\ key[c].expires \in Nat /\ row[c].ended \in Nat /\ disabled[Owner[c]] \in Nat
          /\ Counted(b, row[c].ended) \in Nat /\ Counted(a, disabled[Owner[c]]) \in Nat
<1>1. key[c].expires \in Nat /\ row[c].ended \in Nat /\ disabled[Owner[c]] \in Nat /\ Never \in Nat
  BY CleanupAssumption, NeverIsLast DEF CodesTyped
<1> QED BY <1>1 DEF Counted

LEMMA ReadingsAre ==
    ASSUME NEW c \in Codes, NEW a \in ActorReadings(Owner[c]), NEW b \in CodeReadings(c)
    PROVE /\ Worse(a, b) \in {"valid", "unverifiable", "mismatch"}
          /\ Worse(a, b) = "valid" => a = "valid" /\ b = "valid"
          /\ Worse(a, b) # "mismatch" => a # "mismatch" /\ b # "mismatch"
<1>1. a \in {"valid", "unverifiable", "mismatch"} /\ b \in {"valid", "unverifiable", "mismatch"}
  BY DEF ActorReadings, CodeReadings, Readings
<1> QED BY <1>1 DEF Worse

LEMMA InspectMoves ==
    ASSUME CodesInv, NEW w \in Cleaners, Inspect(w)
    PROVE \E i \in Sweeps, j \in Sweeps, c \in Codes, due \in Nat :
          \E a \in ActorReadings(Owner[c]), b \in CodeReadings(c) :
            /\ i = sweep[w] /\ Inspects(i, j, c, due, a, b)
            /\ sweep' = [sweep EXCEPT ![w] = j] /\ UNCHANGED Tables
<1>1. PICK i \in Sweeps : i = sweep[w] /\ SweepFits(i)
  BY DEF CodesInv, CodesTyped
<1>2. PICK c \in Codes : c = i.code /\ i.at = "inspect"
  BY <1>1 DEF SweepFits, Working, Listed, Inspect
<1>3. PICK a \in ActorReadings(Owner[c]), b \in CodeReadings(c) : Free(Owner[c]) /\ Goes(w, Inspected(i, c, a, b))
  <2>1. \E a \in ActorReadings(Owner[sweep[w].code]), b \in CodeReadings(sweep[w].code) :
          Free(Owner[sweep[w].code]) /\ Goes(w, Inspected(sweep[w], sweep[w].code, a, b))
    BY DEF Inspect, Inspected, Judged, LateFrom, DueFrom, Counted
  <2> QED BY <1>1, <1>2, <2>1
<1>4. PICK due \in Nat : due = DueFrom(c, a, b)
  BY CountedIs, WindowIs DEF CodesInv, DueFrom
<1>5. PICK seals \in BOOLEAN : seals = (i.seals \/ LateFrom(c, a, b))
  OBVIOUS
<1>6. PICK blind \in SUBSET Codes : blind = IF Worse(a, b) = "unverifiable" THEN i.blind \cup {c} ELSE i.blind
  BY DEF Sweeps
<1> DEFINE k == [i EXCEPT !.seals = seals, !.blind = blind]
<1>7. /\ k \in Sweeps /\ k.seals = seals /\ k.blind = blind /\ k.now = i.now /\ k.todo = i.todo /\ k.code = i.code
      /\ k.attempts = i.attempts /\ k.failed = i.failed /\ k.left = i.left /\ k.claims = i.claims /\ k.late = i.late
  BY DEF Sweeps
<1>8. k = Judged(i, c, a, b)
  BY <1>5, <1>6 DEF Judged
<1>9. UNCHANGED Tables
  BY DEF Inspect, Tables, World
<1> HIDE DEF k
<1>10. CASE IsDue(due)
  <2> DEFINE j == [k EXCEPT !.at = "prepare", !.due = due]
  <2>1. /\ j \in Sweeps /\ j.at = "prepare" /\ j.due = due /\ j.code = k.code /\ j.seals = k.seals /\ j.blind = k.blind
        /\ j.now = k.now /\ j.todo = k.todo /\ j.attempts = k.attempts /\ j.failed = k.failed /\ j.left = k.left
        /\ j.claims = k.claims /\ j.late = k.late
    BY <1>7 DEF Sweeps, Stages
  <2>2. sweep' = [sweep EXCEPT ![w] = j]
    BY <1>3, <1>4, <1>8, <1>10 DEF Goes, Inspected
  <2> HIDE DEF j
  <2>3. Keeps(i, j)
    BY <1>5, <1>6, <1>7, <2>1 DEF Keeps
  <2>4. Inspects(i, j, c, due, a, b)
    BY <1>2, <1>3, <1>4, <1>5, <1>6, <1>7, <1>10, <2>1, <2>3 DEF Inspects, LateFrom, DueFrom
  <2> QED BY <1>1, <1>9, <2>1, <2>2, <2>4
<1>11. CASE ~IsDue(due)
  <2>1. PICK j \in Sweeps : j = Done(k) /\ j.at = "next"
    BY <1>7, DoneMoves
  <2>2. sweep' = [sweep EXCEPT ![w] = j]
    BY <1>3, <1>4, <1>8, <1>11, <2>1 DEF Goes, Inspected
  <2>3. /\ j.seals = k.seals /\ j.blind = k.blind /\ j.now = k.now /\ j.todo = k.todo /\ j.attempts = k.attempts
        /\ j.failed = k.failed /\ j.left = k.left /\ j.claims = k.claims /\ j.late = k.late
    BY <1>7, <2>1, DoneMoves
  <2>4. Keeps(i, j)
    BY <1>5, <1>6, <1>7, <2>3 DEF Keeps
  <2>5. Inspects(i, j, c, due, a, b)
    BY <1>2, <1>3, <1>4, <1>5, <1>6, <1>7, <1>11, <2>1, <2>3, <2>4 DEF Inspects, LateFrom, DueFrom
  <2> QED BY <1>1, <1>9, <2>1, <2>2, <2>5
<1> QED BY <1>10, <1>11

-----------------------------------------------------------------------------
(* The steps of a run keep the invariant                                   *)

LEMMA RunKeeps ==
    ASSUME CodesInv, NEW w \in Cleaners, Run(w)
    PROVE CodesInv' /\ Lasts
<1>1. PICK j \in Sweeps, hints \in SUBSET Codes :
        sweep' = [sweep EXCEPT ![w] = j] /\ UNCHANGED Tables /\ Begins(j, hints)
  BY RunMoves DEF CodesInv
<1>2. hints \subseteq Over
  BY <1>1 DEF Begins, FirstOf
<1>3. j.claims \subseteq Listed /\ j.late \subseteq Listed
  BY <1>1 DEF Begins, Listed
<1>4. ASSUME NEW t \in j.todo PROVE t.code \in Listed /\ NotAfterEnd(t.due, t.code)
  <2>1. PICK c \in hints : t = Candidate(c, OverSince(c), TRUE)
    BY <1>1 DEF Begins
  <2>2. t.code = c /\ t.due = OverSince(c) /\ c \in Codes /\ row[c].there /\ now >= OverSince(c)
    BY <1>2, <2>1 DEF Candidate, Over
  <2>3. key[c].state # "none"
    BY <2>2 DEF CodesInv, CodeFits
  <2>4. now \in Nat
    BY CleanupAssumption DEF CodesInv, CodesTyped
  <2> QED BY <2>2, <2>3, <2>4, OverSinceIs DEF CodesInv, NotAfterEnd, Listed
<1>5. ASSUME NEW t \in j.todo, NEW u \in j.todo, t.code = u.code PROVE t = u
  <2>1. PICK c \in hints, d \in hints :
          t = Candidate(c, OverSince(c), TRUE) /\ u = Candidate(d, OverSince(d), TRUE)
    BY <1>1 DEF Begins
  <2>2. t.code = c /\ u.code = d
    BY <2>1 DEF Candidate
  <2> QED BY <1>5, <2>1, <2>2
<1>6. now \in Nat
  BY CleanupAssumption DEF CodesInv, CodesTyped
<1>7. SweepFits(j) /\ j.at # "prepare"
  <2>1. j.at = "tickets" /\ j.now = now /\ ~j.failed /\ ~j.seals /\ j.attempts = 0
    BY <1>1 DEF Begins
  <2> QED BY <1>3, <1>4, <1>5, <1>6, <2>1 DEF SweepFits, Working, Registered, Collecting
<1> QED BY <1>1, <1>7, QuietMove

LEMMA CleanOneKeeps ==
    ASSUME CodesInv, NEW w \in Cleaners, NEW c \in Codes, CleanOne(w, c)
    PROVE CodesInv' /\ Lasts
<1>1. PICK j \in Sweeps :
        sweep' = [sweep EXCEPT ![w] = j] /\ UNCHANGED Tables /\ c \in Listed /\ BeginsWith(j, c)
  BY CleanOneMoves DEF CodesInv
<1>2. NotAfterEnd(0, c) /\ 0 <= now
  <2>1. now \in Nat /\ key[c].expires \in Nat /\ disabled[Owner[c]] \in Nat
    BY CleanupAssumption DEF CodesInv, CodesTyped
  <2> QED BY <2>1 DEF NotAfterEnd
<1>3. ASSUME NEW t \in j.todo PROVE t.code \in Listed /\ NotAfterEnd(t.due, t.code)
  BY <1>1, <1>2 DEF BeginsWith, Candidate
<1>4. SweepFits(j) /\ j.at # "prepare"
  BY <1>1, <1>2, <1>3 DEF BeginsWith, SweepFits, Working, Registered, Collecting
<1> QED BY <1>1, <1>4, QuietMove

LEMMA ReadTicketsKeeps ==
    ASSUME CodesInv, NEW w \in Cleaners, ReadTickets(w)
    PROVE CodesInv' /\ Lasts
<1>1. PICK i \in Sweeps, j \in Sweeps, first \in SUBSET Codes :
        i = sweep[w] /\ sweep' = [sweep EXCEPT ![w] = j] /\ UNCHANGED Tables /\ Reads(i, j, first)
  BY ReadTicketsMoves
<1>2. SweepFits(i)
  BY <1>1 DEF CodesInv
<1>3. ASSUME NEW c \in first
      PROVE Merged(c, i.todo).code \in Listed /\ NotAfterEnd(Merged(c, i.todo).due, Merged(c, i.todo).code)
  <2>1. i.todo \in SUBSET Found /\ \A t, u \in i.todo : t.code = u.code => t = u
    BY <1>1, <1>2 DEF SweepFits, Sweeps, Reads
  <2>2. PICK m \in Found : m = Merged(c, i.todo) /\ m.code = c /\ m.due <= codeTicket[c].due
    BY <2>1, MergedIs DEF CodesInv
  <2>3. NotAfterEnd(codeTicket[c].due, c) /\ c \in Listed
    BY <1>1 DEF CodesInv, CodeFits, Listed, Reads
  <2>4. /\ now \in Nat /\ key[c].expires \in Nat /\ disabled[Owner[c]] \in Nat /\ codeTicket[c].due \in Nat
        /\ m.due \in Nat
    BY CleanupAssumption DEF CodesInv, CodesTyped, Found
  <2> QED BY <2>2, <2>3, <2>4 DEF NotAfterEnd
<1>4. ASSUME NEW t \in j.todo PROVE t.code \in Listed /\ NotAfterEnd(t.due, t.code)
  BY <1>1, <1>2, <1>3 DEF SweepFits, Reads
<1>5. SweepFits(j) /\ j.at # "prepare"
  BY <1>1, <1>2, <1>4 DEF SweepFits, Working, Registered, Collecting, Keeps, Reads
<1> QED BY <1>1, <1>5, QuietMove

LEMMA CandidatesKeeps ==
    ASSUME CodesInv, NEW w \in Cleaners, Candidates(w)
    PROVE CodesInv' /\ Lasts
<1>1. PICK i \in Sweeps, j \in Sweeps, known \in SUBSET Codes :
        i = sweep[w] /\ sweep' = [sweep EXCEPT ![w] = j] /\ UNCHANGED Tables /\ Adds(i, j, known)
  BY CandidatesMoves
<1>2. SweepFits(i)
  BY <1>1 DEF CodesInv
<1>3. ASSUME NEW c \in known, Due(c) <= i.now PROVE c \in Listed /\ NotAfterEnd(Due(c), c)
  <2>1. c \in Listed /\ i.now <= now /\ i.now \in Nat /\ now \in Nat
    BY <1>1, <1>2, CleanupAssumption DEF Adds, SweepFits, CodesInv, CodesTyped, Sweeps
  <2> QED BY <1>3, <2>1, DueIs DEF CodesInv, NotAfterEnd
<1>4. ASSUME NEW t \in j.todo PROVE t.code \in Listed /\ NotAfterEnd(t.due, t.code)
  <2>1. CASE t \in i.todo
    BY <1>2, <2>1 DEF SweepFits
  <2>2. ASSUME NEW c \in known, Due(c) <= i.now, t = Candidate(c, Due(c), FALSE)
        PROVE t.code \in Listed /\ NotAfterEnd(t.due, t.code)
    BY <1>3, <2>2 DEF Candidate
  <2> QED BY <1>1, <2>1, <2>2 DEF Adds
<1>5. SweepFits(j) /\ j.at # "prepare"
  BY <1>1, <1>2, <1>4 DEF Adds, SweepFits, Working, Registered, Collecting, Keeps
<1> QED BY <1>1, <1>5, QuietMove

LEMMA TakeKeeps ==
    ASSUME CodesInv, NEW w \in Cleaners, Take(w)
    PROVE CodesInv' /\ Lasts
<1>1. PICK i \in Sweeps, j \in Sweeps :
        /\ i = sweep[w] /\ i.at = "next"
        /\ sweep' = [sweep EXCEPT ![w] = j] /\ UNCHANGED Tables
        /\ Keeps(i, j)
        /\ \/ Reports(i, j)
           \/ \E t \in i.todo : Drops(i, j, t) \/ Leaves(i, j) \/ Turns(i, j, t)
  BY TakeMoves DEF CodesInv
<1>2. SweepFits(i)
  BY <1>1 DEF CodesInv
<1>3. CASE Reports(i, j) \/ Leaves(i, j)
  <2>1. SweepFits(j) /\ j.at # "prepare"
    BY <1>1, <1>2, <1>3 DEF SweepFits, Working, Registered, Collecting, Keeps, Reports, Leaves
  <2> QED BY <1>1, <2>1, QuietMove
<1>4. ASSUME NEW t \in i.todo, Drops(i, j, t) PROVE CodesInv' /\ Lasts
  <2>1. SweepFits(j) /\ j.at # "prepare"
    BY <1>1, <1>2, <1>4 DEF SweepFits, Working, Registered, Collecting, Keeps, Drops
  <2> QED BY <1>1, <2>1, QuietMove
<1>5. ASSUME NEW t \in i.todo, Turns(i, j, t) PROVE CodesInv' /\ Lasts
  <2>1. t.code \in Listed /\ t.code \in Codes
    BY <1>2 DEF SweepFits, Listed
  <2>2. codeTicket[t.code].state \in {"none", "pending", "complete"}
    BY <2>1 DEF CodesInv, CodesTyped
  <2>3. /\ j.at \in {"inspect", "recheck", "remove"}
        /\ (j.at = "recheck" => codeTicket[t.code].state = "complete")
        /\ (j.at = "remove" => codeTicket[t.code].state = "pending")
        /\ j.code = t.code /\ j.due = codeTicket[t.code].due /\ j.todo \subseteq i.todo
    BY <1>5, <2>2 DEF Turns, Turn
  <2>4. SweepFits(j)
    BY <1>1, <1>2, <2>1, <2>3 DEF SweepFits, Working, Registered, Collecting, Keeps
  <2> QED BY <1>1, <2>3, <2>4, QuietMove
<1> QED BY <1>1, <1>3, <1>4, <1>5

LEMMA InspectKeeps ==
    ASSUME CodesInv, NEW w \in Cleaners, Inspect(w)
    PROVE CodesInv' /\ Lasts
<1>1. PICK i \in Sweeps, j \in Sweeps, c \in Codes, due \in Nat :
      \E a \in ActorReadings(Owner[c]), b \in CodeReadings(c) :
        /\ i = sweep[w] /\ Inspects(i, j, c, due, a, b)
        /\ sweep' = [sweep EXCEPT ![w] = j] /\ UNCHANGED Tables
  BY InspectMoves
<1>2. PICK a \in ActorReadings(Owner[c]), b \in CodeReadings(c) : Inspects(i, j, c, due, a, b)
  BY <1>1
<1>3. SweepFits(i)
  BY <1>1 DEF CodesInv
<1>4. c \in Listed
  BY <1>2, <1>3 DEF Inspects, SweepFits, Working
<1>5. IsDue(due) => NotAfterEnd(due, c)
  <2>1. /\ key[c].expires \in Nat /\ Counted(b, row[c].ended) \in Nat /\ Counted(a, disabled[Owner[c]]) \in Nat
        /\ due = Window(key[c].expires, Counted(b, row[c].ended), Counted(a, disabled[Owner[c]]))
    BY <1>2, CountedIs DEF CodesInv, Inspects
  <2>2. due <= key[c].expires
    BY <2>1, WindowIs
  <2> QED BY <2>1, <2>2 DEF IsDue, NotAfterEnd
<1>6. SweepFits(j)
  BY <1>2, <1>3, <1>4, <1>5 DEF Inspects, SweepFits, Working, Registered, Collecting, Keeps
<1>7. j.at = "prepare" => \A x \in Recipients : using[x] # Unused => using[x].code # j.code
  BY <1>2 DEF CodesInv, UseFits, Inspects, Free
<1> QED BY <1>1, <1>6, <1>7, QuietMove

LEMMA AtMoves ==
    ASSUME NEW i \in Sweeps, NEW s \in Stages
    PROVE LET j == [i EXCEPT !.at = s]
          IN /\ j \in Sweeps /\ j.at = s /\ j.now = i.now /\ j.todo = i.todo /\ j.attempts = i.attempts
             /\ j.failed = i.failed /\ j.left = i.left /\ j.seals = i.seals /\ j.code = i.code /\ j.due = i.due
             /\ j.claims = i.claims /\ j.late = i.late /\ j.blind = i.blind
BY DEF Sweeps

LEMMA SkipMoves ==
    ASSUME CodesTyped, NEW w \in Cleaners, Skip(w)
    PROVE \E i \in Sweeps, j \in Sweeps :
            /\ i = sweep[w] /\ sweep' = [sweep EXCEPT ![w] = j] /\ UNCHANGED Tables
            /\ i.at \in {"inspect", "remove", "recheck"} /\ row[i.code].there
            /\ Keeps(i, j) /\ j.todo = i.todo /\ j.attempts = i.attempts /\ j.seals = i.seals
            /\ j.at = "next" /\ j.left
<1>1. PICK i \in Sweeps : i = sweep[w]
  BY DEF CodesTyped
<1>2. PICK d \in Sweeps : d = Done(i)
  BY DoneMoves
<1> DEFINE j == [d EXCEPT !.left = TRUE]
<1>3. /\ j \in Sweeps /\ j.left /\ j.at = d.at /\ j.now = d.now /\ j.todo = d.todo /\ j.attempts = d.attempts
      /\ j.failed = d.failed /\ j.seals = d.seals /\ j.claims = d.claims /\ j.late = d.late /\ j.blind = d.blind
  BY DEF Sweeps
<1>4. sweep' = [sweep EXCEPT ![w] = j] /\ UNCHANGED Tables
  BY <1>1, <1>2 DEF Skip, Goes, Tables, World
<1> HIDE DEF j
<1>5. /\ d.at = "next" /\ d.now = i.now /\ d.todo = i.todo /\ d.attempts = i.attempts /\ d.failed = i.failed
      /\ d.seals = i.seals /\ d.claims = i.claims /\ d.late = i.late /\ d.blind = i.blind
  BY <1>2, DoneMoves
<1>6. Keeps(i, j)
  BY <1>3, <1>5 DEF Keeps
<1> QED BY <1>1, <1>3, <1>4, <1>5, <1>6 DEF Skip

LEMMA SkipKeeps ==
    ASSUME CodesInv, NEW w \in Cleaners, Skip(w)
    PROVE CodesInv' /\ Lasts
<1>1. PICK i \in Sweeps, j \in Sweeps :
        /\ i = sweep[w] /\ sweep' = [sweep EXCEPT ![w] = j] /\ UNCHANGED Tables
        /\ i.at \in {"inspect", "remove", "recheck"} /\ row[i.code].there
        /\ Keeps(i, j) /\ j.todo = i.todo /\ j.attempts = i.attempts /\ j.seals = i.seals
        /\ j.at = "next" /\ j.left
  BY SkipMoves DEF CodesInv
<1>2. SweepFits(i)
  BY <1>1 DEF CodesInv
<1>3. SweepFits(j)
  BY <1>1, <1>2, NextFits DEF Keeps
<1> QED BY <1>1, <1>3, QuietMove

\* The other steps that leave the tables alone.
QuietEnd(w, i, j) ==
    \/ j = Resting
    \/ i.at \in Working /\ j = Failed(i)
    \/ i.at = "absent" /\ ~row[i.code].there /\ j = [i EXCEPT !.at = "complete"]
LEMMA QuietEndMoves ==
    ASSUME CodesInv, NEW w \in Cleaners, CloseRefused(w) \/ CheckRowGone(w) \/ ReportRun(w) \/ Fault(w) \/ CleanupCrash(w)
    PROVE \E i \in Sweeps, j \in Sweeps :
            i = sweep[w] /\ sweep' = [sweep EXCEPT ![w] = j] /\ UNCHANGED Tables /\ QuietEnd(w, i, j)
<1>1. PICK i \in Sweeps : i = sweep[w]
  BY DEF CodesInv, CodesTyped
<1>2. UNCHANGED Tables
  BY DEF CloseRefused, CheckRowGone, ReportRun, Fault, CleanupCrash, Tables, World
<1>3. Resting \in Sweeps /\ Failed(i) \in Sweeps /\ [i EXCEPT !.at = "complete"] \in Sweeps
  BY RestingIs, FailedMoves, AtMoves DEF Stages
<1>4. i.at \in Stages
  BY DEF Sweeps
<1>5. CASE CloseRefused(w)
  BY <1>1, <1>2, <1>3, <1>5 DEF CloseRefused, Goes, QuietEnd, Working
<1>6. CASE CheckRowGone(w)
  BY <1>1, <1>2, <1>3, <1>6 DEF CheckRowGone, Goes, QuietEnd, Working
<1>7. CASE ReportRun(w) \/ CleanupCrash(w)
  BY <1>1, <1>2, <1>3, <1>7 DEF ReportRun, CleanupCrash, Goes, QuietEnd
<1>8. CASE Fault(w)
  BY <1>1, <1>2, <1>3, <1>4, <1>8 DEF Fault, Goes, QuietEnd, Working, Stages
<1> QED BY <1>5, <1>6, <1>7, <1>8

LEMMA QuietEndKeeps ==
    ASSUME CodesInv, NEW w \in Cleaners, CloseRefused(w) \/ CheckRowGone(w) \/ ReportRun(w) \/ Fault(w) \/ CleanupCrash(w)
    PROVE CodesInv' /\ Lasts
<1>1. PICK i \in Sweeps, j \in Sweeps :
        i = sweep[w] /\ sweep' = [sweep EXCEPT ![w] = j] /\ UNCHANGED Tables /\ QuietEnd(w, i, j)
  BY QuietEndMoves
<1>2. SweepFits(i)
  BY <1>1 DEF CodesInv
<1>3. CASE j = Resting
  <2>1. SweepFits(j) /\ j.at # "prepare"
    BY <1>3, RestingFits, RestingIs
  <2> QED BY <1>1, <2>1, QuietMove
<1>4. CASE j = Failed(i)
  <2>1. SweepFits(j) /\ j.at # "prepare"
    BY <1>2, <1>4, FailedFits
  <2> QED BY <1>1, <2>1, QuietMove
<1>5. CASE i.at = "absent" /\ j = [i EXCEPT !.at = "complete"]
  <2>1. /\ j.at = "complete" /\ j.now = i.now /\ j.todo = i.todo /\ j.attempts = i.attempts /\ j.failed = i.failed
        /\ j.seals = i.seals /\ j.code = i.code /\ j.due = i.due /\ j.claims = i.claims /\ j.late = i.late
    BY <1>5, AtMoves DEF Stages
  <2>2. SweepFits(j)
    BY <1>2, <1>5, <2>1 DEF SweepFits, Working, Registered, Collecting
  <2> QED BY <1>1, <2>1, <2>2, QuietMove
<1> QED BY <1>1, <1>3, <1>4, <1>5 DEF QuietEnd

-----------------------------------------------------------------------------
(* The steps that change the tables                                        *)

LEMMA SweepsStay ==
    ASSUME CodesInv, CodesTyped', Lasts, \A c \in Codes : CodeFits(c)', \A a \in Recipients : UseFits(a)',
           UNCHANGED sweep
    PROVE CodesInv'
<1>1. ASSUME NEW v \in Cleaners PROVE SweepFits(sweep[v])'
  <2>1. PICK i \in Sweeps : i = sweep[v] /\ SweepFits(i)
    BY DEF CodesInv, CodesTyped
  <2>2. SweepFits(i)'
    BY <2>1, SweepLasts DEF CodesInv
  <2> QED BY <2>1, <2>2
<1> QED BY <1>1 DEF CodesInv

LEMMA SweepGoesOn ==
    ASSUME CodesInv, CodesTyped', Lasts, \A c \in Codes : CodeFits(c)', \A a \in Recipients : UseFits(a)',
           NEW w \in Cleaners, NEW j \in Sweeps, sweep' = [sweep EXCEPT ![w] = j], SweepFits(j)'
    PROVE CodesInv'
<1>1. ASSUME NEW v \in Cleaners PROVE SweepFits(sweep[v])'
  <2>1. PICK i \in Sweeps : i = sweep[v] /\ SweepFits(i)
    BY DEF CodesInv, CodesTyped
  <2>2. SweepFits(i)'
    BY <2>1, SweepLasts DEF CodesInv
  <2>3. sweep'[v] = i \/ sweep'[v] = j
    BY <2>1 DEF CodesInv, CodesTyped
  <2> QED BY <2>2, <2>3
<1> QED BY <1>1 DEF CodesInv

LEMMA RegisterTicketKeeps ==
    ASSUME CodesInv, NEW w \in Cleaners, RegisterTicket(w)
    PROVE CodesInv' /\ Lasts
<1>1. PICK i \in Sweeps : i = sweep[w] /\ SweepFits(i) /\ i.at = "prepare"
  BY DEF CodesInv, CodesTyped, RegisterTicket
<1>2. PICK c \in Codes : c = i.code /\ c \in Listed /\ NotAfterEnd(i.due, c) /\ i.due \in Nat
  BY <1>1 DEF SweepFits, Working, Listed, Sweeps
<1>3. UNCHANGED <<now, disabled, row, key, damaged, using, returned, returns>>
  BY DEF RegisterTicket, World
<1>4. CASE codeTicket[c].state # "none"
  <2>1. sweep' = [sweep EXCEPT ![w] = Failed(i)] /\ UNCHANGED Tables
    BY <1>1, <1>2, <1>3, <1>4 DEF RegisterTicket, Goes, Tables
  <2>2. Failed(i) \in Sweeps /\ SweepFits(Failed(i)) /\ Failed(i).at # "prepare"
    BY <1>1, FailedFits
  <2> QED BY <2>1, <2>2, QuietMove
<1>5. CASE codeTicket[c].state = "none"
  <2>1. /\ codeTicket' = [codeTicket EXCEPT ![c] = [state |-> "pending", due |-> i.due]]
        /\ Goes(w, [i EXCEPT !.at = "remove"]) \/ Goes(w, Failed(i))
    BY <1>1, <1>2, <1>5 DEF RegisterTicket, GoesOn
  <2>2. PICK j \in Sweeps : sweep' = [sweep EXCEPT ![w] = j] /\ (j = [i EXCEPT !.at = "remove"] \/ j = Failed(i))
    BY <2>1, AtMoves, FailedMoves DEF Goes, Stages
  <2>3. /\ codeTicket'[c].state = "pending" /\ codeTicket'[c].due = i.due
        /\ \A d \in Codes \ {c} : codeTicket'[d] = codeTicket[d]
    BY <2>1 DEF CodesInv, CodesTyped
  <2>4. CodesTyped'
    <3>1. codeTicket' \in [Codes -> [state : {"none", "pending", "complete"}, due : Nat]]
      BY <1>2, <2>1 DEF CodesInv, CodesTyped
    <3>2. sweep' \in [Cleaners -> Sweeps]
      BY <2>2 DEF CodesInv, CodesTyped
    <3> QED BY <1>3, <3>1, <3>2 DEF CodesInv, CodesTyped
  <2>5. Lasts
    <3>1. now \in Nat /\ returns \in Nat
      BY CleanupAssumption DEF CodesInv, CodesTyped
    <3> QED BY <1>3, <1>5, <2>3, <3>1 DEF Lasts, RowGone, Listed
  <2>6. ASSUME NEW d \in Codes PROVE CodeFits(d)'
    <3>1. CASE d = c
      BY <1>2, <1>3, <1>5, <2>3, <3>1 DEF CodesInv, CodeFits, RowGone, NotAfterEnd, Listed
    <3>2. CASE d # c
      BY <1>3, <2>3, <3>2 DEF CodesInv, CodeFits, RowGone, NotAfterEnd
    <3> QED BY <3>1, <3>2
  <2>7. j.at # "prepare"
    BY <2>2, AtMoves, FailedMoves DEF Stages
  <2>8. ASSUME NEW a \in Recipients PROVE UseFits(a)'
    <3>1. SUFFICES ASSUME using[a] # Unused PROVE UseFits(a)'
      BY <1>3 DEF UseFits
    <3>2. UseFits(a) /\ using[a].code \in Codes
      BY <3>1 DEF CodesInv, UseFits
    <3>3. ASSUME using[a].does = "issue", codeTicket[using[a].code].state = "none", ~row[using[a].code].there,
                 \A v \in Cleaners : sweep[v].at = "prepare" => sweep[v].code # using[a].code
          PROVE codeTicket'[using[a].code].state = "none"
                /\ \A v \in Cleaners : sweep'[v].at = "prepare" => sweep'[v].code # using[a].code
      <4>1. using[a].code # c
        BY <1>1, <1>2, <3>3
      <4>2. \A v \in Cleaners : sweep'[v] = sweep[v] \/ sweep'[v] = j
        BY <2>2 DEF CodesInv, CodesTyped
      <4> QED BY <2>3, <2>7, <3>2, <3>3, <4>1, <4>2
    <3> QED BY <1>3, <3>1, <3>2, <3>3 DEF UseFits
  <2>9. SweepFits(j)'
    <3>1. CASE j = [i EXCEPT !.at = "remove"]
      <4>1. /\ j.at = "remove" /\ j.now = i.now /\ j.todo = i.todo /\ j.attempts = i.attempts /\ j.failed = i.failed
            /\ j.seals = i.seals /\ j.code = i.code /\ j.due = i.due /\ j.claims = i.claims /\ j.late = i.late
        BY <3>1, AtMoves DEF Stages
      <4>2. SweepFits(i)'
        BY <1>1, <2>4, <2>5, SweepLasts DEF CodesInv
      <4> QED BY <1>1, <1>2, <2>3, <4>1, <4>2 DEF SweepFits, Working, Registered, Collecting
    <3>2. CASE j = Failed(i)
      BY <1>1, <2>4, <2>5, <3>2, FailedFits, SweepLasts DEF CodesInv
    <3> QED BY <2>2, <3>1, <3>2
  <2> QED BY <2>2, <2>4, <2>5, <2>6, <2>8, <2>9, SweepGoesOn
<1> QED BY <1>4, <1>5

\* Once the destruction of a code is registered its row may go; nobody works on it under the lock.
LEMMA RowRemoved ==
    ASSUME CodesInv, NEW c \in Codes, Free(Owner[c]), codeTicket[c].state # "none",
           row' = [row EXCEPT ![c] = NoRow], returned' = returned \ {c},
           UNCHANGED <<now, disabled, key, damaged, codeTicket, using, returns>>,
           NEW w \in Cleaners, NEW j \in Sweeps, sweep' = [sweep EXCEPT ![w] = j], j.at # "prepare"
    PROVE /\ CodesTyped' /\ Lasts /\ RowGone(c)'
          /\ \A d \in Codes : CodeFits(d)'
          /\ \A a \in Recipients : UseFits(a)'
<1>1. /\ ~row'[c].there /\ row'[c].ended = Never
      /\ \A d \in Codes \ {c} : row'[d] = row[d] /\ (d \in returned' <=> d \in returned)
      /\ c \notin returned'
  BY DEF CodesInv, CodesTyped, NoRow
<1>2. CodesTyped'
  <2>1. row' \in [Codes -> [there : BOOLEAN, ended : Nat]]
    BY NeverIsLast DEF CodesInv, CodesTyped, NoRow
  <2>2. sweep' \in [Cleaners -> Sweeps]
    BY DEF CodesInv, CodesTyped
  <2> QED BY <2>1, <2>2 DEF CodesInv, CodesTyped
<1>3. now \in Nat /\ returns \in Nat
  BY CleanupAssumption DEF CodesInv, CodesTyped
<1>4. RowGone(c)'
  BY <1>1 DEF RowGone
<1>5. Lasts
  BY <1>1, <1>3, <1>4 DEF Lasts, RowGone, Listed
<1>6. ASSUME NEW d \in Codes PROVE CodeFits(d)'
  <2>1. CASE d = c
    BY <1>1, <1>4, <2>1 DEF CodesInv, CodeFits, RowGone, NotAfterEnd
  <2>2. CASE d # c
    BY <1>1, <2>2 DEF CodesInv, CodeFits, RowGone, NotAfterEnd
  <2> QED BY <2>1, <2>2
<1>7. ASSUME NEW a \in Recipients PROVE UseFits(a)'
  <2>1. SUFFICES ASSUME using[a] # Unused PROVE UseFits(a)'
    BY DEF UseFits
  <2>2. UseFits(a) /\ using[a].code \in Codes /\ Owner[using[a].code] = a
    BY <2>1 DEF CodesInv, UseFits
  <2>3. using[a].code # c
    BY <2>1, <2>2 DEF Free
  <2>4. \A v \in Cleaners : sweep'[v] = sweep[v] \/ sweep'[v] = j
    BY DEF CodesInv, CodesTyped
  <2> QED BY <1>1, <2>1, <2>2, <2>3, <2>4 DEF UseFits
<1> QED BY <1>2, <1>4, <1>5, <1>6, <1>7

LEMMA RemoveRowKeeps ==
    ASSUME CodesInv, NEW w \in Cleaners, RemoveRow(w)
    PROVE CodesInv' /\ Lasts
<1>1. PICK i \in Sweeps : i = sweep[w] /\ SweepFits(i) /\ i.at = "remove"
  BY DEF CodesInv, CodesTyped, RemoveRow
<1>2. PICK c \in Codes : c = i.code /\ codeTicket[c].state # "none" /\ codeTicket[c].due = i.due /\ Free(Owner[c])
  BY <1>1 DEF SweepFits, Working, Registered, Listed, RemoveRow
<1>3. UNCHANGED <<now, disabled, key, damaged, codeTicket, using, returns>>
  BY DEF RemoveRow, World
<1>4. CASE ~IsDue(i.due)
  <2>1. sweep' = [sweep EXCEPT ![w] = Done(i)] /\ UNCHANGED Tables
    BY <1>1, <1>3, <1>4 DEF RemoveRow, Goes, Tables
  <2>2. Done(i) \in Sweeps /\ SweepFits(Done(i)) /\ Done(i).at # "prepare"
    BY <1>1, DoneFits
  <2> QED BY <2>1, <2>2, QuietMove
<1>5. CASE IsDue(i.due)
  <2>1. /\ row' = [row EXCEPT ![c] = NoRow] /\ returned' = returned \ {c}
        /\ Goes(w, [i EXCEPT !.at = "close"]) \/ Goes(w, Failed(i))
    BY <1>1, <1>2, <1>5 DEF RemoveRow, GoesOn
  <2>2. PICK j \in Sweeps : sweep' = [sweep EXCEPT ![w] = j] /\ (j = [i EXCEPT !.at = "close"] \/ j = Failed(i))
    BY <2>1, AtMoves, FailedMoves DEF Goes, Stages
  <2>3. j.at # "prepare"
    <3>1. [i EXCEPT !.at = "close"].at = "close"
      BY AtMoves DEF Stages
    <3>2. Failed(i).at = "next"
      BY FailedMoves
    <3> QED BY <2>2, <3>1, <3>2
  <2>4. /\ CodesTyped' /\ Lasts /\ RowGone(c)'
        /\ \A d \in Codes : CodeFits(d)'
        /\ \A a \in Recipients : UseFits(a)'
    BY <1>2, <1>3, <2>1, <2>2, <2>3, RowRemoved
  <2>5. SweepFits(j)'
    <3>1. CASE j = [i EXCEPT !.at = "close"]
      <4>1. /\ j.at = "close" /\ j.now = i.now /\ j.todo = i.todo /\ j.attempts = i.attempts /\ j.failed = i.failed
            /\ j.seals = i.seals /\ j.code = i.code /\ j.due = i.due /\ j.claims = i.claims /\ j.late = i.late
        BY <3>1, AtMoves DEF Stages
      <4>2. SweepFits(i)'
        BY <1>1, <2>4, SweepLasts DEF CodesInv
      <4> QED BY <1>1, <1>2, <2>4, <4>1, <4>2 DEF SweepFits, Working, Registered, Collecting
    <3>2. CASE j = Failed(i)
      BY <1>1, <2>4, <3>2, FailedFits, SweepLasts DEF CodesInv
    <3> QED BY <2>2, <3>1, <3>2
  <2> QED BY <2>2, <2>4, <2>5, SweepGoesOn
<1> QED BY <1>4, <1>5

LEMMA RecheckKeeps ==
    ASSUME CodesInv, NEW w \in Cleaners, Recheck(w)
    PROVE CodesInv' /\ Lasts
<1>1. PICK i \in Sweeps : i = sweep[w] /\ SweepFits(i) /\ i.at = "recheck"
  BY DEF CodesInv, CodesTyped, Recheck
<1>2. PICK c \in Codes : c = i.code /\ codeTicket[c].state = "complete" /\ Free(Owner[c])
  BY <1>1 DEF SweepFits, Working, Listed, Recheck
<1>3. UNCHANGED <<now, disabled, key, damaged, codeTicket, using, returns>>
  BY DEF Recheck, World
<1>4. /\ row' = [row EXCEPT ![c] = NoRow] /\ returned' = returned \ {c}
      /\ Goes(w, Done(i)) \/ Goes(w, Failed(i))
  BY <1>1, <1>2 DEF Recheck, GoesOn
<1>5. PICK j \in Sweeps : sweep' = [sweep EXCEPT ![w] = j] /\ j.at # "prepare" /\ SweepFits(j)
  BY <1>1, <1>4, DoneFits, FailedFits DEF Goes
<1>6. /\ CodesTyped' /\ Lasts /\ RowGone(c)'
      /\ \A d \in Codes : CodeFits(d)'
      /\ \A a \in Recipients : UseFits(a)'
  BY <1>2, <1>3, <1>4, <1>5, RowRemoved
<1>7. SweepFits(j)'
  BY <1>5, <1>6, SweepLasts DEF CodesInv
<1> QED BY <1>5, <1>6, <1>7, SweepGoesOn

\* A key is destroyed only when its code has a ticket that is pending and no row.
LEMMA CloseKeeps ==
    ASSUME CodesInv, NEW w \in Cleaners, Close(w)
    PROVE CodesInv' /\ Lasts
<1>1. PICK i \in Sweeps : i = sweep[w] /\ SweepFits(i) /\ i.at = "close"
  BY DEF CodesInv, CodesTyped, Close
<1>2. PICK c \in Codes : c = i.code /\ codeTicket[c].state = "pending" /\ RowGone(c)
  BY <1>1 DEF SweepFits, Working, Registered, Listed, Close
<1>3. UNCHANGED <<now, disabled, row, damaged, codeTicket, using, returned, returns>>
  BY DEF Close
<1>4. /\ key' = [key EXCEPT ![c].state = "destroyed"]
      /\ Goes(w, [i EXCEPT !.at = "absent"]) \/ Goes(w, Failed(i))
  BY <1>1, <1>2 DEF Close, GoesOn
<1>5. PICK j \in Sweeps : sweep' = [sweep EXCEPT ![w] = j] /\ (j = [i EXCEPT !.at = "absent"] \/ j = Failed(i))
  BY <1>4, AtMoves, FailedMoves DEF Goes, Stages
<1>6. /\ key'[c].state = "destroyed" /\ key'[c].expires = key[c].expires
      /\ \A d \in Codes \ {c} : key'[d] = key[d]
  BY <1>4 DEF CodesInv, CodesTyped
<1>7. j.at # "prepare"
  <2>1. [i EXCEPT !.at = "absent"].at = "absent"
    BY AtMoves DEF Stages
  <2>2. Failed(i).at = "next"
    BY FailedMoves
  <2> QED BY <1>5, <2>1, <2>2
<1>8. CodesTyped'
  <2>1. key' \in [Codes -> [state : {"none", "live", "destroyed"}, expires : Nat]]
    BY <1>4 DEF CodesInv, CodesTyped
  <2>2. sweep' \in [Cleaners -> Sweeps]
    BY <1>5 DEF CodesInv, CodesTyped
  <2> QED BY <1>3, <2>1, <2>2 DEF CodesInv, CodesTyped
<1>9. Lasts
  <2>1. now \in Nat /\ returns \in Nat
    BY CleanupAssumption DEF CodesInv, CodesTyped
  <2> QED BY <1>3, <1>6, <2>1 DEF Lasts, RowGone, Listed
<1>10. c \notin returned
  BY <1>2 DEF CodesInv, CodeFits
<1>11. ASSUME NEW d \in Codes PROVE CodeFits(d)'
  <2>1. CASE d = c
    BY <1>2, <1>3, <1>6, <2>1 DEF CodesInv, CodeFits, RowGone, NotAfterEnd
  <2>2. CASE d # c
    BY <1>3, <1>6, <2>2 DEF CodesInv, CodeFits, RowGone, NotAfterEnd
  <2> QED BY <2>1, <2>2
<1>12. ASSUME NEW a \in Recipients PROVE UseFits(a)'
  <2>1. SUFFICES ASSUME using[a] # Unused PROVE UseFits(a)'
    BY <1>3 DEF UseFits
  <2>2. UseFits(a) /\ using[a].code \in Codes
    BY <2>1 DEF CodesInv, UseFits
  <2>3. using[a].code # c
    BY <1>2, <1>10, <2>1, <2>2 DEF UseFits, RowGone
  <2>4. \A v \in Cleaners : sweep'[v] = sweep[v] \/ sweep'[v] = j
    BY <1>5 DEF CodesInv, CodesTyped
  <2> QED BY <1>3, <1>6, <1>7, <2>1, <2>2, <2>3, <2>4 DEF UseFits
<1>13. SweepFits(j)'
  <2>1. CASE j = [i EXCEPT !.at = "absent"]
    <3>1. /\ j.at = "absent" /\ j.now = i.now /\ j.todo = i.todo /\ j.attempts = i.attempts /\ j.failed = i.failed
          /\ j.seals = i.seals /\ j.code = i.code /\ j.due = i.due /\ j.claims = i.claims /\ j.late = i.late
      BY <2>1, AtMoves DEF Stages
    <3>2. SweepFits(i)'
      BY <1>1, <1>8, <1>9, SweepLasts DEF CodesInv
    <3> QED BY <1>1, <1>2, <1>6, <3>1, <3>2 DEF SweepFits, Working, Registered, Collecting
  <2>2. CASE j = Failed(i)
    BY <1>1, <1>8, <1>9, <2>2, FailedFits, SweepLasts DEF CodesInv
  <2> QED BY <1>5, <2>1, <2>2
<1> QED BY <1>5, <1>8, <1>9, <1>11, <1>12, <1>13, SweepGoesOn

LEMMA CompleteTicketKeeps ==
    ASSUME CodesInv, NEW w \in Cleaners, CompleteTicket(w)
    PROVE CodesInv' /\ Lasts
<1>1. PICK i \in Sweeps : i = sweep[w] /\ SweepFits(i) /\ i.at = "complete"
  BY DEF CodesInv, CodesTyped, CompleteTicket
<1>2. PICK c \in Codes : c = i.code /\ codeTicket[c].state # "none" /\ key[c].state = "destroyed"
  BY <1>1 DEF SweepFits, Working, Registered, Listed
<1>3. UNCHANGED <<now, disabled, row, key, damaged, using, returned, returns>>
  BY DEF CompleteTicket, World
<1>4. CASE codeTicket[c].state # "pending"
  <2>1. sweep' = [sweep EXCEPT ![w] = Failed(i)] /\ UNCHANGED Tables
    BY <1>1, <1>2, <1>3, <1>4 DEF CompleteTicket, Goes, Tables
  <2>2. Failed(i) \in Sweeps /\ SweepFits(Failed(i)) /\ Failed(i).at # "prepare"
    BY <1>1, FailedFits
  <2> QED BY <2>1, <2>2, QuietMove
<1>5. CASE codeTicket[c].state = "pending"
  <2>1. /\ codeTicket' = [codeTicket EXCEPT ![c].state = "complete"]
        /\ Goes(w, Done(i)) \/ Goes(w, Failed(i))
    BY <1>1, <1>2, <1>5 DEF CompleteTicket, GoesOn
  <2>2. PICK j \in Sweeps : sweep' = [sweep EXCEPT ![w] = j] /\ j.at # "prepare" /\ SweepFits(j)
    BY <1>1, <2>1, DoneFits, FailedFits DEF Goes
  <2>3. /\ codeTicket'[c].state = "complete" /\ codeTicket'[c].due = codeTicket[c].due
        /\ \A d \in Codes \ {c} : codeTicket'[d] = codeTicket[d]
    BY <2>1 DEF CodesInv, CodesTyped
  <2>4. CodesTyped'
    <3>1. codeTicket' \in [Codes -> [state : {"none", "pending", "complete"}, due : Nat]]
      BY <2>1 DEF CodesInv, CodesTyped
    <3>2. sweep' \in [Cleaners -> Sweeps]
      BY <2>2 DEF CodesInv, CodesTyped
    <3> QED BY <1>3, <3>1, <3>2 DEF CodesInv, CodesTyped
  <2>5. Lasts
    <3>1. now \in Nat /\ returns \in Nat
      BY CleanupAssumption DEF CodesInv, CodesTyped
    <3> QED BY <1>3, <2>3, <3>1 DEF Lasts, RowGone, Listed
  <2>6. ASSUME NEW d \in Codes PROVE CodeFits(d)'
    <3>1. CASE d = c
      BY <1>2, <1>3, <1>5, <2>3, <3>1 DEF CodesInv, CodeFits, RowGone, NotAfterEnd
    <3>2. CASE d # c
      BY <1>3, <2>3, <3>2 DEF CodesInv, CodeFits, RowGone, NotAfterEnd
    <3> QED BY <3>1, <3>2
  <2>7. ASSUME NEW a \in Recipients PROVE UseFits(a)'
    <3>1. SUFFICES ASSUME using[a] # Unused PROVE UseFits(a)'
      BY <1>3 DEF UseFits
    <3>2. UseFits(a) /\ using[a].code \in Codes /\ using[a].code # c
      BY <1>2, <3>1 DEF CodesInv, UseFits
    <3>3. \A v \in Cleaners : sweep'[v] = sweep[v] \/ sweep'[v] = j
      BY <2>2 DEF CodesInv, CodesTyped
    <3> QED BY <1>3, <2>2, <2>3, <3>1, <3>2, <3>3 DEF UseFits
  <2>8. SweepFits(j)'
    BY <2>2, <2>4, <2>5, SweepLasts DEF CodesInv
  <2> QED BY <2>2, <2>4, <2>5, <2>6, <2>7, <2>8, SweepGoesOn
<1> QED BY <1>4, <1>5

LEMMA UseLasts ==
    ASSUME CodesInv, UNCHANGED <<now, disabled, row, key, damaged, codeTicket, sweep, returned, returns>>,
           NEW a \in Recipients, NEW use \in Uses, using' = [using EXCEPT ![a] = use],
           use = Unused \/ (using[a] # Unused /\ use.code = using[a].code /\ use.does = using[a].does)
    PROVE CodesInv' /\ Lasts
<1>1. CodesTyped'
  BY DEF CodesInv, CodesTyped
<1>2. Lasts
  BY CleanupAssumption DEF CodesInv, CodesTyped, Lasts, RowGone, Listed
<1>3. ASSUME NEW c \in Codes PROVE CodeFits(c)'
  BY DEF CodesInv, CodeFits, RowGone, NotAfterEnd
<1>4. ASSUME NEW b \in Recipients PROVE UseFits(b)'
  <2>1. using'[b] = using[b] \/ (b = a /\ using'[b] = use)
    BY DEF CodesInv, CodesTyped
  <2>2. UseFits(b)
    BY DEF CodesInv
  <2> QED BY <2>1, <2>2 DEF UseFits
<1> QED BY <1>1, <1>2, <1>3, <1>4, SweepsStay

LEMMA AllocateKeeps ==
    ASSUME CodesInv, NEW c \in Codes, Allocate(c)
    PROVE CodesInv' /\ Lasts
<1> DEFINE use == [code |-> c, does |-> "issue", at |-> Never, sent |-> FALSE]
           k == [state |-> "live", expires |-> now + Lifetime]
<1>1. /\ Free(Owner[c]) /\ disabled[Owner[c]] = Never /\ key[c].state = "none" /\ Owner[c] \in Recipients
      /\ key' = [key EXCEPT ![c] = k] /\ using' = [using EXCEPT ![Owner[c]] = use]
      /\ UNCHANGED <<now, disabled, row, damaged, codeTicket, sweep, returned, returns>>
  BY CleanupAssumption DEF Allocate, Users, IsActive
<1>2. use \in Uses /\ k \in [state : {"none", "live", "destroyed"}, expires : Nat] /\ k.state = "live"
  BY CleanupAssumption, NeverIsLast DEF Uses, CodesInv, CodesTyped
<1>3. use.code = c /\ use.does = "issue"
  OBVIOUS
<1> HIDE DEF use, k
<1>4. key'[c] = k /\ \A d \in Codes \ {c} : key'[d] = key[d]
  BY <1>1 DEF CodesInv, CodesTyped
<1>5. CodesTyped'
  BY <1>1, <1>2 DEF CodesInv, CodesTyped
<1>6. Lasts
  <2>1. now \in Nat /\ returns \in Nat
    BY CleanupAssumption DEF CodesInv, CodesTyped
  <2> QED BY <1>1, <1>2, <1>4, <2>1 DEF Lasts, RowGone, Listed
<1>7. ASSUME NEW d \in Codes PROVE CodeFits(d)'
  <2>1. CASE d = c
    BY <1>1, <1>2, <1>4, <2>1 DEF CodesInv, CodeFits
  <2>2. CASE d # c
    BY <1>1, <1>4, <2>2 DEF CodesInv, CodeFits, RowGone, NotAfterEnd
  <2> QED BY <2>1, <2>2
<1>8. ASSUME NEW a \in Recipients PROVE UseFits(a)'
  <2>1. CASE a = Owner[c]
    <3>1. using'[a] = use
      BY <1>1, <2>1 DEF CodesInv, CodesTyped
    <3>2. codeTicket[c].state = "none" /\ ~row[c].there
      BY <1>1 DEF CodesInv, CodeFits
    <3>3. ASSUME NEW w \in Cleaners, sweep[w].at = "prepare" PROVE sweep[w].code # c
      BY <1>1, <3>3 DEF CodesInv, SweepFits, Working, Listed
    <3> QED BY <1>1, <1>2, <1>3, <1>4, <2>1, <3>1, <3>2, <3>3 DEF UseFits
  <2>2. CASE a # Owner[c]
    <3>1. using'[a] = using[a]
      BY <1>1, <2>2 DEF CodesInv, CodesTyped
    <3>2. UseFits(a)
      BY DEF CodesInv
    <3> QED BY <1>1, <1>4, <2>2, <3>1, <3>2 DEF UseFits
  <2> QED BY <2>1, <2>2
<1> QED BY <1>1, <1>5, <1>6, <1>7, <1>8, SweepsStay

LEMMA EndKeeps ==
    ASSUME CodesInv, NEW c \in Codes, End(c)
    PROVE CodesInv' /\ Lasts
<1> DEFINE use == [code |-> c, does |-> "end", at |-> now, sent |-> FALSE]
<1>1. /\ Free(Owner[c]) /\ disabled[Owner[c]] = Never /\ key[c].state = "live" /\ Owner[c] \in Recipients
      /\ row[c].there /\ row[c].ended = Never
      /\ using' = [using EXCEPT ![Owner[c]] = use]
      /\ UNCHANGED <<now, disabled, row, key, damaged, codeTicket, sweep, returned, returns>>
  BY CleanupAssumption DEF End, Users, IsActive
<1>2. use \in Uses
  BY CleanupAssumption DEF Uses, CodesInv, CodesTyped
<1>3. use.code = c /\ use.does = "end"
  OBVIOUS
<1> HIDE DEF use
<1>4. CodesTyped'
  BY <1>1, <1>2 DEF CodesInv, CodesTyped
<1>5. Lasts
  <2>1. now \in Nat /\ returns \in Nat
    BY CleanupAssumption DEF CodesInv, CodesTyped
  <2> QED BY <1>1, <2>1 DEF Lasts, RowGone, Listed
<1>6. ASSUME NEW d \in Codes PROVE CodeFits(d)'
  BY <1>1 DEF CodesInv, CodeFits, RowGone, NotAfterEnd
<1>7. ASSUME NEW a \in Recipients PROVE UseFits(a)'
  <2>1. using'[a] = using[a] \/ (a = Owner[c] /\ using'[a] = use)
    BY <1>1 DEF CodesInv, CodesTyped
  <2>2. UseFits(a)
    BY DEF CodesInv
  <2> QED BY <1>1, <1>3, <2>1, <2>2 DEF UseFits
<1> QED BY <1>1, <1>4, <1>5, <1>6, <1>7, SweepsStay

LEMMA UserCommitsKeeps ==
    ASSUME CodesInv, NEW a \in Recipients, UserCommits(a) \/ UserAborts(a)
    PROVE CodesInv' /\ Lasts
<1>1. PICK u \in Uses : u = using[a] /\ u # Unused
  BY DEF CodesInv, CodesTyped, UserCommits, UserAborts, Free
<1>2. Unused \in Uses
  BY NeverIsLast DEF Unused, Uses
<1>3. [u EXCEPT !.sent = TRUE] \in Uses /\ [u EXCEPT !.sent = TRUE].code = u.code
      /\ [u EXCEPT !.sent = TRUE].does = u.does
  BY DEF Uses
<1>4. PICK use \in Uses : using' = [using EXCEPT ![a] = use] /\ (use = Unused \/ use = [u EXCEPT !.sent = TRUE])
  BY <1>1, <1>2, <1>3 DEF UserCommits, UserAborts
<1>5. UNCHANGED <<now, disabled, row, key, damaged, codeTicket, sweep, returned, returns>>
  BY DEF UserCommits, UserAborts, Users
<1> QED BY <1>1, <1>3, <1>4, <1>5, UseLasts

\* What a transaction commits is a row nobody else works on.
LEMMA UserCommittedKeeps ==
    ASSUME CodesInv, NEW a \in Recipients, UserCommitted(a)
    PROVE CodesInv' /\ Lasts
<1>1. PICK u \in Uses : u = using[a] /\ u # Unused /\ UseFits(a)
  BY DEF CodesInv, CodesTyped, UserCommitted, Unused
<1>2. PICK c \in Codes : c = u.code /\ Owner[c] = a /\ key[c].state = "live" /\ disabled[a] = Never
  BY <1>1 DEF UseFits
<1>3. \/ codeTicket[c].state = "none" /\ ~row[c].there
      \/ row[c].there /\ row[c].ended = Never
  BY <1>1, <1>2 DEF UseFits
<1>4. /\ row' = [row EXCEPT ![c] = [there |-> TRUE, ended |-> u.at]] /\ using' = [using EXCEPT ![a] = Unused]
      /\ UNCHANGED <<now, disabled, key, damaged, codeTicket, sweep, returned, returns>>
  BY <1>1, <1>2 DEF UserCommitted, Users
<1>5. u.at \in Nat /\ Unused \in Uses
  BY NeverIsLast DEF Uses, Unused
<1>6. row'[c].there /\ \A d \in Codes \ {c} : row'[d] = row[d]
  BY <1>4 DEF CodesInv, CodesTyped
<1>7. CodesTyped'
  <2>1. row' \in [Codes -> [there : BOOLEAN, ended : Nat]]
    BY <1>4, <1>5 DEF CodesInv, CodesTyped
  <2> QED BY <1>4, <1>5, <2>1 DEF CodesInv, CodesTyped
<1>8. ASSUME NEW d \in Codes, RowGone(d) PROVE RowGone(d)'
  BY <1>3, <1>4, <1>6, <1>8 DEF RowGone
<1>9. Lasts
  <2>1. now \in Nat /\ returns \in Nat
    BY CleanupAssumption DEF CodesInv, CodesTyped
  <2> QED BY <1>4, <1>8, <2>1 DEF Lasts, Listed
<1>10. ASSUME NEW d \in Codes PROVE CodeFits(d)'
  <2>1. CASE d = c
    BY <1>2, <1>4, <1>6, <2>1 DEF CodesInv, CodeFits, NotAfterEnd
  <2>2. CASE d # c
    BY <1>4, <1>6, <2>2 DEF CodesInv, CodeFits, RowGone, NotAfterEnd
  <2> QED BY <2>1, <2>2
<1>11. ASSUME NEW b \in Recipients PROVE UseFits(b)'
  <2>1. CASE b = a
    BY <1>4, <2>1 DEF CodesInv, CodesTyped, UseFits
  <2>2. CASE b # a
    <3>1. using'[b] = using[b]
      BY <1>4, <2>2 DEF CodesInv, CodesTyped
    <3>2. UseFits(b)
      BY DEF CodesInv
    <3> QED BY <1>2, <1>4, <1>6, <2>2, <3>1, <3>2 DEF UseFits
  <2> QED BY <2>1, <2>2
<1> QED BY <1>4, <1>7, <1>9, <1>10, <1>11, SweepsStay

LEMMA DisableKeeps ==
    ASSUME CodesInv, NEW a \in Recipients, DisableRecipient(a)
    PROVE CodesInv' /\ Lasts
<1>1. /\ Free(a) /\ disabled[a] = Never /\ disabled' = [disabled EXCEPT ![a] = now]
      /\ UNCHANGED <<now, row, key, damaged, codeTicket, using, sweep, returned, returns>>
  BY DEF DisableRecipient, IsActive
<1>2. disabled'[a] = now /\ \A b \in Recipients \ {a} : disabled'[b] = disabled[b]
  BY <1>1 DEF CodesInv, CodesTyped
<1>3. now \in Nat /\ returns \in Nat
  BY CleanupAssumption DEF CodesInv, CodesTyped
<1>4. CodesTyped'
  <2>1. disabled' \in [Recipients -> Nat]
    BY <1>1, <1>3 DEF CodesInv, CodesTyped
  <2> QED BY <1>1, <2>1 DEF CodesInv, CodesTyped
<1>5. Lasts
  <2>1. \A b \in Recipients : disabled'[b] = disabled[b] \/ (disabled[b] = Never /\ disabled'[b] = now)
    BY <1>1, <1>2
  <2> QED BY <1>1, <1>3, <2>1 DEF Lasts, RowGone, Listed
<1>6. ASSUME NEW c \in Codes PROVE CodeFits(c)'
  <2>1. codeTicket[c].state # "none" => NotAfterEnd(codeTicket[c].due, c)'
    <3>1. SUFFICES ASSUME codeTicket[c].state # "none" PROVE NotAfterEnd(codeTicket[c].due, c)'
      OBVIOUS
    <3>2. Owner[c] \in Recipients /\ NotAfterEnd(codeTicket[c].due, c)
      BY <3>1, CleanupAssumption DEF CodesInv, CodeFits
    <3> QED BY <1>1, <1>2, <3>2 DEF NotAfterEnd
  <2> QED BY <1>1, <2>1 DEF CodesInv, CodeFits, RowGone
<1>7. ASSUME NEW b \in Recipients PROVE UseFits(b)'
  <2>1. UseFits(b)
    BY DEF CodesInv
  <2> QED BY <1>1, <1>2, <2>1 DEF UseFits, Free
<1> QED BY <1>1, <1>4, <1>5, <1>6, <1>7, SweepsStay

LEMMA DamageKeeps ==
    ASSUME CodesInv, NEW x \in Codes \cup Recipients, Damage(x)
    PROVE CodesInv' /\ Lasts
<1>1. damaged' = damaged \cup {x} /\ UNCHANGED <<now, disabled, row, key, codeTicket, using, sweep, returned, returns>>
  BY DEF Damage
<1>2. CodesTyped'
  BY <1>1 DEF CodesInv, CodesTyped
<1>3. Lasts
  BY <1>1, CleanupAssumption DEF CodesInv, CodesTyped, Lasts, RowGone, Listed
<1>4. ASSUME NEW d \in Codes PROVE CodeFits(d)'
  BY <1>1 DEF CodesInv, CodeFits, RowGone, NotAfterEnd
<1>5. ASSUME NEW b \in Recipients PROVE UseFits(b)'
  BY <1>1 DEF CodesInv, UseFits
<1> QED BY <1>1, <1>2, <1>3, <1>4, <1>5, SweepsStay

\* A row comes back only for a code that is done with, and is known to have come back.
LEMMA RowReturnsKeeps ==
    ASSUME CodesInv, NEW c \in Codes, RowReturns(c)
    PROVE CodesInv' /\ Lasts
<1>1. /\ codeTicket[c].state = "complete" /\ row' = [row EXCEPT ![c] = [there |-> TRUE, ended |-> Never]]
      /\ returned' = returned \cup {c} /\ returns' = returns + 1
      /\ UNCHANGED <<now, disabled, key, damaged, codeTicket, using, sweep>>
  BY DEF RowReturns
<1>2. key[c].state = "destroyed" /\ now \in Nat /\ returns \in Nat /\ returns' \in Nat /\ returns' > 0
  BY <1>1, CleanupAssumption DEF CodesInv, CodeFits, CodesTyped
<1>3. row'[c].there /\ \A d \in Codes \ {c} : row'[d] = row[d]
  BY <1>1 DEF CodesInv, CodesTyped
<1>4. CodesTyped'
  <2>1. row' \in [Codes -> [there : BOOLEAN, ended : Nat]]
    BY <1>1, NeverIsLast DEF CodesInv, CodesTyped
  <2> QED BY <1>1, <1>2, <2>1 DEF CodesInv, CodesTyped
<1>5. ASSUME NEW d \in Codes, RowGone(d) PROVE RowGone(d)'
  BY <1>1, <1>3, <1>5 DEF RowGone
<1>6. Lasts
  BY <1>1, <1>2, <1>5 DEF Lasts, Listed
<1>7. ASSUME NEW d \in Codes PROVE CodeFits(d)'
  <2>1. CASE d = c
    BY <1>1, <1>2, <1>3, <2>1 DEF CodesInv, CodeFits, RowGone, NotAfterEnd
  <2>2. CASE d # c
    BY <1>1, <1>2, <1>3, <2>2 DEF CodesInv, CodeFits, RowGone, NotAfterEnd
  <2> QED BY <2>1, <2>2
<1>8. ASSUME NEW b \in Recipients PROVE UseFits(b)'
  <2>1. UseFits(b)
    BY DEF CodesInv
  <2> QED BY <1>1, <1>2, <1>3, <2>1 DEF UseFits
<1> QED BY <1>1, <1>4, <1>6, <1>7, <1>8, SweepsStay

LEMMA TickKeeps ==
    ASSUME CodesInv, Tick
    PROVE CodesInv' /\ Lasts
<1>1. now < MaxTime /\ now' = now + 1
      /\ UNCHANGED <<disabled, row, key, damaged, codeTicket, using, sweep, returned, returns>>
  BY DEF Tick
<1>2. now \in Nat /\ returns \in Nat /\ now' \in 0..MaxTime
  BY <1>1, CleanupAssumption DEF CodesInv, CodesTyped
<1>3. CodesTyped'
  BY <1>1, <1>2 DEF CodesInv, CodesTyped
<1>4. Lasts
  BY <1>1, <1>2 DEF Lasts, RowGone, Listed
<1>5. ASSUME NEW d \in Codes PROVE CodeFits(d)'
  <2>1. codeTicket[d].state # "none" => NotAfterEnd(codeTicket[d].due, d)'
    BY <1>1, <1>2 DEF CodesInv, CodeFits, CodesTyped, NotAfterEnd
  <2> QED BY <1>1, <2>1 DEF CodesInv, CodeFits, RowGone
<1>6. ASSUME NEW b \in Recipients PROVE UseFits(b)'
  BY <1>1 DEF CodesInv, UseFits
<1> QED BY <1>1, <1>3, <1>4, <1>5, <1>6, SweepsStay

LEMMA CodesInit_Holds ==
    ASSUME CodesInit
    PROVE CodesInv
<1>1. CodesTyped
  BY CleanupAssumption, NeverIsLast, RestingIs DEF CodesInit, CodesTyped, NoRow, NoKey, NoTicket, Unused, Uses
<1>2. ASSUME NEW c \in Codes PROVE CodeFits(c)
  BY DEF CodesInit, CodeFits, NoRow, NoKey, NoTicket
<1>3. ASSUME NEW a \in Recipients PROVE UseFits(a)
  BY DEF CodesInit, UseFits
<1>4. ASSUME NEW w \in Cleaners PROVE SweepFits(sweep[w])
  BY CleanupAssumption, RestingIs DEF CodesInit, SweepFits, Working, Registered, Collecting
<1> QED BY <1>1, <1>2, <1>3, <1>4 DEF CodesInv

LEMMA CodesStep ==
    ASSUME CodesInv, CodesNext
    PROVE CodesInv' /\ Lasts
<1>1. ASSUME NEW c \in Codes, Allocate(c) \/ End(c) \/ RowReturns(c) PROVE CodesInv' /\ Lasts
  BY <1>1, AllocateKeeps, EndKeeps, RowReturnsKeeps
<1>6. ASSUME NEW x \in Codes \cup Recipients, Damage(x) PROVE CodesInv' /\ Lasts
  BY <1>6, DamageKeeps
<1>2. ASSUME NEW a \in Recipients, UserStep(a) \/ DisableRecipient(a) PROVE CodesInv' /\ Lasts
  BY <1>2, UserCommitsKeeps, UserCommittedKeeps, DisableKeeps DEF UserStep
<1>3. CASE Tick
  BY <1>3, TickKeeps
<1>4. ASSUME NEW w \in Cleaners, Run(w) \/ Skip(w) \/ Fault(w) \/ CleanupCrash(w) \/ \E c \in Codes : CleanOne(w, c)
      PROVE CodesInv' /\ Lasts
  BY <1>4, RunKeeps, SkipKeeps, QuietEndKeeps, CleanOneKeeps
<1>5. ASSUME NEW w \in Cleaners, Work(w) PROVE CodesInv' /\ Lasts
  BY <1>5, ReadTicketsKeeps, CandidatesKeeps, TakeKeeps, InspectKeeps, RegisterTicketKeeps, RemoveRowKeeps, CloseKeeps,
     QuietEndKeeps, CompleteTicketKeeps, RecheckKeeps DEF Work
<1> QED BY <1>1, <1>2, <1>3, <1>4, <1>5, <1>6 DEF CodesNext

LEMMA CodesStutter ==
    ASSUME CodesInv, UNCHANGED cleanupVars
    PROVE CodesInv'
<1>1. UNCHANGED <<now, disabled, row, key, damaged, codeTicket, using, sweep, returned, returns>>
  BY DEF cleanupVars
<1>2. CodesTyped'
  BY <1>1 DEF CodesInv, CodesTyped
<1>3. Lasts
  BY <1>1, CleanupAssumption DEF CodesInv, CodesTyped, Lasts, RowGone, Listed
<1>4. ASSUME NEW d \in Codes PROVE CodeFits(d)'
  BY <1>1 DEF CodesInv, CodeFits, RowGone, NotAfterEnd
<1>5. ASSUME NEW b \in Recipients PROVE UseFits(b)'
  BY <1>1 DEF CodesInv, UseFits
<1> QED BY <1>1, <1>2, <1>3, <1>4, <1>5, SweepsStay

\* Rows, keys, tickets, locks and runs fit each other at all times (CodesInv), for any number of codes,
\* actors, overlapping runs and rows back from backups (RecipientCodeCleanupService).
THEOREM CodesInvariant == CodesSpec => []CodesInv
<1>1. CodesInv /\ [CodesNext]_cleanupVars => CodesInv'
  BY CodesStep, CodesStutter
<1> QED BY <1>1, CodesInit_Holds, PTL DEF CodesSpec

\* The row of a code never outlives its key, but one that came back from a backup; a ticket is complete
\* only when the key is destroyed and the row gone (RecipientCodeCleanupService, finish).
THEOREM KeysOutlast == CodesSpec => []CodeKeysOutliveRows
<1>1. CodesInv => CodeKeysOutliveRows
  BY DEF CodesInv, CodesTyped, CodeFits, RowGone, CodeKeysOutliveRows, CleanupTypeOK, Sweeps
<1> QED BY <1>1, CodesInvariant, PTL

-----------------------------------------------------------------------------
(* What a run that would answer "complete" has still to do                 *)

EndedBy(n, c) == key[c].expires <= n \/ disabled[Owner[c]] <= n
OverBy(n, c) == EndedBy(n, c) \/ (row[c].there /\ row[c].ended <= n)
\* A code that was over by the time of the run is yet to be taken up, or worked on.
StillToDo(j, c) ==
    /\ OverBy(j.now, c)
    /\ \/ \E t \in j.todo : t.code = c
       \/ j.at \in Collecting /\ EndedBy(j.now, c)
       \/ j.at \in {"inspect", "prepare", "remove"} /\ j.code = c
ClaimFits(j) ==
    ~j.failed /\ ~j.seals /\ ~j.left => \A c \in Accountable(j, j.claims, 0) : RowGone(c) \/ StillToDo(j, c)

\* Rows and keys come only from users whose actor is not disabled, and from a backup.
RowsMove ==
    \A c \in Codes :
      /\ row[c].there /\ row[c].ended <= now => row'[c] = row[c] \/ RowGone(c)'
      /\ row'[c].there => row[c].there \/ disabled[Owner[c]] = Never \/ returns' > 0
      /\ key'[c].state = "live" => key[c].state = "live" \/ (disabled'[Owner[c]] = Never /\ key'[c].expires >= now)

LEMMA RowsAndKeysMove ==
    ASSUME CodesInv, CodesNext
    PROVE RowsMove
<1>1. ASSUME UNCHANGED <<row, key>> PROVE RowsMove
  BY <1>1 DEF RowsMove
<1>2. ASSUME NEW c \in Codes, Allocate(c) PROVE RowsMove
  <2>1. /\ row' = row /\ disabled' = disabled /\ disabled[Owner[c]] = Never
        /\ key' = [key EXCEPT ![c] = [state |-> "live", expires |-> now + Lifetime]]
    BY <1>2 DEF Allocate, Users, IsActive
  <2>2. key'[c].expires = now + Lifetime /\ \A d \in Codes \ {c} : key'[d] = key[d]
    BY <2>1 DEF CodesInv, CodesTyped
  <2>3. key'[c].expires >= now
    BY <2>2, CleanupAssumption DEF CodesInv, CodesTyped
  <2> QED BY <2>1, <2>2, <2>3 DEF RowsMove
<1>3. ASSUME NEW c \in Codes, End(c) PROVE RowsMove
  BY <1>1, <1>3 DEF End, Users
<1>13. ASSUME NEW x \in Codes \cup Recipients, Damage(x) PROVE RowsMove
  BY <1>1, <1>13 DEF Damage
<1>4. ASSUME NEW c \in Codes, RowReturns(c) PROVE RowsMove
  <2>1. row' = [row EXCEPT ![c] = [there |-> TRUE, ended |-> Never]] /\ key' = key /\ returns' = returns + 1
        /\ returned' = returned \cup {c} /\ codeTicket' = codeTicket /\ codeTicket[c].state = "complete"
    BY <1>4 DEF RowReturns
  <2>2. (\A d \in Codes \ {c} : row'[d] = row[d]) /\ returns' > 0 /\ RowGone(c)'
    BY <2>1 DEF CodesInv, CodesTyped, RowGone
  <2> QED BY <2>1, <2>2 DEF RowsMove
<1>5. ASSUME NEW a \in Recipients, UserCommits(a) \/ UserAborts(a) \/ DisableRecipient(a) PROVE RowsMove
  BY <1>1, <1>5 DEF UserCommits, UserAborts, DisableRecipient
<1>6. ASSUME NEW a \in Recipients, UserCommitted(a) PROVE RowsMove
  <2>1. PICK c \in Codes : c = using[a].code /\ Owner[c] = a /\ disabled[a] = Never
                           /\ (~row[c].there \/ row[c].ended = Never)
    BY <1>6 DEF CodesInv, UseFits, UserCommitted, Unused
  <2>2. row' = [row EXCEPT ![c] = [there |-> TRUE, ended |-> using[a].at]] /\ key' = key
    BY <1>6, <2>1 DEF UserCommitted
  <2>3. \A d \in Codes \ {c} : row'[d] = row[d]
    BY <2>2 DEF CodesInv, CodesTyped
  <2>4. ~(row[c].there /\ row[c].ended <= now)
    BY <2>1, NeverIsLast, CleanupAssumption DEF CodesInv, CodesTyped
  <2> QED BY <2>1, <2>2, <2>3, <2>4 DEF RowsMove
<1>7. CASE Tick
  BY <1>1, <1>7 DEF Tick
<1>8. ASSUME NEW w \in Cleaners, RemoveRow(w) \/ Recheck(w) PROVE RowsMove
  <2>1. PICK i \in Sweeps : i = sweep[w] /\ SweepFits(i) /\ i.at \in {"remove", "recheck"}
    BY <1>8 DEF CodesInv, CodesTyped, RemoveRow, Recheck
  <2>2. PICK c \in Codes : c = i.code /\ codeTicket[c].state # "none"
    BY <2>1 DEF SweepFits, Working, Registered, Listed
  <2>3. key' = key /\ codeTicket' = codeTicket /\ (row' = row \/ row' = [row EXCEPT ![c] = NoRow])
    BY <1>8, <2>1, <2>2 DEF RemoveRow, Recheck, World
  <2>4. CASE row' = [row EXCEPT ![c] = NoRow]
    <3>1. (\A d \in Codes \ {c} : row'[d] = row[d]) /\ ~row'[c].there
      BY <2>4 DEF CodesInv, CodesTyped, NoRow
    <3>2. RowGone(c)'
      BY <2>2, <2>3, <3>1 DEF RowGone
    <3> QED BY <2>3, <3>1, <3>2 DEF RowsMove
  <2> QED BY <1>1, <2>3, <2>4
<1>9. ASSUME NEW w \in Cleaners, Close(w) PROVE RowsMove
  <2>1. row' = row /\ key' = [key EXCEPT ![sweep[w].code].state = "destroyed"]
    BY <1>9 DEF Close
  <2>2. \A d \in Codes : key'[d].state = "live" => key[d].state = "live"
    BY <2>1 DEF CodesInv, CodesTyped
  <2> QED BY <2>1, <2>2 DEF RowsMove
<1>10. ASSUME NEW w \in Cleaners, Run(w) \/ Skip(w) \/ Fault(w) \/ CleanupCrash(w) \/ \E c \in Codes : CleanOne(w, c)
       PROVE RowsMove
  BY <1>1, <1>10 DEF Run, Skip, Fault, CleanupCrash, CleanOne, World
<1>11. ASSUME NEW w \in Cleaners, ReadTickets(w) \/ Candidates(w) \/ Take(w) \/ Inspect(w) \/ RegisterTicket(w)
       PROVE RowsMove
  BY <1>1, <1>11 DEF ReadTickets, Candidates, Take, Inspect, RegisterTicket, World
<1>12. ASSUME NEW w \in Cleaners, CloseRefused(w) \/ CheckRowGone(w) \/ CompleteTicket(w) \/ ReportRun(w)
       PROVE RowsMove
  BY <1>1, <1>12 DEF CloseRefused, CheckRowGone, CompleteTicket, ReportRun, World
<1> QED BY <1>2, <1>3, <1>4, <1>5, <1>6, <1>7, <1>8, <1>9, <1>10, <1>11, <1>12, <1>13 DEF CodesNext, UserStep, Work

LEMMA EndedLasts ==
    ASSUME CodesInv, Lasts, NEW c \in Listed, NEW n \in Nat, n <= now, EndedBy(n, c)
    PROVE EndedBy(n, c)'
<1>1. c \in Codes /\ Owner[c] \in Recipients /\ now \in Nat /\ now <= MaxTime
  BY CleanupAssumption DEF Listed, CodesInv, CodesTyped
<1>2. disabled[Owner[c]] <= n => disabled'[Owner[c]] = disabled[Owner[c]]
  BY <1>1, NeverIsLast, CleanupAssumption DEF Lasts
<1> QED BY <1>1, <1>2 DEF EndedBy, Lasts

LEMMA StillLasts ==
    ASSUME CodesInv, Lasts, RowsMove, NEW j \in Sweeps, j.now <= now, NEW c \in Listed, StillToDo(j, c)
    PROVE RowGone(c)' \/ StillToDo(j, c)'
<1>1. j.now \in Nat /\ c \in Codes /\ now \in Nat
  BY CleanupAssumption DEF Sweeps, Listed, CodesInv, CodesTyped
<1>2. EndedBy(j.now, c) => EndedBy(j.now, c)'
  BY <1>1, EndedLasts
<1>3. OverBy(j.now, c)' \/ RowGone(c)'
  <2>1. CASE row[c].there /\ row[c].ended <= j.now
    <3>1. row[c].ended <= now
      BY <1>1, <2>1 DEF CodesInv, CodesTyped
    <3> QED BY <1>1, <2>1, <3>1 DEF RowsMove, OverBy
  <2> QED BY <1>2, <2>1 DEF StillToDo, OverBy
<1> QED BY <1>2, <1>3 DEF StillToDo

\* What a run answers for does not change: the provider's expiry is final.
LEMMA AccountableStays ==
    ASSUME CodesInv, Lasts, NEW j, NEW S \in SUBSET Listed, NEW time, NEW c \in Accountable(j, S, time)'
    PROVE c \in Accountable(j, S, time)
BY DEF Accountable, Lasts

LEMMA ClaimLasts ==
    ASSUME CodesInv, Lasts, RowsMove, NEW j \in Sweeps, j.now <= now, j.claims \subseteq Listed, ClaimFits(j)
    PROVE ClaimFits(j)'
<1>1. SUFFICES ASSUME ~j.failed, ~j.seals, ~j.left, NEW c \in Accountable(j, j.claims, 0)
               PROVE RowGone(c)' \/ StillToDo(j, c)'
  BY AccountableStays DEF ClaimFits
<1>2. c \in Listed /\ c \in Codes
  BY DEF Listed, Accountable
<1>3. RowGone(c) \/ StillToDo(j, c)
  BY <1>1 DEF ClaimFits
<1> QED BY <1>2, <1>3, StillLasts DEF Lasts

LEMMA AccountableKept ==
    ASSUME NEW i, NEW j, Keeps(i, j), NEW time, NEW c
    PROVE /\ c \in Accountable(j, j.claims, time) => c \in Accountable(i, i.claims, time)
          /\ c \in Accountable(j, j.late, time) => c \in Accountable(i, i.late, time)
BY DEF Accountable, Keeps

LEMMA ClaimQuiet ==
    ASSUME UNCHANGED Tables, NEW j, ClaimFits(j)
    PROVE ClaimFits(j)'
BY DEF Tables, ClaimFits, Accountable, RowGone, StillToDo, OverBy, EndedBy

LEMMA ClaimOn ==
    ASSUME NEW i \in Sweeps, NEW j \in Sweeps, ClaimFits(i), Keeps(i, j), i.todo \subseteq j.todo,
           i.at \notin Collecting, i.at \notin {"inspect", "prepare", "remove"}
    PROVE ClaimFits(j)
BY AccountableKept DEF ClaimFits, Keeps, StillToDo

ClaimsGoOn(w) == \E j \in Sweeps : sweep' = [sweep EXCEPT ![w] = j] /\ ClaimFits(j)'

LEMMA RunClaims ==
    ASSUME CodesInv, NEW w \in Cleaners, Run(w)
    PROVE ClaimsGoOn(w)
<1>1. PICK j \in Sweeps, hints \in SUBSET Codes :
        sweep' = [sweep EXCEPT ![w] = j] /\ UNCHANGED Tables /\ Begins(j, hints)
  BY RunMoves DEF CodesInv
<1>2. /\ j.at = "tickets" /\ j.now = now /\ (~j.left => hints = Over)
      /\ j.claims = {c \in Codes : key[c].state = "live" /\ now >= OverSince(c)}
      /\ \A c \in hints : Candidate(c, OverSince(c), TRUE) \in j.todo
  BY <1>1 DEF Begins
<1>3. ASSUME NEW c \in j.claims, ~j.left PROVE StillToDo(j, c)
  <2>1. c \in Codes /\ now >= OverSince(c) /\ now \in Nat /\ row[c].ended \in Nat
    BY <1>2, CleanupAssumption DEF CodesInv, CodesTyped
  <2>2. OverSince(c) \in {key[c].expires, row[c].ended, disabled[Owner[c]]}
    BY <2>1, OverSinceIs DEF CodesInv
  <2>3. CASE row[c].there
    <3>1. c \in hints
      BY <1>2, <1>3, <2>1, <2>3 DEF Over
    <3>2. \E t \in j.todo : t.code = c
      BY <1>2, <3>1 DEF Candidate
    <3> QED BY <1>2, <2>1, <2>2, <2>3, <3>2 DEF StillToDo, OverBy, EndedBy
  <2>4. CASE ~row[c].there
    <3>1. ~(row[c].ended <= now)
      BY <2>1, <2>4, NeverIsLast, CleanupAssumption DEF CodesInv, CodeFits, CodesTyped
    <3>2. EndedBy(now, c)
      BY <2>1, <2>2, <3>1 DEF EndedBy
    <3> QED BY <1>2, <3>2 DEF StillToDo, OverBy, Collecting
  <2> QED BY <2>3, <2>4
<1>4. ClaimFits(j)
  BY <1>3 DEF ClaimFits, Accountable
<1> QED BY <1>1, <1>4, ClaimQuiet DEF ClaimsGoOn

LEMMA CleanOneClaims ==
    ASSUME CodesInv, NEW w \in Cleaners, NEW c \in Codes, CleanOne(w, c)
    PROVE ClaimsGoOn(w)
<1>1. PICK j \in Sweeps :
        sweep' = [sweep EXCEPT ![w] = j] /\ UNCHANGED Tables /\ c \in Listed /\ BeginsWith(j, c)
  BY CleanOneMoves DEF CodesInv
<1>2. ClaimFits(j)
  BY <1>1 DEF BeginsWith, ClaimFits, Accountable
<1> QED BY <1>1, <1>2, ClaimQuiet DEF ClaimsGoOn

LEMMA ReadTicketsClaims ==
    ASSUME CodesInv, NEW w \in Cleaners, ReadTickets(w), ClaimFits(sweep[w])
    PROVE ClaimsGoOn(w)
<1>1. PICK i \in Sweeps, j \in Sweeps, first \in SUBSET Codes :
        i = sweep[w] /\ sweep' = [sweep EXCEPT ![w] = j] /\ UNCHANGED Tables /\ Reads(i, j, first)
  BY ReadTicketsMoves
<1>2. ASSUME NEW t \in i.todo PROVE \E u \in j.todo : u.code = t.code
  <2>1. CASE t.code \in first
    <3>1. i.todo \in SUBSET Found /\ \A v, u \in i.todo : v.code = u.code => v = u
      BY <1>1 DEF CodesInv, SweepFits, Sweeps, Reads
    <3>2. Merged(t.code, i.todo).code = t.code
      BY <2>1, <3>1, MergedIs DEF CodesInv
    <3> QED BY <1>1, <2>1, <3>2 DEF Reads
  <2>2. CASE t.code \notin first
    BY <1>1, <2>2 DEF Reads
  <2> QED BY <2>1, <2>2
<1>3. /\ ~i.seals /\ i.at = "tickets" /\ j.at = "candidates" /\ j.now = i.now /\ j.failed = i.failed
      /\ (i.left => j.left) /\ j.claims = i.claims /\ j.blind = i.blind
  BY <1>1 DEF Reads, Keeps, CodesInv, SweepFits
<1>4. ClaimFits(j)
  BY <1>1, <1>2, <1>3 DEF ClaimFits, StillToDo, Collecting, Accountable
<1> QED BY <1>1, <1>4, ClaimQuiet DEF ClaimsGoOn

LEMMA CandidatesClaims ==
    ASSUME CodesInv, NEW w \in Cleaners, Candidates(w), ClaimFits(sweep[w])
    PROVE ClaimsGoOn(w)
<1>1. PICK i \in Sweeps, j \in Sweeps, known \in SUBSET Codes :
        i = sweep[w] /\ sweep' = [sweep EXCEPT ![w] = j] /\ UNCHANGED Tables /\ Adds(i, j, known)
  BY CandidatesMoves
<1>2. ASSUME NEW c \in i.claims, EndedBy(i.now, c) PROVE \E t \in j.todo : t.code = c
  <2>1. c \in Listed /\ c \in Codes /\ i.now \in Nat
    BY <1>1 DEF CodesInv, SweepFits, Listed, Sweeps
  <2>2. CASE c \in known
    <3>1. key[c].expires \in Nat /\ disabled[Owner[c]] \in Nat /\ Due(c) \in Nat
          /\ Due(c) <= key[c].expires /\ Due(c) <= disabled[Owner[c]]
      BY <2>1, CleanupAssumption, DueIs DEF CodesInv, CodesTyped
    <3>2. Due(c) <= i.now
      BY <1>2, <2>1, <3>1 DEF EndedBy
    <3>3. Candidate(c, Due(c), FALSE) \in j.todo
      BY <1>1, <2>2, <3>2 DEF Adds
    <3> QED BY <3>3 DEF Candidate
  <2>3. CASE c \notin known
    BY <1>1, <2>1, <2>3 DEF Adds
  <2> QED BY <2>2, <2>3
<1>3. /\ i.at = "candidates" /\ j.at = "next" /\ j.now = i.now /\ j.failed = i.failed /\ j.seals = i.seals
      /\ (i.left => j.left) /\ j.claims = i.claims /\ j.blind = i.blind /\ i.todo \subseteq j.todo
  BY <1>1 DEF Adds, Keeps
<1>4. ClaimFits(j)
  <2>1. SUFFICES ASSUME ~j.failed, ~j.seals, ~j.left, NEW c \in Accountable(j, j.claims, 0)
                 PROVE RowGone(c) \/ StillToDo(j, c)
    BY DEF ClaimFits
  <2>2. RowGone(c) \/ StillToDo(i, c)
    BY <1>1, <1>3, <2>1 DEF ClaimFits, Accountable
  <2> QED BY <1>2, <1>3, <2>1, <2>2 DEF StillToDo, Accountable
<1> QED BY <1>1, <1>4, ClaimQuiet DEF ClaimsGoOn

LEMMA TakeClaims ==
    ASSUME CodesInv, NEW w \in Cleaners, Take(w), ClaimFits(sweep[w])
    PROVE ClaimsGoOn(w)
<1>1. PICK i \in Sweeps, j \in Sweeps :
        /\ i = sweep[w] /\ i.at = "next"
        /\ sweep' = [sweep EXCEPT ![w] = j] /\ UNCHANGED Tables
        /\ Keeps(i, j) /\ j.blind = i.blind
        /\ \/ Reports(i, j)
           \/ \E t \in i.todo : (\A u \in i.todo : t.due <= u.due) /\ (Drops(i, j, t) \/ Leaves(i, j) \/ Turns(i, j, t))
  BY TakeMoves DEF CodesInv
<1>2. ClaimFits(j)
  <2>1. SUFFICES ASSUME ~j.failed, ~j.seals, ~j.left, NEW c \in Accountable(j, j.claims, 0), ~RowGone(c)
                 PROVE StillToDo(j, c)
    BY DEF ClaimFits
  <2>2. StillToDo(i, c)
    BY <1>1, <2>1, AccountableKept DEF ClaimFits, Keeps
  <2>3. PICK s \in i.todo : s.code = c
    BY <1>1, <2>2 DEF StillToDo, Collecting
  <2>4. OverBy(j.now, c) /\ c \in Codes
    BY <1>1, <2>1, <2>2 DEF StillToDo, Keeps, Sweeps, Accountable
  <2>5. codeTicket[c].state # "complete"
    BY <2>1, <2>4 DEF CodesInv, CodeFits
  <2>6. ~Reports(i, j) /\ ~Leaves(i, j)
    BY <2>1, <2>3 DEF Reports, Leaves
  <2>7. PICK t \in i.todo : Drops(i, j, t) \/ Turns(i, j, t)
    BY <1>1, <2>6
  <2>8. CASE s = t
    <3>1. Turns(i, j, t)
      BY <2>3, <2>5, <2>7, <2>8 DEF Drops
    <3>2. codeTicket[c].state \in {"none", "pending"}
      BY <2>4, <2>5 DEF CodesInv, CodesTyped
    <3>3. j.code = c /\ j.at \in {"inspect", "remove"}
      BY <2>3, <2>8, <3>1, <3>2 DEF Turns, Turn
    <3> QED BY <2>4, <3>3 DEF StillToDo
  <2>9. CASE s # t
    <3>1. s \in j.todo
      BY <2>7, <2>9 DEF Drops, Turns
    <3> QED BY <2>3, <2>4, <3>1 DEF StillToDo
  <2> QED BY <2>8, <2>9
<1> QED BY <1>1, <1>2, ClaimQuiet DEF ClaimsGoOn

LEMMA InspectClaims ==
    ASSUME CodesInv, NEW w \in Cleaners, Inspect(w), ClaimFits(sweep[w])
    PROVE ClaimsGoOn(w)
<1>1. PICK i \in Sweeps, j \in Sweeps, c \in Codes, due \in Nat :
      \E a \in ActorReadings(Owner[c]), b \in CodeReadings(c) :
        /\ i = sweep[w] /\ Inspects(i, j, c, due, a, b)
        /\ sweep' = [sweep EXCEPT ![w] = j] /\ UNCHANGED Tables
  BY InspectMoves
<1>2. PICK a \in ActorReadings(Owner[c]), b \in CodeReadings(c) : Inspects(i, j, c, due, a, b)
  BY <1>1
<1>3. ClaimFits(j)
  <2>1. SUFFICES ASSUME ~j.failed, ~j.seals, ~j.left, NEW d \in Accountable(j, j.claims, 0), ~RowGone(d)
                 PROVE StillToDo(j, d)
    BY DEF ClaimFits
  <2>2. StillToDo(i, d) /\ d \in Codes /\ d \in Accountable(i, i.claims, 0)
    BY <1>1, <1>2, <2>1, AccountableKept DEF ClaimFits, Keeps, Inspects, Sweeps, Accountable
  <2>3. CASE d = c
    <3>0. (a = "valid" /\ b = "valid") \/ i.now >= key[c].expires
      <4>1. CASE c \in j.blind
        <5>1. j.now >= key[c].expires + 0 /\ key[c].expires \in Nat /\ j.now = i.now
          BY <1>2, <2>1, <2>3, <4>1 DEF Accountable, CodesInv, CodesTyped, Inspects, Keeps
        <5> QED BY <5>1
      <4>2. CASE c \notin j.blind
        <5>1. Worse(a, b) # "mismatch" /\ Worse(a, b) # "unverifiable"
          BY <1>2, <2>1, <4>2 DEF Inspects
        <5> QED BY <5>1, ReadingsAre
      <4> QED BY <4>1, <4>2
    <3>2. /\ key[c].expires \in Nat /\ row[c].ended \in Nat /\ disabled[Owner[c]] \in Nat /\ now \in Nat
          /\ i.now \in Nat /\ i.now <= now
      BY <1>1, CountedIs, CleanupAssumption DEF CodesInv, CodesTyped, Sweeps, SweepFits
    <3>3. /\ due <= key[c].expires
          /\ b = "valid" => due <= row[c].ended
          /\ a = "valid" => due <= disabled[Owner[c]]
      <4>1. /\ Counted(b, row[c].ended) \in Nat /\ Counted(a, disabled[Owner[c]]) \in Nat
        BY CountedIs DEF CodesInv
      <4>2. due = Window(key[c].expires, Counted(b, row[c].ended), Counted(a, disabled[Owner[c]]))
        BY <1>2 DEF Inspects
      <4>3. /\ due <= key[c].expires /\ due <= Counted(b, row[c].ended) /\ due <= Counted(a, disabled[Owner[c]])
        BY <3>2, <4>1, <4>2, WindowIs
      <4> QED BY <4>3 DEF Counted
    <3>5. OverBy(i.now, c)
      BY <2>2, <2>3 DEF StillToDo
    <3>6. due <= i.now
      BY <3>0, <3>2, <3>3, <3>5 DEF OverBy, EndedBy
    <3>7. IsDue(due)
      BY <3>2, <3>6 DEF IsDue
    <3>8. j.at = "prepare" /\ j.code = c /\ j.now = i.now
      BY <1>2, <3>7 DEF Inspects, Keeps
    <3> QED BY <2>3, <3>5, <3>8 DEF StillToDo
  <2>4. CASE d # c
    <3>1. i.at = "inspect" /\ i.code = c /\ j.todo = i.todo /\ j.now = i.now
      BY <1>2 DEF Inspects, Keeps
    <3> QED BY <2>2, <2>4, <3>1 DEF StillToDo, Collecting
  <2> QED BY <2>3, <2>4
<1> QED BY <1>1, <1>3, ClaimQuiet DEF ClaimsGoOn

LEMMA FailedClaims ==
    ASSUME NEW i \in Sweeps
    PROVE ClaimFits(Failed(i))'
BY FailedMoves DEF ClaimFits

LEMMA QuietClaims ==
    ASSUME CodesInv, NEW w \in Cleaners, ClaimFits(sweep[w]),
           Skip(w) \/ CloseRefused(w) \/ CheckRowGone(w) \/ ReportRun(w) \/ Fault(w) \/ CleanupCrash(w)
    PROVE ClaimsGoOn(w)
<1>1. CASE Skip(w)
  <2>1. PICK j \in Sweeps : sweep' = [sweep EXCEPT ![w] = j] /\ j.left
    BY <1>1, SkipMoves DEF CodesInv
  <2>2. ClaimFits(j)'
    BY <2>1 DEF ClaimFits
  <2> QED BY <2>1, <2>2 DEF ClaimsGoOn
<1>2. CASE CloseRefused(w) \/ CheckRowGone(w) \/ ReportRun(w) \/ Fault(w) \/ CleanupCrash(w)
  <2>1. PICK i \in Sweeps, j \in Sweeps :
          i = sweep[w] /\ sweep' = [sweep EXCEPT ![w] = j] /\ UNCHANGED Tables /\ QuietEnd(w, i, j)
    BY <1>2, QuietEndMoves
  <2>2. CASE j = Resting
    BY <2>1, <2>2, RestingIs DEF ClaimsGoOn, ClaimFits, Accountable
  <2>3. CASE j = Failed(i)
    BY <2>1, <2>3, FailedClaims DEF ClaimsGoOn
  <2>4. CASE i.at = "absent" /\ j = [i EXCEPT !.at = "complete"]
    <3>1. Keeps(i, j) /\ i.todo \subseteq j.todo
      BY <2>4, AtMoves DEF Keeps, Stages
    <3>2. ClaimFits(j)
      BY <2>1, <2>4, <3>1, ClaimOn DEF Collecting
    <3> QED BY <2>1, <3>2, ClaimQuiet DEF ClaimsGoOn
  <2> QED BY <2>1, <2>2, <2>3, <2>4 DEF QuietEnd
<1> QED BY <1>1, <1>2

LEMMA RegisterTicketClaims ==
    ASSUME CodesInv, Lasts, RowsMove, NEW w \in Cleaners, RegisterTicket(w), ClaimFits(sweep[w])
    PROVE ClaimsGoOn(w)
<1>1. PICK i \in Sweeps : i = sweep[w] /\ i.at = "prepare" /\ ClaimFits(i) /\ SweepFits(i)
  BY DEF CodesInv, CodesTyped, RegisterTicket
<1>2. Goes(w, Failed(i)) \/ Goes(w, [i EXCEPT !.at = "remove"])
  BY <1>1 DEF RegisterTicket, GoesOn
<1>3. CASE Goes(w, Failed(i))
  BY <1>3, FailedClaims, FailedMoves DEF ClaimsGoOn, Goes
<1>4. CASE Goes(w, [i EXCEPT !.at = "remove"])
  <2>1. PICK j \in Sweeps : j = [i EXCEPT !.at = "remove"]
    BY AtMoves DEF Stages
  <2>2. /\ j.at = "remove" /\ j.code = i.code /\ j.now = i.now /\ j.todo = i.todo /\ j.claims = i.claims
        /\ j.blind = i.blind /\ j.failed = i.failed /\ j.left = i.left /\ j.seals = i.seals
    BY <2>1, AtMoves DEF Stages
  <2>3. ClaimFits(j)
    BY <1>1, <2>2 DEF ClaimFits, StillToDo, Collecting, Accountable
  <2>4. ClaimFits(j)'
    BY <1>1, <2>2, <2>3, ClaimLasts DEF SweepFits
  <2> QED BY <1>4, <2>1, <2>4 DEF ClaimsGoOn, Goes
<1> QED BY <1>2, <1>3, <1>4

LEMMA RemoveRowClaims ==
    ASSUME CodesInv, Lasts, RowsMove, NEW w \in Cleaners, RemoveRow(w), ClaimFits(sweep[w])
    PROVE ClaimsGoOn(w)
<1>1. PICK i \in Sweeps : i = sweep[w] /\ i.at = "remove" /\ ClaimFits(i) /\ SweepFits(i)
  BY DEF CodesInv, CodesTyped, RemoveRow
<1>2. PICK c \in Codes : c = i.code /\ codeTicket[c].state # "none" /\ codeTicket[c].due = i.due
  BY <1>1 DEF SweepFits, Working, Registered, Listed
<1>3. IsDue(i.due)
  BY <1>2 DEF CodesInv, CodeFits, NotAfterEnd, IsDue
<1>4. /\ row' = [row EXCEPT ![c] = NoRow] /\ codeTicket' = codeTicket
      /\ Goes(w, [i EXCEPT !.at = "close"]) \/ Goes(w, Failed(i))
  BY <1>1, <1>2, <1>3 DEF RemoveRow, GoesOn
<1>5. CASE Goes(w, Failed(i))
  BY <1>5, FailedClaims, FailedMoves DEF ClaimsGoOn, Goes
<1>6. CASE Goes(w, [i EXCEPT !.at = "close"])
  <2>1. PICK j \in Sweeps : j = [i EXCEPT !.at = "close"]
    BY AtMoves DEF Stages
  <2>2. /\ j.at = "close" /\ j.code = i.code /\ j.now = i.now /\ j.todo = i.todo /\ j.claims = i.claims
        /\ j.blind = i.blind /\ j.failed = i.failed /\ j.left = i.left /\ j.seals = i.seals
    BY <2>1, AtMoves DEF Stages
  <2>3. RowGone(c)'
    BY <1>2, <1>4 DEF RowGone, CodesInv, CodesTyped, NoRow
  <2>4. ClaimFits(j)'
    <3>1. SUFFICES ASSUME ~j.failed, ~j.seals, ~j.left, NEW d \in Accountable(j, j.claims, 0), d # c
                   PROVE RowGone(d)' \/ StillToDo(j, d)'
      <4>1. j.claims \subseteq Listed
        BY <1>1, <2>2 DEF SweepFits
      <4> QED BY <2>3, <4>1, AccountableStays DEF ClaimFits
    <3>2. d \in Listed /\ d \in Codes /\ j.now <= now
      BY <1>1, <2>2, <3>1 DEF SweepFits, Listed, Accountable
    <3>3. RowGone(d) \/ StillToDo(j, d)
      BY <1>1, <1>2, <2>2, <3>1 DEF ClaimFits, StillToDo, Collecting, Accountable
    <3> QED BY <3>2, <3>3, StillLasts DEF Lasts
  <2> QED BY <1>6, <2>1, <2>4 DEF ClaimsGoOn, Goes
<1> QED BY <1>4, <1>5, <1>6

LEMMA LoudClaims ==
    ASSUME CodesInv, Lasts, RowsMove, NEW w \in Cleaners, ClaimFits(sweep[w]),
           Close(w) \/ CompleteTicket(w) \/ Recheck(w)
    PROVE ClaimsGoOn(w)
<1>1. PICK i \in Sweeps : i = sweep[w] /\ i.at \in {"close", "complete", "recheck"} /\ ClaimFits(i) /\ SweepFits(i)
  BY DEF CodesInv, CodesTyped, Close, CompleteTicket, Recheck
<1>2. Goes(w, Failed(i)) \/ Goes(w, [i EXCEPT !.at = "absent"]) \/ Goes(w, Done(i))
  BY <1>1 DEF Close, CompleteTicket, Recheck, GoesOn
<1>3. CASE Goes(w, Failed(i))
  BY <1>3, FailedClaims, FailedMoves DEF ClaimsGoOn, Goes
<1>4. ASSUME NEW j \in Sweeps, Goes(w, j), Keeps(i, j), j.todo = i.todo PROVE ClaimsGoOn(w)
  <2>1. ClaimFits(j)
    BY <1>1, <1>4, ClaimOn DEF Collecting
  <2>2. ClaimFits(j)'
    BY <1>1, <1>4, <2>1, ClaimLasts DEF SweepFits, Keeps
  <2> QED BY <1>4, <2>2 DEF ClaimsGoOn, Goes
<1>5. CASE Goes(w, [i EXCEPT !.at = "absent"])
  <2>1. PICK j \in Sweeps : j = [i EXCEPT !.at = "absent"]
    BY AtMoves DEF Stages
  <2>2. Keeps(i, j) /\ j.todo = i.todo
    BY <2>1, AtMoves DEF Stages, Keeps
  <2> QED BY <1>4, <1>5, <2>1, <2>2
<1>6. CASE Goes(w, Done(i))
  <2>1. PICK j \in Sweeps : j = Done(i) /\ Keeps(i, j) /\ j.todo = i.todo
    BY DoneMoves DEF Keeps
  <2> QED BY <1>4, <1>6, <2>1
<1> QED BY <1>2, <1>3, <1>5, <1>6

\* A step is one run's, or nobody's.
WorkOf(w) == Run(w) \/ Work(w) \/ Skip(w) \/ Fault(w) \/ CleanupCrash(w) \/ \E c \in Codes : CleanOne(w, c)
LEMMA WhoseStep ==
    ASSUME CodesNext
    PROVE UNCHANGED sweep \/ \E w \in Cleaners : WorkOf(w)
BY DEF CodesNext, WorkOf, Allocate, End, Damage, RowReturns, UserStep, UserCommits, UserCommitted, UserAborts,
       DisableRecipient, Tick, Users

LEMMA ClaimsOfWork ==
    ASSUME CodesInv, Lasts, RowsMove, NEW w \in Cleaners, WorkOf(w), ClaimFits(sweep[w])
    PROVE ClaimsGoOn(w)
BY RunClaims, CleanOneClaims, ReadTicketsClaims, CandidatesClaims, TakeClaims, InspectClaims, QuietClaims,
   RegisterTicketClaims, RemoveRowClaims, LoudClaims DEF WorkOf, Work

ClaimsInv == CodesInv /\ \A w \in Cleaners : ClaimFits(sweep[w])
LEMMA ClaimsStep ==
    ASSUME ClaimsInv, CodesNext
    PROVE ClaimsInv'
<1>1. CodesInv' /\ Lasts /\ RowsMove
  BY CodesStep, RowsAndKeysMove DEF ClaimsInv
<1>2. ASSUME NEW v \in Cleaners, sweep'[v] = sweep[v] PROVE ClaimFits(sweep[v])'
  <2>1. PICK i \in Sweeps : i = sweep[v] /\ ClaimFits(i) /\ SweepFits(i)
    BY DEF ClaimsInv, CodesInv, CodesTyped
  <2>2. ClaimFits(i)'
    BY <1>1, <2>1, ClaimLasts DEF ClaimsInv, SweepFits
  <2> QED BY <1>2, <2>1, <2>2
<1>3. CASE UNCHANGED sweep
  BY <1>1, <1>2, <1>3 DEF ClaimsInv
<1>4. ASSUME NEW w \in Cleaners, WorkOf(w) PROVE ClaimsInv'
  <2>1. PICK j \in Sweeps : sweep' = [sweep EXCEPT ![w] = j] /\ ClaimFits(j)'
    BY <1>1, <1>4, ClaimsOfWork DEF ClaimsInv, ClaimsGoOn
  <2>2. sweep'[w] = j /\ \A v \in Cleaners \ {w} : sweep'[v] = sweep[v]
    BY <2>1 DEF ClaimsInv, CodesInv, CodesTyped
  <2>3. ClaimFits(sweep[w])'
    BY <2>1, <2>2
  <2> QED BY <1>1, <1>2, <2>2, <2>3 DEF ClaimsInv
<1> QED BY <1>3, <1>4, WhoseStep

LEMMA ClaimsStutter ==
    ASSUME ClaimsInv, UNCHANGED cleanupVars
    PROVE ClaimsInv'
<1>1. CodesInv' /\ UNCHANGED Tables /\ UNCHANGED sweep
  BY CodesStutter DEF ClaimsInv, cleanupVars, Tables
<1>2. ASSUME NEW w \in Cleaners PROVE ClaimFits(sweep[w])'
  <2>1. PICK i \in Sweeps : i = sweep[w] /\ ClaimFits(i)
    BY DEF ClaimsInv, CodesInv, CodesTyped
  <2> QED BY <1>1, <2>1, ClaimQuiet
<1> QED BY <1>1, <1>2 DEF ClaimsInv

\* A run that could still answer "complete" has, of every code that was over when it began, the ticket
\* registered and the row gone, or has it still to do (run, the loop over the selected codes).
THEOREM ClaimsInvariant == CodesSpec => []ClaimsInv
<1>1. CodesInit => ClaimsInv
  BY CodesInit_Holds, RestingIs DEF ClaimsInv, ClaimFits, CodesInit, Accountable
<1>2. ClaimsInv /\ [CodesNext]_cleanupVars => ClaimsInv'
  BY ClaimsStep, ClaimsStutter
<1> QED BY <1>1, <1>2, PTL DEF CodesSpec

-----------------------------------------------------------------------------
(* What a run that would not tell of a late code has seen of it            *)

LateAt(n, t) == t + Day <= n
EndedLate(n, c) == LateAt(n, key[c].expires) \/ LateAt(n, disabled[Owner[c]])
HasLate(j) == \E t \in j.todo : LateAt(j.now, t.due)
\* No row of a code whose actor was disabled comes from anywhere but a backup.
RowsLateStay(j) == \A c \in j.late : LateAt(j.now, disabled[Owner[c]]) /\ row[c].there => returns > 0
LateIsKnown(j) ==
    \A c \in Codes : key[c].state = "live" /\ codeTicket[c].state = "none" /\ EndedLate(j.now, c) => c \in j.late
AllEnded(j) == \A c \in j.late : EndedLate(j.now, c)
TodoCounts(j) == \A t \in j.todo : t.due <= disabled[Owner[t.code]]

(* What a run knows of the late codes when it has collected them.          *)
EndsFit(j) ==
    /\ j.at = "tickets" => LateIsKnown(j) /\ TodoCounts(j) /\ (HasLate(j) \/ (RowsLateStay(j) /\ AllEnded(j)))
    /\ j.at = "candidates" =>
         ~HasLate(j) /\ LateIsKnown(j) /\ RowsLateStay(j) /\ (TicketsCountActors => TodoCounts(j))
    /\ j.at # "tickets" => AllEnded(j)
Ends(j) == ~j.failed /\ ~j.seals => EndsFit(j)

(* What it has done about them, if it skipped none.                        *)
LateStill(j, c) ==
    \/ \E t \in j.todo : t.code = c
    \/ j.at = "inspect" /\ j.code = c /\ LateAt(j.now, disabled[Owner[c]])
    \/ j.at \in {"remove", "close"} /\ j.code = c
DoesFit(j) == \A c \in Accountable(j, j.late, Day) : key[c].state = "destroyed" \/ LateStill(j, c)
Does(j) == ~j.failed /\ ~j.seals /\ ~j.left /\ j.at \notin Collecting => DoesFit(j)

(* What it has done about them, if everything could be verified.           *)
LateTodo(j) ==
    \A t \in j.todo :
      LateAt(j.now, t.due) =>
         ~t.row /\ EndedLate(j.now, t.code) /\ (t.code \in j.late \/ codeTicket[t.code].state # "none")
AllFound(j) ==
    \A c \in j.late : key[c].state = "destroyed" \/ \E t \in j.todo : t.code = c /\ LateAt(j.now, t.due)
Settled(j) == ~HasLate(j) /\ \A c \in j.late : key[c].state = "destroyed"
Settling == {"prepare", "remove", "close", "absent", "complete", "recheck", "report"}
TellsFit(j) ==
    /\ j.at = "next" =>
         RowsLateStay(j) /\ LateTodo(j) /\ (j.attempts = 0 \/ ~HasLate(j)) /\ AllFound(j)
    /\ j.at = "inspect" =>
         Settled(j) \/ (j.code \in j.late /\ RowsLateStay(j) /\ LateAt(j.now, disabled[Owner[j.code]]))
    /\ j.at \in Settling => Settled(j)
Verified(j) == j.blind = {} /\ TicketsCountActors /\ ~(j.left /\ returns > 0)
Tells(j) == ~j.failed /\ ~j.seals /\ Verified(j) => TellsFit(j)

LateFits(j) == Ends(j) /\ Does(j) /\ Tells(j)

LEMMA DisabledLate ==
    ASSUME CodesInv, Lasts, NEW c \in Codes, NEW n \in Nat, n <= now
    PROVE LateAt(n, disabled'[Owner[c]]) <=> LateAt(n, disabled[Owner[c]])
<1>1. now \in Nat /\ now <= MaxTime /\ Owner[c] \in Recipients /\ disabled[Owner[c]] \in Nat
  BY CleanupAssumption DEF CodesInv, CodesTyped
<1> QED BY <1>1, NeverIsLast, CleanupAssumption DEF LateAt, Lasts

LEMMA EndedLateLasts ==
    ASSUME CodesInv, Lasts, NEW c \in Listed, NEW n \in Nat, n <= now, EndedLate(n, c)
    PROVE EndedLate(n, c)'
<1>1. c \in Codes
  BY DEF Listed
<1> QED BY <1>1, DisabledLate DEF EndedLate, LateAt, Lasts

LEMMA CountsLast ==
    ASSUME CodesInv, Lasts
    PROVE /\ TicketsCountActors' => TicketsCountActors
          /\ \A t \in Found : t.code \in Codes /\ t.due <= now /\ t.due <= disabled[Owner[t.code]]
                              => t.due <= disabled'[Owner[t.code]]
<1>1. now \in Nat /\ now <= MaxTime
  BY CleanupAssumption DEF CodesInv, CodesTyped
<1>2. ASSUME NEW c \in Codes, codeTicket[c].state # "none", codeTicket'[c].due <= disabled'[Owner[c]]
      PROVE codeTicket[c].due <= disabled[Owner[c]]
  <2>1. /\ codeTicket'[c].due = codeTicket[c].due /\ codeTicket[c].due <= now /\ codeTicket[c].due \in Nat
        /\ Owner[c] \in Recipients
    BY <1>2, CleanupAssumption DEF Lasts, CodesInv, CodesTyped, CodeFits, NotAfterEnd
  <2>2. disabled'[Owner[c]] = disabled[Owner[c]] \/ disabled[Owner[c]] = Never
    BY <2>1 DEF Lasts
  <2>3. CASE disabled'[Owner[c]] = disabled[Owner[c]]
    BY <1>2, <2>1, <2>3
  <2>4. CASE disabled[Owner[c]] = Never
    <3>1. MaxTime \in Nat /\ Never \in Nat /\ Never > MaxTime
      BY NeverIsLast, CleanupAssumption
    <3>2. codeTicket[c].due <= Never
      BY <1>1, <2>1, <3>1
    <3> QED BY <2>4, <3>2
  <2> QED BY <2>2, <2>3, <2>4
<1>3. TicketsCountActors' => TicketsCountActors
  BY <1>2 DEF TicketsCountActors, Lasts
<1>4. ASSUME NEW t \in Found, t.code \in Codes, t.due <= now, t.due <= disabled[Owner[t.code]]
      PROVE t.due <= disabled'[Owner[t.code]]
  <2>1. Owner[t.code] \in Recipients
    BY <1>4, CleanupAssumption
  <2> QED BY <1>4, <2>1 DEF Lasts
<1> QED BY <1>3, <1>4

\* What a run has collected, and what it has begun with.
Collected(j) ==
    /\ j.now <= now /\ j.late \subseteq Listed
    /\ \A t \in j.todo : t.code \in Listed /\ t.due <= now
LEMMA IsCollected ==
    ASSUME NEW j \in Sweeps, SweepFits(j)
    PROVE Collected(j)
BY DEF SweepFits, Collected, NotAfterEnd

LEMMA LateLasts ==
    ASSUME CodesInv, CodesInv', Lasts, RowsMove, NEW j \in Sweeps, Collected(j)
    PROVE (Ends(j) => Ends(j)') /\ (Does(j) => Does(j)') /\ (Tells(j) => Tells(j)')
<1>2. returns \in Nat /\ returns' \in Nat /\ returns <= returns' /\ now \in Nat /\ j.now \in Nat /\ now <= MaxTime
      /\ j.now <= now /\ j.late \subseteq Listed /\ j.todo \subseteq Found
  BY CleanupAssumption DEF CodesInv, CodesTyped, Lasts, Sweeps, Collected
<1>4. HasLate(j)' <=> HasLate(j)
  BY DEF HasLate, LateAt
<1>5. AllEnded(j) => AllEnded(j)'
  BY <1>2, EndedLateLasts DEF AllEnded
<1>6. RowsLateStay(j) => RowsLateStay(j)'
  <2>1. SUFFICES ASSUME RowsLateStay(j), NEW c \in j.late, LateAt(j.now, disabled'[Owner[c]]), row'[c].there
                 PROVE returns' > 0
    BY DEF RowsLateStay, LateAt
  <2>2. c \in Codes /\ LateAt(j.now, disabled[Owner[c]])
    BY <1>2, <2>1, DisabledLate DEF Listed
  <2>3. disabled[Owner[c]] # Never
    BY <1>2, <2>2, NeverIsLast, CleanupAssumption DEF LateAt
  <2>4. row[c].there \/ returns' > 0
    BY <2>1, <2>2, <2>3 DEF RowsMove
  <2> QED BY <1>2, <2>1, <2>2, <2>4 DEF RowsLateStay
<1>7. LateIsKnown(j) => LateIsKnown(j)'
  <2>1. SUFFICES ASSUME LateIsKnown(j), NEW c \in Codes, key'[c].state = "live", codeTicket'[c].state = "none",
                        LateAt(j.now, key'[c].expires) \/ LateAt(j.now, disabled'[Owner[c]])
                 PROVE c \in j.late
    BY DEF LateIsKnown, EndedLate, LateAt
  <2>2. codeTicket[c].state = "none"
    BY <2>1 DEF Lasts
  <2>3. key'[c].expires \in Nat
    BY DEF CodesInv, CodesTyped
  <2>4. key[c].state = "live"
    <3>1. SUFFICES ASSUME key[c].state # "live" PROVE FALSE
      OBVIOUS
    <3>2. disabled'[Owner[c]] = Never /\ key'[c].expires >= now
      BY <2>1, <3>1 DEF RowsMove
    <3> QED BY <1>2, <2>1, <2>3, <3>2, NeverIsLast, CleanupAssumption DEF LateAt
  <2>5. EndedLate(j.now, c)
    BY <1>2, <2>1, <2>4, DisabledLate DEF EndedLate, Lasts, Listed
  <2> QED BY <2>1, <2>2, <2>4, <2>5 DEF LateIsKnown
<1>8. LateTodo(j) => LateTodo(j)'
  <2>1. SUFFICES ASSUME LateTodo(j), NEW t \in j.todo, LateAt(j.now, t.due)
                 PROVE ~t.row /\ EndedLate(j.now, t.code)' /\ (t.code \in j.late \/ codeTicket'[t.code].state # "none")
    BY DEF LateTodo, LateAt
  <2>2. t.code \in Listed /\ t.code \in Codes
    BY DEF Listed, Collected
  <2>3. ~t.row /\ EndedLate(j.now, t.code) /\ (t.code \in j.late \/ codeTicket[t.code].state # "none")
    BY <2>1 DEF LateTodo
  <2> QED BY <1>2, <2>2, <2>3, EndedLateLasts DEF Lasts
<1>9. \A c \in j.late : key[c].state = "destroyed" => key'[c].state = "destroyed"
  BY <1>2 DEF Lasts, Listed
<1>10. (AllFound(j) => AllFound(j)') /\ (Settled(j) => Settled(j)')
  BY <1>4, <1>9 DEF AllFound, Settled, LateAt
<1>11. j.at = "inspect" /\ j.code \in j.late /\ LateAt(j.now, disabled[Owner[j.code]])
       => LateAt(j.now, disabled'[Owner[j.code]])
  BY <1>2, DisabledLate DEF Listed
<1>12. LateAt(j.now, disabled'[Owner[j.code]]) => LateAt(j.now, disabled[Owner[j.code]])'
  BY DEF LateAt
<1>13. (TicketsCountActors' => TicketsCountActors) /\ (TodoCounts(j) => TodoCounts(j)')
  BY <1>2, CountsLast DEF TodoCounts, Collected, Listed
<1>14. Verified(j)' => Verified(j)
  BY <1>2, <1>13 DEF Verified
<1>15. Ends(j) => Ends(j)'
  BY <1>4, <1>5, <1>6, <1>7, <1>13 DEF Ends, EndsFit
<1>16. Tells(j) => Tells(j)'
  BY <1>4, <1>6, <1>8, <1>10, <1>11, <1>12, <1>14 DEF Tells, TellsFit
<1>17. Does(j) => Does(j)'
  <2>1. SUFFICES ASSUME DoesFit(j), NEW c \in Accountable(j, j.late, Day) PROVE key'[c].state = "destroyed" \/ LateStill(j, c)'
    BY <1>2, AccountableStays DEF Does, DoesFit
  <2>2. c \in j.late /\ c \in Codes
    BY <1>2, <2>1 DEF Accountable, Listed
  <2>3. LateStill(j, c) => LateStill(j, c)'
    BY <1>2, <2>2, DisabledLate DEF LateStill, LateAt
  <2> QED BY <1>9, <2>1, <2>2, <2>3 DEF DoesFit
<1> QED BY <1>15, <1>16, <1>17

LEMMA LateQuiet ==
    ASSUME UNCHANGED Tables, NEW j, LateFits(j)
    PROVE LateFits(j)'
<1>1. HasLate(j)' = HasLate(j) /\ RowsLateStay(j)' = RowsLateStay(j) /\ LateIsKnown(j)' = LateIsKnown(j)
      /\ AllEnded(j)' = AllEnded(j) /\ TodoCounts(j)' = TodoCounts(j) /\ TicketsCountActors' = TicketsCountActors
  BY DEF Tables, HasLate, RowsLateStay, LateIsKnown, AllEnded, TodoCounts, TicketsCountActors, EndedLate, LateAt
<1>2. LateTodo(j)' = LateTodo(j) /\ AllFound(j)' = AllFound(j) /\ Settled(j)' = Settled(j) /\ Verified(j)' = Verified(j)
  BY <1>1 DEF Tables, LateTodo, AllFound, Settled, Verified, EndedLate, LateAt
<1>3. Ends(j)'
  BY <1>1 DEF LateFits, Ends, EndsFit
<1>4. Does(j)'
  BY DEF Tables, LateFits, Does, DoesFit, LateStill, Accountable, LateAt
<1>5. Tells(j)'
  BY <1>1, <1>2 DEF Tables, LateFits, Tells, TellsFit, LateAt
<1> QED BY <1>3, <1>4, <1>5 DEF LateFits

LateGoesOn(w) == \E j \in Sweeps : sweep' = [sweep EXCEPT ![w] = j] /\ LateFits(j)'

\* A run that has nothing left that is late is ready for the next code, or to report.
LEMMA SettledFits ==
    ASSUME CodesInv, NEW j \in Sweeps, Settled(j), j.at \notin Collecting
    PROVE Tells(j)
<1>1. RowsLateStay(j)
  <2>1. SUFFICES ASSUME NEW c \in j.late, row[c].there PROVE returns > 0
    BY DEF RowsLateStay
  <2>2. c \in Codes /\ key[c].state = "destroyed"
    BY DEF Sweeps, Settled
  <2> QED BY <2>1, <2>2 DEF CodesInv, CodeFits, RowGone
<1>2. LateTodo(j) /\ AllFound(j) /\ ~HasLate(j)
  BY DEF Settled, LateTodo, AllFound, HasLate
<1> QED BY <1>1, <1>2 DEF Tells, TellsFit, Collecting

\* What a run knew of the ends of the late codes it still knows.
LEMMA EndsGoOn ==
    ASSUME NEW i, NEW j, Keeps(i, j), Ends(i), i.at # "tickets", j.at \notin Collecting
    PROVE Ends(j) /\ (~j.failed /\ ~j.seals => AllEnded(j))
BY DEF Ends, EndsFit, Keeps, AllEnded, Collecting

LEMMA VerifiedGoesOn ==
    ASSUME NEW i, NEW j, Keeps(i, j), Verified(j)
    PROVE Verified(i)
BY DEF Verified, Keeps

LEMMA RunLate ==
    ASSUME CodesInv, NEW w \in Cleaners, Run(w)
    PROVE LateGoesOn(w)
<1>1. PICK j \in Sweeps, hints \in SUBSET Codes :
        sweep' = [sweep EXCEPT ![w] = j] /\ UNCHANGED Tables /\ Begins(j, hints)
  BY RunMoves DEF CodesInv
<1>2. /\ j.at = "tickets" /\ j.now = now
      /\ j.late = {c \in Codes : key[c].state = "live" /\ now >= OverSince(c) + Day}
      /\ j.todo = {Candidate(c, OverSince(c), TRUE) : c \in hints}
      /\ \A c \in hints : Candidate(c, OverSince(c), TRUE) \in j.todo
      /\ hints \in FirstOf(Over, [c \in Codes |-> OverSince(c)])
  BY <1>1 DEF Begins
<1>3. now \in Nat /\ Day \in Nat \ {0} /\ \A c \in Codes : OverSince(c) \in Nat
  BY CleanupAssumption, OverSinceIs DEF CodesInv, CodesTyped
<1>4. LateIsKnown(j)
  <2>1. SUFFICES ASSUME NEW c \in Codes, key[c].state = "live", EndedLate(now, c) PROVE now >= OverSince(c) + Day
    BY <1>2 DEF LateIsKnown
  <2>2. key[c].expires \in Nat /\ disabled[Owner[c]] \in Nat
        /\ OverSince(c) <= key[c].expires /\ OverSince(c) <= disabled[Owner[c]]
    BY CleanupAssumption, OverSinceIs DEF CodesInv, CodesTyped
  <2> QED BY <1>3, <2>1, <2>2 DEF EndedLate, LateAt
<1>5. ASSUME NEW c \in hints, LateAt(now, OverSince(c)) PROVE HasLate(j)
  <2>1. Candidate(c, OverSince(c), TRUE) \in j.todo /\ Candidate(c, OverSince(c), TRUE).due = OverSince(c)
    BY <1>2 DEF Candidate
  <2> QED BY <1>2, <1>5, <2>1 DEF HasLate
<1>6. ASSUME NEW c \in j.late, row[c].there PROVE HasLate(j)
  <2>1. c \in Over /\ LateAt(now, OverSince(c))
    BY <1>2, <1>3, <1>6 DEF Over, LateAt
  <2>2. Over \subseteq Codes
    BY DEF Over
  <2>3. /\ hints # {} /\ hints \subseteq Codes
        /\ \A x \in hints, y \in Over \ hints :
             [d \in Codes |-> OverSince(d)][x] <= [d \in Codes |-> OverSince(d)][y]
    BY <1>2, <2>1, <2>2, FirstAreEarliest
  <2>4. CASE c \in hints
    BY <1>5, <2>1, <2>4
  <2>5. CASE c \notin hints
    <3>1. PICK x \in hints : OverSince(x) <= OverSince(c)
      BY <2>1, <2>2, <2>3, <2>5
    <3>2. LateAt(now, OverSince(x))
      BY <1>3, <2>1, <2>2, <2>3, <3>1 DEF LateAt
    <3> QED BY <1>5, <3>2
  <2> QED BY <2>4, <2>5
<1>7. ASSUME NEW c \in j.late, ~row[c].there PROVE EndedLate(now, c)
  <2>1. c \in Codes /\ now >= OverSince(c) + Day
    BY <1>2
  <2>2. OverSince(c) \in {key[c].expires, row[c].ended, disabled[Owner[c]]}
    BY <2>1, OverSinceIs DEF CodesInv
  <2>3. row[c].ended = Never
    BY <1>7, <2>1 DEF CodesInv, CodeFits
  <2>4. OverSince(c) # Never
    BY <1>3, <2>1, NeverIsLast, CleanupAssumption DEF CodesInv, CodesTyped
  <2> QED BY <2>1, <2>2, <2>3, <2>4 DEF EndedLate, LateAt
<1>8. HasLate(j) \/ (RowsLateStay(j) /\ AllEnded(j))
  BY <1>2, <1>6, <1>7 DEF RowsLateStay, AllEnded
<1>10. TodoCounts(j)
  <2>1. SUFFICES ASSUME NEW t \in j.todo PROVE t.due <= disabled[Owner[t.code]]
    BY DEF TodoCounts
  <2>2. PICK c \in hints : t = Candidate(c, OverSince(c), TRUE)
    BY <1>2
  <2>3. t.code = c /\ t.due = OverSince(c) /\ c \in Codes
    BY <2>2 DEF Candidate
  <2> QED BY <2>3, OverSinceIs DEF CodesInv
<1>9. LateFits(j)
  BY <1>2, <1>4, <1>8, <1>10 DEF LateFits, Ends, EndsFit, Does, Tells, TellsFit, Settling, Collecting
<1> QED BY <1>1, <1>9, LateQuiet DEF LateGoesOn

LEMMA CleanOneLate ==
    ASSUME CodesInv, NEW w \in Cleaners, NEW c \in Codes, CleanOne(w, c)
    PROVE LateGoesOn(w)
<1>1. PICK j \in Sweeps :
        sweep' = [sweep EXCEPT ![w] = j] /\ UNCHANGED Tables /\ c \in Listed /\ BeginsWith(j, c)
  BY CleanOneMoves DEF CodesInv
<1>2. /\ j.at = "next" /\ j.now = 0 /\ j.late = {} /\ \A t \in j.todo : t.due = 0
  BY <1>1 DEF BeginsWith, Candidate
<1>3. Settled(j)
  BY <1>2, CleanupAssumption DEF Settled, HasLate, LateAt
<1>4. LateFits(j)
  <2>1. Tells(j)
    BY <1>2, <1>3, SettledFits DEF Collecting
  <2>2. Ends(j) /\ Does(j)
    BY <1>2 DEF Ends, EndsFit, AllEnded, Does, DoesFit, Accountable
  <2> QED BY <2>1, <2>2 DEF LateFits
<1> QED BY <1>1, <1>4, LateQuiet DEF LateGoesOn

LEMMA ReadTicketsLate ==
    ASSUME CodesInv, NEW w \in Cleaners, ReadTickets(w), LateFits(sweep[w])
    PROVE LateGoesOn(w)
<1>1. PICK i \in Sweeps, j \in Sweeps, first \in SUBSET Codes :
        i = sweep[w] /\ sweep' = [sweep EXCEPT ![w] = j] /\ UNCHANGED Tables /\ Reads(i, j, first)
  BY ReadTicketsMoves
<1>2. /\ i.at = "tickets" /\ j.at = "candidates" /\ j.now = i.now /\ j.failed = i.failed
      /\ j.late = i.late /\ j.seals = \E t \in j.todo : IsOverdue(t.due)
  BY <1>1 DEF Reads, Keeps
<1>3. /\ ~i.seals /\ i.now <= now /\ i.now \in Nat /\ now \in Nat
      /\ \A v, u \in i.todo : v.code = u.code => v = u
  BY <1>1, <1>2, CleanupAssumption DEF CodesInv, CodesTyped, SweepFits, Sweeps
<1>4. i.todo \in SUBSET Found /\ j.todo \in SUBSET Found
  BY DEF Sweeps
<1>5. SUFFICES ASSUME ~j.failed, ~j.seals PROVE EndsFit(j)
  <2>1. Does(j) /\ Tells(j)
    BY <1>2 DEF Does, Tells, TellsFit, Collecting, Settling
  <2> QED BY <1>1, <2>1, LateQuiet DEF LateFits, LateGoesOn, Ends
<1>6. EndsFit(i) /\ ~(\E t \in j.todo : IsOverdue(t.due))
  BY <1>1, <1>2, <1>3, <1>5 DEF LateFits, Ends
<1>7. ~HasLate(j)
  <2>1. SUFFICES ASSUME NEW t \in j.todo, LateAt(j.now, t.due) PROVE IsOverdue(t.due)
    BY <1>6 DEF HasLate
  <2>2. t.due \in Nat
    BY <1>4 DEF Found
  <2> QED BY <1>2, <1>3, <2>1, <2>2, CleanupAssumption DEF LateAt, IsOverdue
<1>8. ~HasLate(i)
  <2>1. SUFFICES ASSUME NEW t \in i.todo, LateAt(i.now, t.due) PROVE \E u \in j.todo : LateAt(i.now, u.due)
    BY <1>2, <1>7 DEF HasLate
  <2>2. t.code \in Codes /\ t.due \in Nat
    BY <1>4 DEF Found
  <2>3. CASE t.code \in first
    <3>1. PICK m \in Found : m = Merged(t.code, i.todo) /\ m.due <= t.due
      BY <1>3, <1>4, <2>2, MergedIs DEF CodesInv
    <3>2. m \in j.todo /\ m.due \in Nat
      BY <1>1, <2>3, <3>1 DEF Reads, Found
    <3>3. LateAt(i.now, m.due)
      BY <1>3, <2>1, <2>2, <3>1, <3>2, CleanupAssumption DEF LateAt
    <3> QED BY <3>2, <3>3
  <2>4. CASE t.code \notin first
    BY <1>1, <2>1, <2>4 DEF Reads
  <2> QED BY <2>3, <2>4
<1>9. LateIsKnown(i) /\ RowsLateStay(i) /\ AllEnded(i) /\ TodoCounts(i)
  BY <1>2, <1>6, <1>8 DEF EndsFit
<1>10. LateIsKnown(j) /\ RowsLateStay(j) /\ AllEnded(j)
  BY <1>2, <1>9 DEF LateIsKnown, RowsLateStay, AllEnded
<1>11. ASSUME TicketsCountActors, NEW t \in j.todo PROVE t.due <= disabled[Owner[t.code]]
  <2>1. CASE t \in i.todo
    BY <1>9, <2>1 DEF TodoCounts
  <2>2. CASE t \notin i.todo
    <3>1. PICK c \in first : t = Merged(c, i.todo)
      BY <1>1, <1>11, <2>2 DEF Reads
    <3>2. t.code = c /\ (t.due = codeTicket[c].due \/ \E h \in i.todo : h.code = c /\ t.due = h.due)
      BY <1>3, <1>4, <3>1, MergedIs DEF CodesInv
    <3>3. codeTicket[c].due <= disabled[Owner[c]]
      BY <1>1, <1>11 DEF Reads, TicketsCountActors
    <3> QED BY <1>9, <3>2, <3>3 DEF TodoCounts
  <2> QED BY <2>1, <2>2
<1> QED BY <1>2, <1>7, <1>10, <1>11 DEF EndsFit, TodoCounts

LEMMA CandidatesLate ==
    ASSUME CodesInv, NEW w \in Cleaners, Candidates(w), LateFits(sweep[w])
    PROVE LateGoesOn(w)
<1>1. PICK i \in Sweeps, j \in Sweeps, known \in SUBSET Codes :
        i = sweep[w] /\ sweep' = [sweep EXCEPT ![w] = j] /\ UNCHANGED Tables /\ Adds(i, j, known)
  BY CandidatesMoves
<1>2. /\ i.at = "candidates" /\ j.at = "next" /\ j.now = i.now /\ j.failed = i.failed /\ j.seals = i.seals
      /\ j.late = i.late /\ j.attempts = i.attempts
      /\ known = Listed \ {t.code : t \in i.todo}
      /\ j.todo = i.todo \cup {Candidate(c, Due(c), FALSE) : c \in {k \in known : Due(k) <= i.now}}
  BY <1>1 DEF Adds, Keeps
<1>3. i.attempts = 0 /\ i.now \in Nat /\ i.now <= now /\ now \in Nat /\ now <= MaxTime /\ i.late \subseteq Listed
  BY <1>1, <1>2, CleanupAssumption DEF CodesInv, CodesTyped, SweepFits, Collecting, Sweeps
<1>4. SUFFICES ASSUME ~j.failed, ~j.seals
               PROVE AllEnded(j) /\ DoesFit(j) /\ (TicketsCountActors => TellsFit(j))
  BY <1>1, <1>2, LateQuiet DEF LateFits, LateGoesOn, Ends, EndsFit, Does, Tells, Verified
<1>5. ~HasLate(i) /\ LateIsKnown(i) /\ RowsLateStay(i) /\ AllEnded(i) /\ (TicketsCountActors => TodoCounts(i))
  BY <1>1, <1>2, <1>4 DEF LateFits, Ends, EndsFit
<1>6. ASSUME NEW c \in Codes
      PROVE key[c].expires \in Nat /\ disabled[Owner[c]] \in Nat /\ Due(c) \in Nat
            /\ Due(c) \in {key[c].expires, Never, disabled[Owner[c]]}
            /\ Due(c) <= key[c].expires /\ Due(c) <= disabled[Owner[c]]
  BY CleanupAssumption, DueIs DEF CodesInv, CodesTyped
<1>7. LateTodo(j)
  <2>1. SUFFICES ASSUME NEW t \in j.todo, LateAt(i.now, t.due)
                 PROVE ~t.row /\ EndedLate(i.now, t.code) /\ (t.code \in j.late \/ codeTicket[t.code].state # "none")
    BY <1>2 DEF LateTodo
  <2>2. t \notin i.todo
    BY <1>5, <2>1 DEF HasLate
  <2>3. PICK c \in known : t = Candidate(c, Due(c), FALSE)
    BY <1>2, <2>2
  <2>4. t.code = c /\ t.due = Due(c) /\ ~t.row /\ c \in Codes
    BY <2>3 DEF Candidate
  <2>5. Due(c) # Never
    BY <1>3, <1>6, <2>1, <2>4, NeverIsLast, CleanupAssumption DEF LateAt
  <2>6. EndedLate(i.now, c)
    BY <1>6, <2>1, <2>4, <2>5 DEF EndedLate
  <2>7. c \in i.late \/ codeTicket[c].state # "none"
    <3>1. key[c].state \in {"live", "destroyed"}
      BY <1>2, <2>4 DEF Listed, CodesInv, CodesTyped
    <3> QED BY <1>5, <2>4, <2>6, <3>1 DEF LateIsKnown, CodesInv, CodeFits, RowGone
  <2> QED BY <1>2, <2>4, <2>6, <2>7
<1>8. ASSUME NEW c \in i.late
      PROVE (\E t \in i.todo : t.code = c) \/ (\E t \in j.todo : t.code = c /\ LateAt(i.now, t.due))
  <2>1. SUFFICES ASSUME ~\E t \in i.todo : t.code = c PROVE \E t \in j.todo : t.code = c /\ LateAt(i.now, t.due)
    OBVIOUS
  <2>2. c \in Listed /\ c \in Codes /\ EndedLate(i.now, c) /\ c \in known
    BY <1>2, <1>3, <1>5, <1>8, <2>1 DEF Listed, AllEnded
  <2>4. LateAt(i.now, Due(c)) /\ Due(c) <= i.now
    BY <1>3, <1>6, <2>2, CleanupAssumption DEF EndedLate, LateAt
  <2>5. Candidate(c, Due(c), FALSE) \in j.todo
    BY <1>2, <2>2, <2>4
  <2> QED BY <2>4, <2>5 DEF Candidate
<1>9. RowsLateStay(j) /\ AllEnded(j)
  BY <1>2, <1>5 DEF RowsLateStay, AllEnded
<1>10. DoesFit(j)
  BY <1>2, <1>8 DEF DoesFit, LateStill, Accountable
<1>11. ASSUME TicketsCountActors PROVE AllFound(j)
  <2>1. SUFFICES ASSUME NEW c \in i.late, NEW t \in i.todo, t.code = c PROVE FALSE
    BY <1>2, <1>8 DEF AllFound
  <2>2. c \in Codes /\ EndedLate(i.now, c)
    BY <1>3, <1>5, <2>1 DEF Listed, AllEnded
  <2>3. NotAfterEnd(t.due, c) /\ t.due \in Nat /\ t.due <= disabled[Owner[c]]
    BY <1>1, <1>5, <1>11, <2>1 DEF CodesInv, SweepFits, Sweeps, Found, TodoCounts
  <2>4. LateAt(i.now, t.due)
    BY <1>3, <1>6, <2>2, <2>3, CleanupAssumption DEF EndedLate, LateAt, NotAfterEnd
  <2> QED BY <1>5, <2>1, <2>4 DEF HasLate
<1> QED BY <1>2, <1>3, <1>7, <1>9, <1>10, <1>11 DEF TellsFit, Settling

LEMMA TakeLate ==
    ASSUME CodesInv, NEW w \in Cleaners, Take(w), LateFits(sweep[w])
    PROVE LateGoesOn(w)
<1>1. PICK i \in Sweeps, j \in Sweeps :
        /\ i = sweep[w] /\ i.at = "next"
        /\ sweep' = [sweep EXCEPT ![w] = j] /\ UNCHANGED Tables
        /\ Keeps(i, j) /\ j.blind = i.blind
        /\ \/ Reports(i, j)
           \/ \E t \in i.todo : (\A u \in i.todo : t.due <= u.due) /\ (Drops(i, j, t) \/ Leaves(i, j) \/ Turns(i, j, t))
  BY TakeMoves DEF CodesInv
<1>2. /\ j.now = i.now /\ j.failed = i.failed /\ (i.left => j.left) /\ (i.seals => j.seals) /\ j.late = i.late
      /\ i.now \in Nat /\ i.now <= now /\ now \in Nat /\ i.todo \in SUBSET Found /\ i.late \subseteq Codes
  BY <1>1, CleanupAssumption DEF Keeps, CodesInv, CodesTyped, SweepFits, Sweeps
<1>20. ASSUME NEW t \in i.todo
       PROVE t.code \in Codes /\ t.code \in Listed /\ t.due \in Nat
             /\ codeTicket[t.code].state \in {"none", "pending", "complete"}
  BY <1>1, <1>2 DEF Found, CodesInv, CodesTyped, SweepFits
<1>21. j.at \notin Collecting
  BY <1>1, <1>20 DEF Reports, Drops, Leaves, Turns, Turn, Collecting
<1>22. Ends(j) /\ (~j.failed /\ ~j.seals => AllEnded(i))
  BY <1>1, <1>2, <1>21, EndsGoOn DEF LateFits, AllEnded
<1>23. ASSUME NEW t \in i.todo, Turns(i, j, t), ~j.seals, codeTicket[t.code].state = "none", EndedLate(i.now, t.code)
       PROVE j.at = "inspect" /\ j.code = t.code /\ LateAt(i.now, disabled[Owner[t.code]])
  <2>1. j.at = "inspect" /\ j.code = t.code /\ ~IsOverdue(key[t.code].expires)
    BY <1>23 DEF Turns, Turn, JudgedLate
  <2>2. key[t.code].expires \in Nat
    BY <1>20 DEF CodesInv, CodesTyped
  <2> QED BY <1>2, <1>23, <2>1, <2>2, CleanupAssumption DEF EndedLate, LateAt, IsOverdue
<1>24. Does(j)
  <2>1. SUFFICES ASSUME ~j.failed, ~j.seals, ~j.left, NEW c \in Accountable(j, j.late, Day), key[c].state # "destroyed"
                 PROVE LateStill(j, c)
    BY DEF Does, DoesFit
  <2>2. LateStill(i, c) /\ c \in Codes /\ EndedLate(i.now, c)
    BY <1>1, <1>2, <1>22, <2>1, AccountableKept DEF LateFits, Does, DoesFit, Accountable, AllEnded, Collecting
  <2>3. PICK s \in i.todo : s.code = c
    BY <1>1, <2>2 DEF LateStill
  <2>4. ~Reports(i, j) /\ ~Leaves(i, j)
    BY <2>1, <2>3 DEF Reports, Leaves
  <2>5. PICK t \in i.todo : Drops(i, j, t) \/ Turns(i, j, t)
    BY <1>1, <2>4
  <2>6. codeTicket[c].state # "complete"
    BY <2>1, <2>2 DEF CodesInv, CodeFits
  <2>7. CASE s = t
    <3>1. Turns(i, j, t)
      BY <2>3, <2>5, <2>6, <2>7 DEF Drops
    <3>2. CASE codeTicket[c].state = "none"
      BY <1>2, <1>23, <2>1, <2>2, <2>3, <2>7, <3>1, <3>2 DEF LateStill
    <3>3. CASE codeTicket[c].state = "pending"
      BY <2>3, <2>7, <3>1, <3>3 DEF LateStill, Turns, Turn
    <3> QED BY <1>20, <2>3, <2>6, <3>2, <3>3
  <2>8. CASE s # t
    <3>1. s \in j.todo
      BY <2>5, <2>8 DEF Drops, Turns
    <3> QED BY <2>3, <3>1 DEF LateStill
  <2> QED BY <2>7, <2>8
<1>3. SUFFICES ASSUME ~j.failed, ~j.seals, Verified(j) PROVE TellsFit(j)
  BY <1>1, <1>22, <1>24, LateQuiet DEF LateFits, LateGoesOn, Tells
<1>4. RowsLateStay(i) /\ LateTodo(i) /\ (i.attempts = 0 \/ ~HasLate(i)) /\ AllFound(i) /\ TicketsCountActors
  BY <1>1, <1>2, <1>3, VerifiedGoesOn DEF LateFits, Tells, TellsFit, Verified
<1>30. Settled(j) => TellsFit(j)
  BY <1>3, <1>21, SettledFits DEF Tells
<1>5. ~HasLate(i) => Settled(i)
  BY <1>4 DEF AllFound, HasLate, Settled
<1>6. CASE Reports(i, j)
  <2>1. i.todo = {} /\ j.todo = {} /\ j.at = "report"
    BY <1>6 DEF Reports
  <2>2. Settled(j)
    BY <1>2, <1>5, <2>1 DEF Settled, HasLate
  <2> QED BY <2>2, <1>30
<1>7. ASSUME NEW t \in i.todo, Drops(i, j, t) PROVE TellsFit(j)
  <2>1. j.at = "next" /\ j.todo = i.todo \ {t} /\ j.attempts = i.attempts /\ codeTicket[t.code].state = "complete"
    BY <1>7 DEF Drops
  <2>2. key[t.code].state = "destroyed"
    BY <1>2, <2>1 DEF Found, CodesInv, CodeFits
  <2>3. RowsLateStay(j) /\ LateTodo(j) /\ AllFound(j) /\ (HasLate(j) => HasLate(i))
    BY <1>2, <1>4, <2>1, <2>2 DEF RowsLateStay, LateTodo, AllFound, HasLate
  <2> QED BY <1>4, <2>1, <2>3 DEF TellsFit, Settling
<1>8. CASE Leaves(i, j)
  <2>1. j.at = "next" /\ j.todo = {} /\ i.attempts >= Limit
    BY <1>8 DEF Leaves
  <2>2. i.attempts # 0
    BY <2>1, CleanupAssumption
  <2>3. Settled(j)
    BY <1>2, <1>4, <1>5, <2>1, <2>2 DEF Settled, HasLate
  <2> QED BY <2>3, <1>30
<1>9. ASSUME NEW t \in i.todo, \A u \in i.todo : t.due <= u.due, Turns(i, j, t) PROVE TellsFit(j)
  <2>1. t.code \in Codes /\ t.code \in Listed /\ t.due \in Nat
    BY <1>20
  <2>2. /\ codeTicket[t.code].state = "complete" => t.row
        /\ j.at = Turn(codeTicket[t.code].state) /\ j.code = t.code /\ j.todo \subseteq i.todo
        /\ ~JudgedLate(t.code)
    BY <1>3, <1>9 DEF Turns
  <2>3. codeTicket[t.code].state \in {"none", "pending", "complete"}
    BY <1>20
  <2>5. CASE ~HasLate(i)
    <3>1. Settled(j)
      BY <1>2, <1>5, <2>2, <2>5 DEF Settled, HasLate
    <3> QED BY <3>1, <1>30
  <2>6. CASE HasLate(i)
    <3>1. LateAt(i.now, t.due)
      <4>1. PICK u \in i.todo : LateAt(i.now, u.due)
        BY <2>6 DEF HasLate
      <4>2. u.due \in Nat /\ t.due <= u.due
        BY <1>2, <1>9 DEF Found
      <4> QED BY <1>2, <2>1, <4>1, <4>2, CleanupAssumption DEF LateAt
    <3>2. ~t.row /\ EndedLate(i.now, t.code) /\ (t.code \in i.late \/ codeTicket[t.code].state # "none")
      BY <1>4, <3>1 DEF LateTodo
    <3>3. key[t.code].expires \in Nat /\ disabled[Owner[t.code]] \in Nat /\ codeTicket[t.code].due \in Nat
      BY <2>1, CleanupAssumption DEF CodesInv, CodesTyped
    <3>4. codeTicket[t.code].state # "pending"
      <4>1. SUFFICES ASSUME codeTicket[t.code].state = "pending" PROVE FALSE
        OBVIOUS
      <4>2. NotAfterEnd(codeTicket[t.code].due, t.code) /\ codeTicket[t.code].due <= disabled[Owner[t.code]]
        BY <1>4, <2>1, <4>1 DEF CodesInv, CodeFits, TicketsCountActors
      <4>3. IsOverdue(codeTicket[t.code].due)
        BY <1>2, <3>2, <3>3, <4>2, CleanupAssumption DEF EndedLate, LateAt, NotAfterEnd, IsOverdue
      <4> QED BY <2>2, <4>1, <4>3 DEF JudgedLate
    <3>5. codeTicket[t.code].state = "none" /\ t.code \in i.late
      BY <2>2, <2>3, <3>2, <3>4
    <3>7. j.at = "inspect" /\ j.code \in j.late /\ RowsLateStay(j) /\ LateAt(j.now, disabled[Owner[j.code]])
      BY <1>2, <1>3, <1>4, <1>9, <1>23, <3>2, <3>5 DEF RowsLateStay
    <3> QED BY <3>7 DEF TellsFit, Settling
  <2> QED BY <2>5, <2>6
<1> QED BY <1>1, <1>6, <1>7, <1>8, <1>9

LEMMA InspectLate ==
    ASSUME CodesInv, NEW w \in Cleaners, Inspect(w), LateFits(sweep[w])
    PROVE LateGoesOn(w)
<1>1. PICK i \in Sweeps, j \in Sweeps, c \in Codes, due \in Nat :
      \E a \in ActorReadings(Owner[c]), b \in CodeReadings(c) :
        /\ i = sweep[w] /\ Inspects(i, j, c, due, a, b)
        /\ sweep' = [sweep EXCEPT ![w] = j] /\ UNCHANGED Tables
  BY InspectMoves
<1>2. PICK a \in ActorReadings(Owner[c]), b \in CodeReadings(c) : Inspects(i, j, c, due, a, b)
  BY <1>1
<1>4. /\ i.at = "inspect" /\ i.code = c /\ j.now = i.now /\ j.failed = i.failed /\ j.left = i.left /\ j.late = i.late
      /\ j.todo = i.todo /\ Keeps(i, j) /\ (i.seals => j.seals) /\ j.at \in {"prepare", "next"}
      /\ ~j.seals => ~IsOverdue(due) /\ Worse(a, b) # "mismatch"
      /\ Worse(a, b) = "unverifiable" => c \in j.blind
      /\ due = Window(key[c].expires, Counted(b, row[c].ended), Counted(a, disabled[Owner[c]]))
  BY <1>2 DEF Inspects, Keeps
<1>5. now \in Nat /\ i.now \in Nat /\ i.now <= now
  BY <1>1, CleanupAssumption DEF CodesInv, CodesTyped, SweepFits, Sweeps
<1>6. ASSUME ~j.seals, c \in j.blind => j.now >= key[c].expires + Day PROVE ~LateAt(i.now, disabled[Owner[c]])
  <2>1. /\ key[c].expires \in Nat /\ Counted(b, row[c].ended) \in Nat /\ Counted(a, disabled[Owner[c]]) \in Nat
        /\ disabled[Owner[c]] \in Nat
    BY CountedIs DEF CodesInv
  <2>2. due <= key[c].expires /\ due <= Counted(a, disabled[Owner[c]])
    <3>1. ASSUME NEW x \in Nat, NEW y \in Nat, NEW z \in Nat, due = Window(x, y, z)
          PROVE due <= x /\ due <= z
      BY <3>1, WindowIs
    <3> QED BY <1>4, <2>1, <3>1
  <2>3. CASE c \in j.blind
    BY <1>4, <1>5, <1>6, <2>1, <2>2, <2>3, CleanupAssumption DEF IsOverdue
  <2>4. CASE c \notin j.blind
    <3>1. a = "valid"
      BY <1>4, <1>6, <2>4, ReadingsAre
    <3>2. due <= disabled[Owner[c]]
      BY <2>2, <3>1 DEF Counted
    <3> QED BY <1>4, <1>5, <1>6, <2>1, <3>2, CleanupAssumption DEF LateAt, IsOverdue
  <2> QED BY <2>3, <2>4
<1>7. Ends(j)
  BY <1>1, <1>4, EndsGoOn DEF LateFits, Collecting
<1>8. Does(j)
  <2>1. SUFFICES ASSUME ~j.failed, ~j.seals, ~j.left, NEW d \in Accountable(j, j.late, Day), key[d].state # "destroyed"
                 PROVE LateStill(j, d)
    BY DEF Does, DoesFit
  <2>2. LateStill(i, d)
    BY <1>1, <1>4, <2>1, AccountableKept DEF LateFits, Does, DoesFit, Collecting
  <2>3. ~(d = c /\ LateAt(i.now, disabled[Owner[c]]))
    BY <1>6, <2>1 DEF Accountable
  <2> QED BY <1>4, <2>2, <2>3 DEF LateStill
<1>9. Tells(j)
  <2>1. SUFFICES ASSUME ~j.failed, ~j.seals, Verified(j) PROVE TellsFit(j)
    BY DEF Tells
  <2>2. TellsFit(i)
    BY <1>1, <1>4, <2>1, VerifiedGoesOn DEF LateFits, Tells
  <2>3. Settled(i)
    BY <1>4, <1>6, <2>1, <2>2 DEF TellsFit, Verified
  <2>4. Settled(j)
    BY <1>4, <2>3 DEF Settled, HasLate
  <2> QED BY <1>4, <2>1, <2>4, SettledFits DEF Collecting, Tells
<1> QED BY <1>1, <1>7, <1>8, <1>9, LateQuiet DEF LateFits, LateGoesOn

LEMMA SkipLate ==
    ASSUME CodesInv, NEW w \in Cleaners, Skip(w), LateFits(sweep[w])
    PROVE LateGoesOn(w)
<1>1. PICK i \in Sweeps, j \in Sweeps :
        /\ i = sweep[w] /\ sweep' = [sweep EXCEPT ![w] = j] /\ UNCHANGED Tables
        /\ i.at \in {"inspect", "remove", "recheck"} /\ row[i.code].there
        /\ Keeps(i, j) /\ j.todo = i.todo /\ j.attempts = i.attempts /\ j.seals = i.seals
        /\ j.at = "next" /\ j.left
  BY SkipMoves DEF CodesInv
<1>2. j.now = i.now /\ j.failed = i.failed /\ j.late = i.late
  BY <1>1 DEF Keeps
<1>3. Ends(j) /\ Does(j)
  BY <1>1, EndsGoOn DEF LateFits, Does, Collecting
<1>4. SUFFICES ASSUME ~j.failed, ~j.seals, Verified(j) PROVE TellsFit(j)
  BY <1>1, <1>3, LateQuiet DEF LateFits, LateGoesOn, Tells
<1>5. TellsFit(i) /\ ~(returns > 0)
  BY <1>1, <1>2, <1>4, VerifiedGoesOn DEF LateFits, Tells, Verified
<1>6. Settled(i)
  BY <1>1, <1>5 DEF TellsFit, Settling, RowsLateStay
<1>7. Settled(j)
  BY <1>1, <1>2, <1>6 DEF Settled, HasLate
<1> QED BY <1>1, <1>4, <1>7, SettledFits DEF Collecting, Tells

LEMMA RestingLate == LateFits(Resting)
BY RestingIs DEF LateFits, Ends, EndsFit, AllEnded, Does, DoesFit, Accountable, Tells, TellsFit, Settling

LEMMA FailedLate ==
    ASSUME NEW i \in Sweeps
    PROVE LateFits(Failed(i))'
BY FailedMoves DEF LateFits, Ends, Does, Tells

\* A step that is not about what is late leaves all that a run has found as it is.
LEMMA StepLate ==
    ASSUME CodesInv, NEW i \in Sweeps, NEW j \in Sweeps, LateFits(i), Keeps(i, j), i.at \in Settling, j.at \notin Collecting,
           j.todo = i.todo, j.left = i.left, j.seals = i.seals, i.at \notin {"remove", "close"}
    PROVE LateFits(j)
<1>1. j.now = i.now /\ j.failed = i.failed /\ j.late = i.late /\ i.at \notin Collecting /\ i.at \notin {"tickets", "inspect"}
  BY DEF Keeps, Settling, Collecting
<1>2. Ends(j)
  BY <1>1, EndsGoOn DEF LateFits
<1>3. Does(j)
  BY <1>1, AccountableKept DEF LateFits, Does, DoesFit, LateStill
<1>4. Tells(j)
  <2>1. SUFFICES ASSUME ~j.failed, ~j.seals, Verified(j) PROVE Tells(j)
    BY DEF Tells
  <2>2. Settled(i)
    BY <1>1, <2>1, VerifiedGoesOn DEF LateFits, Tells, TellsFit
  <2> QED BY <1>1, <2>2, SettledFits DEF Settled, HasLate
<1> QED BY <1>2, <1>3, <1>4 DEF LateFits

LEMMA QuietEndLate ==
    ASSUME CodesInv, NEW w \in Cleaners, LateFits(sweep[w]),
           CloseRefused(w) \/ CheckRowGone(w) \/ ReportRun(w) \/ Fault(w) \/ CleanupCrash(w)
    PROVE LateGoesOn(w)
<1>1. PICK i \in Sweeps, j \in Sweeps :
        i = sweep[w] /\ sweep' = [sweep EXCEPT ![w] = j] /\ UNCHANGED Tables /\ QuietEnd(w, i, j)
  BY QuietEndMoves
<1>2. CASE j = Resting
  <2>1. LateFits(j)
    BY <1>2, RestingLate
  <2> QED BY <1>1, <2>1, LateQuiet DEF LateGoesOn
<1>3. CASE j = Failed(i)
  BY <1>1, <1>3, FailedLate DEF LateGoesOn
<1>4. CASE i.at = "absent" /\ j = [i EXCEPT !.at = "complete"]
  <2>1. j.at = "complete" /\ Keeps(i, j) /\ j.todo = i.todo /\ j.left = i.left /\ j.seals = i.seals
    BY <1>4, AtMoves DEF Stages, Keeps
  <2>2. LateFits(j)
    BY <1>1, <1>4, <2>1, StepLate DEF Settling, Collecting
  <2> QED BY <1>1, <2>2, LateQuiet DEF LateGoesOn
<1> QED BY <1>1, <1>2, <1>3, <1>4 DEF QuietEnd

\* The steps on one code that change the tables leave the rest of a run as it is.
LEMMA LoudLate ==
    ASSUME CodesInv, CodesInv', Lasts, RowsMove, NEW w \in Cleaners, LateFits(sweep[w]),
           RegisterTicket(w) \/ CompleteTicket(w) \/ Recheck(w)
    PROVE LateGoesOn(w)
<1>1. PICK i \in Sweeps : /\ i = sweep[w] /\ i.at \in {"prepare", "complete", "recheck"} /\ LateFits(i) /\ SweepFits(i)
  BY DEF CodesInv, CodesTyped, RegisterTicket, CompleteTicket, Recheck
<1>2. Goes(w, Failed(i)) \/ Goes(w, Done(i)) \/ Goes(w, [i EXCEPT !.at = "remove"])
  BY <1>1 DEF RegisterTicket, CompleteTicket, Recheck, GoesOn
<1>3. CASE Goes(w, Failed(i))
  BY <1>3, FailedLate, FailedMoves DEF LateGoesOn, Goes
<1>4. ASSUME NEW j \in Sweeps, Goes(w, j), j.at \notin Collecting, Keeps(i, j), j.todo = i.todo, j.left = i.left,
             j.seals = i.seals
      PROVE LateGoesOn(w)
  <2>1. LateFits(j)
    BY <1>1, <1>4, StepLate DEF Settling
  <2>2. Collected(j)
    BY <1>1, <1>4, IsCollected DEF Collected, Keeps
  <2>3. LateFits(j)'
    BY <2>1, <2>2, LateLasts DEF LateFits
  <2> QED BY <1>4, <2>3 DEF LateGoesOn, Goes
<1>5. CASE Goes(w, [i EXCEPT !.at = "remove"])
  <2>1. PICK j \in Sweeps : j = [i EXCEPT !.at = "remove"]
    BY AtMoves DEF Stages
  <2>2. j.at = "remove" /\ Keeps(i, j) /\ j.todo = i.todo /\ j.left = i.left /\ j.seals = i.seals
    BY <2>1, AtMoves DEF Stages, Keeps
  <2> QED BY <1>4, <1>5, <2>1, <2>2 DEF Collecting
<1>6. CASE Goes(w, Done(i))
  <2>1. PICK j \in Sweeps : j = Done(i) /\ j.at = "next" /\ Keeps(i, j) /\ j.todo = i.todo /\ j.left = i.left
                            /\ j.seals = i.seals
    BY DoneMoves DEF Keeps
  <2> QED BY <1>4, <1>6, <2>1 DEF Collecting
<1> QED BY <1>2, <1>3, <1>5, <1>6

\* The removal of a row and the destruction of its key, one after the other.
LEMMA RemovesLate ==
    ASSUME CodesInv, CodesInv', Lasts, RowsMove, NEW w \in Cleaners, LateFits(sweep[w]), RemoveRow(w) \/ Close(w)
    PROVE LateGoesOn(w)
<1>1. PICK i \in Sweeps : i = sweep[w] /\ i.at \in {"remove", "close"} /\ LateFits(i) /\ SweepFits(i)
  BY DEF CodesInv, CodesTyped, RemoveRow, Close
<1>2. PICK c \in Codes : c = i.code /\ codeTicket[c].state # "none" /\ codeTicket[c].due = i.due
  BY <1>1 DEF SweepFits, Working, Registered, Listed
<1>3. IsDue(i.due)
  BY <1>2 DEF CodesInv, CodeFits, NotAfterEnd, IsDue
<1>4. \/ Goes(w, Failed(i))
      \/ i.at = "remove" /\ Goes(w, [i EXCEPT !.at = "close"])
      \/ Goes(w, [i EXCEPT !.at = "absent"]) /\ key'[c].state = "destroyed"
  BY <1>1, <1>2, <1>3 DEF RemoveRow, Close, GoesOn, CodesInv, CodesTyped
<1>5. CASE Goes(w, Failed(i))
  BY <1>5, FailedLate, FailedMoves DEF LateGoesOn, Goes
<1>6. ASSUME NEW s \in {"close", "absent"}, Goes(w, [i EXCEPT !.at = s]),
             s = "close" \/ key'[c].state = "destroyed"
      PROVE LateGoesOn(w)
  <2>1. PICK j \in Sweeps : j = [i EXCEPT !.at = s]
    BY AtMoves DEF Stages
  <2>2. /\ j.at = s /\ j.code = c /\ Keeps(i, j) /\ j.now = i.now /\ j.todo = i.todo /\ j.late = i.late /\ j.blind = i.blind
        /\ j.failed = i.failed /\ j.left = i.left /\ j.seals = i.seals /\ Collected(j)
    BY <1>1, <1>2, <2>1, AtMoves, IsCollected DEF Stages, Keeps, Collected
  <2>3. Ends(j)
    BY <1>1, <1>6, <2>2, EndsGoOn DEF LateFits, Collecting
  <2>4. Tells(j)
    <3>1. SUFFICES ASSUME ~j.failed, ~j.seals, Verified(j) PROVE Tells(j)
      BY DEF Tells
    <3>2. Settled(i)
      BY <1>1, <2>2, <3>1, VerifiedGoesOn DEF LateFits, Tells, TellsFit, Settling
    <3> QED BY <1>6, <2>2, <3>2, SettledFits DEF Settled, HasLate, Collecting
  <2>5. Does(j)'
    <3>1. SUFFICES ASSUME ~j.failed, ~j.seals, ~j.left, NEW d \in Accountable(j, j.late, Day)
                   PROVE key'[d].state = "destroyed" \/ LateStill(j, d)'
      BY <2>2, AccountableStays DEF Does, DoesFit, Collected
    <3>2. d \in Codes /\ d \in Accountable(i, i.late, Day)
      BY <2>2, <3>1, AccountableKept DEF Accountable, Sweeps
    <3>3. key[d].state = "destroyed" \/ LateStill(i, d)
      BY <1>1, <2>2, <3>1, <3>2 DEF LateFits, Does, DoesFit, Collecting
    <3>4. d # c => (LateStill(i, d) => LateStill(j, d)')
      BY <1>1, <1>2, <2>2 DEF LateStill
    <3>5. key[d].state = "destroyed" => key'[d].state = "destroyed"
      BY <3>2 DEF Lasts
    <3>6. d = c => key'[d].state = "destroyed" \/ LateStill(j, d)'
      BY <1>6, <2>2 DEF LateStill
    <3> QED BY <3>3, <3>4, <3>5, <3>6
  <2>6. LateFits(j)'
    BY <2>2, <2>3, <2>4, <2>5, LateLasts DEF LateFits
  <2> QED BY <1>6, <2>1, <2>6 DEF LateGoesOn, Goes
<1> QED BY <1>4, <1>5, <1>6

LEMMA LateOfWork ==
    ASSUME CodesInv, CodesInv', Lasts, RowsMove, NEW w \in Cleaners, WorkOf(w), LateFits(sweep[w])
    PROVE LateGoesOn(w)
BY RunLate, CleanOneLate, ReadTicketsLate, CandidatesLate, TakeLate, InspectLate, SkipLate, QuietEndLate, LoudLate,
   RemovesLate DEF WorkOf, Work

LateInv == CodesInv /\ \A w \in Cleaners : LateFits(sweep[w])
LEMMA LateStep ==
    ASSUME LateInv, CodesNext
    PROVE LateInv'
<1>1. CodesInv' /\ Lasts /\ RowsMove
  BY CodesStep, RowsAndKeysMove DEF LateInv
<1>2. ASSUME NEW v \in Cleaners, sweep'[v] = sweep[v] PROVE LateFits(sweep[v])'
  <2>1. PICK i \in Sweeps : i = sweep[v] /\ LateFits(i) /\ SweepFits(i)
    BY DEF LateInv, CodesInv, CodesTyped
  <2>2. LateFits(i)'
    BY <1>1, <2>1, IsCollected, LateLasts DEF LateInv, LateFits
  <2> QED BY <1>2, <2>1, <2>2
<1>3. CASE UNCHANGED sweep
  BY <1>1, <1>2, <1>3 DEF LateInv
<1>4. ASSUME NEW w \in Cleaners, WorkOf(w) PROVE LateInv'
  <2>1. PICK j \in Sweeps : sweep' = [sweep EXCEPT ![w] = j] /\ LateFits(j)'
    BY <1>1, <1>4, LateOfWork DEF LateInv, LateGoesOn
  <2>2. sweep'[w] = j /\ \A v \in Cleaners \ {w} : sweep'[v] = sweep[v]
    BY <2>1 DEF LateInv, CodesInv, CodesTyped
  <2>3. LateFits(sweep[w])'
    BY <2>1, <2>2
  <2> QED BY <1>1, <1>2, <2>2, <2>3 DEF LateInv
<1> QED BY <1>3, <1>4, WhoseStep

LEMMA LateStutter ==
    ASSUME LateInv, UNCHANGED cleanupVars
    PROVE LateInv'
<1>1. CodesInv' /\ UNCHANGED Tables /\ UNCHANGED sweep
  BY CodesStutter DEF LateInv, cleanupVars, Tables
<1>2. ASSUME NEW w \in Cleaners PROVE LateFits(sweep[w])'
  <2>1. PICK i \in Sweeps : i = sweep[w] /\ LateFits(i)
    BY DEF LateInv, CodesInv, CodesTyped
  <2> QED BY <1>1, <2>1, LateQuiet
<1> QED BY <1>1, <1>2 DEF LateInv

\* A run that could still answer "complete" or "pending" has destroyed the key of every code that was a
\* day late when it began, or has it still to do and comes to it first (run, the order of the selected).
THEOREM LateInvariant == CodesSpec => []LateInv
<1>1. CodesInit => LateInv
  BY RestingLate, CodesInit_Holds DEF LateInv, CodesInit
<1>2. LateInv /\ [CodesNext]_cleanupVars => LateInv'
  BY LateStep, LateStutter
<1> QED BY <1>1, <1>2, PTL DEF CodesSpec

\* What a run tells of the codes that were over, or a day late, when it began is true when it is told
\* (RecipientCodeCleanupService.run).
THEOREM AnswersTrue == CodesSpec => []CleanupAnswersAreTrue
<1>1. ClaimsInv /\ LateInv => CleanupAnswersAreTrue
  <2>1. SUFFICES ASSUME ClaimsInv, LateInv, NEW w \in Cleaners, NEW j, j = sweep[w]
                 PROVE /\ Answers(w, "complete") =>
                            /\ \A c \in Accountable(j, j.claims, 0) : RowGone(c)
                            /\ \A c \in Accountable(j, j.late, Day) : key[c].state = "destroyed"
                       /\ Answers(w, "pending") /\ j.blind = {} /\ TicketsCountActors =>
                            \A c \in j.late : key[c].state = "destroyed" \/ returns > 0
    BY DEF CleanupAnswersAreTrue, RowGone
  <2>2. j \in Sweeps /\ ClaimFits(j) /\ LateFits(j) /\ SweepFits(j)
    BY <2>1 DEF ClaimsInv, LateInv, CodesInv, CodesTyped
  <2>3. ASSUME Answers(w, "complete") \/ Answers(w, "pending")
        PROVE j.at = "report" /\ ~j.failed /\ ~j.seals /\ j.todo = {} /\ (Answers(w, "complete") => ~j.left)
    BY <2>1, <2>2, <2>3 DEF Answers, Answer, SweepFits
  <2>4. ASSUME Answers(w, "complete"), NEW c \in Accountable(j, j.claims, 0) PROVE RowGone(c)
    BY <2>2, <2>3, <2>4 DEF ClaimFits, StillToDo, Collecting
  <2>5. ASSUME Answers(w, "complete"), NEW c \in Accountable(j, j.late, Day) PROVE key[c].state = "destroyed"
    BY <2>2, <2>3, <2>5 DEF LateFits, Does, DoesFit, LateStill, Collecting
  <2>6. ASSUME Answers(w, "pending"), j.blind = {}, TicketsCountActors, NEW c \in j.late, ~(returns > 0)
        PROVE key[c].state = "destroyed"
    BY <2>2, <2>3, <2>6 DEF LateFits, Tells, Verified, TellsFit, Settling, Settled
  <2> QED BY <2>4, <2>5, <2>6
<1> QED BY <1>1, ClaimsInvariant, LateInvariant, PTL
=============================================================================
