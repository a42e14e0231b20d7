-------------------------- MODULE TemplatesProofs --------------------------
(***************************************************************************)
(* Theorems of Templates, for any parsers, probers, lines and bounds.      *)
(***************************************************************************)
EXTENDS Templates, TLAPS

AnyLine == Lines \cup {CHOOSE l \in Lines : TRUE}
Kinds == {"record", "rubbish"}
Prints == {LinePrint(l) : l \in AnyLine}
Shapes == {Shape[l] : l \in AnyLine}
Outcomes == {"open", "uncertain", "template", "timeout"}
Places == {"limiter", "load records", "load rubbish", "model", "find", "write"}

TemplateSet == [id : Nat, version : Nat, kind : Kinds, print : Prints, from : AnyLine]
Caches == UNION {[S -> TemplateSet] : S \in SUBSET Prints}
Registry == [record : Caches, rubbish : Caches]
Asked == [line : AnyLine, outcome : Outcomes]
Job == [job : Nat, state : {"idle", "waiting"}, lines : Nat, aiCalls : Nat, log : Seq(Asked),
        cache : UNION {[S -> TemplateSet] : S \in SUBSET Shapes}, learned : SUBSET TemplateSet]
CallSet == [n : Nat, line : AnyLine, at : Places, job : Nat,
            template : SUBSET TemplateSet, found : SUBSET TemplateSet]
ProbeSet == [state : {"idle", "waiting", "failed"}, line : AnyLine, attempt : Nat,
             seen : SUBSET {ProbePrint(l) : l \in Lines}]

OneTemplate(c) == \A t, u \in c.template : t = u

TypeInv ==
  /\ table \in Seq(TemplateSet) /\ made \in Nat /\ unsaved \subseteq Nat
  /\ registry \in [Processes -> Registry]
  /\ calls \in [Processes -> SUBSET CallSet]
  /\ \A p \in Processes : \A c \in calls[p] : OneTemplate(c)
  /\ parse \in [Parsers -> Job]
  /\ \A p \in Parsers : parse[p].state = "waiting" => parse[p].log # <<>>
  /\ probe \in [Probers -> ProbeSet]

-----------------------------------------------------------------------------
(***************************************************************************)
(* A cache, and what loading and registering put into it.                  *)
(***************************************************************************)
In(cache, t) == \E q \in DOMAIN cache : cache[q] = t
Knows(reg, t) == In(reg.record, t) \/ In(reg.rubbish, t)

LEMMA CacheWith ==
  ASSUME NEW cache \in Caches, NEW t \in TemplateSet
  PROVE  /\ With(cache, t) \in Caches
         /\ In(With(cache, t), t)
         /\ \A u : In(With(cache, t), u) => u = t \/ In(cache, u)
<1>1. PICK S \in SUBSET Prints : cache \in [S -> TemplateSet]
  BY DEF Caches
<1> DEFINE U == S \cup {t.print}
<1>2. U \in SUBSET Prints
  BY DEF TemplateSet
<1>3. With(cache, t) = [q \in U |-> IF q = t.print THEN t ELSE cache[q]]
  BY <1>1 DEF With
<1>4. With(cache, t) \in [U -> TemplateSet]
  BY <1>1, <1>3
<1> HIDE DEF U
<1>5. With(cache, t) \in Caches
  BY <1>2, <1>4 DEF Caches
<1> QED BY <1>1, <1>3, <1>5 DEF In, U

LEMMA CacheLoaded ==
  ASSUME NEW cache \in Caches, NEW kind, table \in Seq(TemplateSet)
  PROVE  /\ Loaded(cache, kind) \in Caches
         /\ \A u : In(Loaded(cache, kind), u) => In(cache, u) \/ \E i \in DOMAIN table : table[i] = u
<1>1. PICK S \in SUBSET Prints : cache \in [S -> TemplateSet]
  BY DEF Caches
<1> DEFINE rows == {i \in DOMAIN table : table[i].kind = kind}
           oldest == {i \in rows : \A k \in rows : table[k].print = table[i].print => i <= k}
           loaded == {table[i] : i \in oldest}
           U == S \cup {t.print : t \in loaded}
           L == [q \in U |-> IF \E t \in loaded : t.print = q THEN CHOOSE t \in loaded : t.print = q
                             ELSE cache[q]]
<1>2. \A t \in loaded : t \in TemplateSet /\ \E i \in DOMAIN table : table[i] = t
  OBVIOUS
<1>3. Loaded(cache, kind) = L
  BY <1>1 DEF Loaded
<1> HIDE DEF loaded
<1>4. U \in SUBSET Prints
  BY <1>2 DEF TemplateSet
<1>5. \A q \in U : L[q] \in TemplateSet /\ (L[q] \in loaded \/ (q \in S /\ L[q] = cache[q]))
  BY <1>1, <1>2
<1>6. L \in [U -> TemplateSet]
  BY <1>5
<1> HIDE DEF U, L
<1>7. Loaded(cache, kind) \in Caches
  BY <1>3, <1>4, <1>6 DEF Caches
<1>8. ASSUME NEW u, In(L, u) PROVE In(cache, u) \/ \E i \in DOMAIN table : table[i] = u
  BY <1>1, <1>2, <1>5, <1>6, <1>8 DEF In
<1> QED BY <1>3, <1>7, <1>8

LEMMA RegisteredIsKnown ==
  ASSUME NEW reg, NEW l, NEW t \in Registered(reg, l)
  PROVE  Knows(reg, t)
BY DEF Registered, ByFingerprint, Found, Knows, In

LEMMA KnownIsTyped ==
  ASSUME NEW reg \in Registry, NEW t, Knows(reg, t)
  PROVE  t \in TemplateSet
BY DEF Registry, Caches, Knows, In

-----------------------------------------------------------------------------
(***************************************************************************)
(* The job of a parser.                                                    *)
(***************************************************************************)
LEMMA JobLearns ==
  ASSUME NEW j \in Job, NEW l \in AnyLine, NEW u \in TemplateSet,
         NEW k, k = Learn(j, [asked |-> l, template |-> u])
  PROVE  /\ k \in Job /\ k.job = j.job /\ k.state = j.state /\ k.log = j.log
         /\ DOMAIN j.cache \subseteq DOMAIN k.cache /\ Shape[l] \in DOMAIN k.cache
         /\ k.learned \subseteq j.learned \cup {u}
<1> DEFINE learned == IF \E v \in j.learned : v.id = u.id THEN j.learned ELSE j.learned \cup {u}
           cache == [q \in DOMAIN j.cache \cup {Shape[l]} |-> IF q = Shape[l] THEN u ELSE j.cache[q]]
<1>1. PICK S \in SUBSET Shapes : j.cache \in [S -> TemplateSet]
  BY DEF Job
<1>2. cache \in [S \cup {Shape[l]} -> TemplateSet] /\ S \cup {Shape[l]} \in SUBSET Shapes
  BY <1>1 DEF Shapes
<1>3. learned \in SUBSET TemplateSet /\ learned \subseteq j.learned \cup {u}
  BY DEF Job
<1>4. k = [j EXCEPT !.learned = learned, !.cache = cache]
  BY DEF Learn
<1> HIDE DEF learned, cache
<1>5. cache \in UNION {[R -> TemplateSet] : R \in SUBSET Shapes}
  BY <1>2
<1>6. k \in Job /\ k.job = j.job /\ k.state = j.state /\ k.log = j.log
      /\ k.learned = learned /\ k.cache = cache
  BY <1>3, <1>4, <1>5 DEF Job
<1> QED BY <1>1, <1>2, <1>3, <1>6

\* The last line asked for gets an outcome, at a cost.
Settles(j, m, outcome) ==
  /\ m \in Job /\ m.job = j.job /\ m.state = "idle" /\ m.learned = j.learned /\ m.cache = j.cache
  /\ Len(m.log) = Len(j.log) /\ DOMAIN m.log = DOMAIN j.log
  /\ \A i \in DOMAIN j.log :
       /\ m.log[i].line = j.log[i].line
       /\ m.log[i].outcome = IF i = Len(j.log) THEN outcome ELSE j.log[i].outcome

LEMMA JobSettles ==
  ASSUME NEW j \in Job, j.log # <<>>, NEW outcome \in Outcomes, NEW used \in Nat
  PROVE  Settles(j, Note(Charge(j, used), Len(j.log), outcome), outcome)
<1> DEFINE n == Len(j.log)
           a == [j.log[n] EXCEPT !.outcome = outcome]
           log == [j.log EXCEPT ![n] = a]
           m == [j EXCEPT !.state = "idle", !.aiCalls = @ + used, !.log = log]
<1>1. /\ j.log \in Seq(Asked) /\ n \in Nat /\ DOMAIN j.log = 1 .. n /\ n \in DOMAIN j.log
  BY DEF Job
<1>2. a \in Asked /\ a.line = j.log[n].line /\ a.outcome = outcome
  <2>1. j.log[n] \in Asked
    BY <1>1
  <2> QED BY <2>1 DEF Asked
<1> HIDE DEF a
<1>3. /\ log \in Seq(Asked) /\ Len(log) = n /\ DOMAIN log = DOMAIN j.log
      /\ \A i \in DOMAIN j.log : log[i] = IF i = n THEN a ELSE j.log[i]
  BY <1>1, <1>2
<1>4. Note(Charge(j, used), Len(j.log), outcome) = m
  BY DEF Note, Charge, Job, a
<1> HIDE DEF log
<1>5. m \in Job /\ m.job = j.job /\ m.state = "idle" /\ m.learned = j.learned /\ m.cache = j.cache
      /\ m.log = log
  <2>1. j.aiCalls + used \in Nat
    BY DEF Job
  <2>2. m = [j EXCEPT !.state = "idle", !.aiCalls = j.aiCalls + used, !.log = log]
    OBVIOUS
  <2> QED BY <1>3, <2>1, <2>2 DEF Job
<1> QED BY <1>1, <1>2, <1>3, <1>4, <1>5 DEF Settles

\* What an answer does to the job of its parser: the classifier may learn a template, and
\* the line, if it still waits, is settled.
Taught(j, k, c, found) ==
  /\ k \in Job /\ k.job = j.job /\ k.state = j.state /\ k.log = j.log
  /\ DOMAIN j.cache \subseteq DOMAIN k.cache
  /\ k.learned \subseteq j.learned \cup found
  /\ found # {} /\ c.job = j.job => Shape[c.line] \in DOMAIN k.cache

Answered(p, c, found) ==
  /\ calls' = [calls EXCEPT ![p] = @ \ {c}]
  /\ \/ /\ p \in Parsers /\ probe' = probe
        /\ \E k, m : /\ Taught(parse[p], k, c, found)
                     /\ \/ m = k
                        \/ Awaited(p, c) /\ Settles(k, m, IF found = {} THEN "uncertain" ELSE "template")
                     /\ parse' = [parse EXCEPT ![p] = m]
     \/ /\ p \in Probers /\ parse' = parse /\ probe' \in [Probers -> ProbeSet]

LEMMA AnswerAnswers ==
  ASSUME TypeInv, NEW p \in Processes, NEW c \in calls[p], NEW found \in SUBSET TemplateSet,
         Answer(p, c, found)
  PROVE  Answered(p, c, found)
<1>1. c \in CallSet
  BY DEF TypeInv
<1>2. CASE p \in Parsers
  <2> DEFINE j == parse[p]
             u == CHOOSE t \in found : TRUE
             k == IF found = {} \/ c.job # j.job THEN j
                  ELSE Learn(j, [asked |-> c.line, template |-> u])
             outcome == IF found = {} THEN "uncertain" ELSE "template"
             m == IF Awaited(p, c) THEN Note(Charge(k, 1), c.n, outcome) ELSE k
  <2>1. j \in Job /\ parse \in [Parsers -> Job] /\ c.line \in AnyLine
    BY <1>1, <1>2 DEF TypeInv, CallSet
  <2>2. parse' = [parse EXCEPT ![p] = m] /\ probe' = probe
    BY <1>2 DEF Answer
  <2>3. Taught(j, k, c, found)
    <3>1. CASE found = {} \/ c.job # j.job
      BY <2>1, <3>1 DEF Taught
    <3>2. CASE ~(found = {} \/ c.job # j.job)
      <4>1. u \in found
        BY <3>2
      <4>2. k = Learn(j, [asked |-> c.line, template |-> u])
        BY <3>2
      <4> HIDE DEF u, k, j
      <4> QED BY <2>1, <4>1, <4>2, JobLearns DEF Taught
    <3> QED BY <3>1, <3>2
  <2>4. m = k \/ (Awaited(p, c) /\ Settles(k, m, outcome))
    <3>1. CASE ~Awaited(p, c)
      BY <3>1
    <3>2. CASE Awaited(p, c)
      <4>1. j.log # <<>> /\ c.n = Len(j.log)
        BY <1>2, <3>2 DEF Awaited, TypeInv
      <4>2. k \in Job /\ k.log = j.log
        BY <2>3 DEF Taught
      <4>3. m = Note(Charge(k, 1), Len(k.log), outcome)
        BY <3>2, <4>1, <4>2
      <4>4. outcome \in Outcomes
        BY DEF Outcomes
      <4> HIDE DEF k, m, outcome
      <4>5. Settles(k, m, outcome)
        BY <4>1, <4>2, <4>3, <4>4, JobSettles
      <4> QED BY <3>2, <4>5
    <3> QED BY <3>1, <3>2
  <2>5. calls' = [calls EXCEPT ![p] = @ \ {c}]
    BY DEF Answer
  <2> HIDE DEF k, m
  <2> QED BY <1>2, <2>2, <2>3, <2>4, <2>5 DEF Answered
<1>3. CASE p \notin Parsers
  <2>1. p \in Probers
    BY <1>3 DEF Processes
  <2>2. parse' = parse /\ calls' = [calls EXCEPT ![p] = @ \ {c}]
    BY <1>3 DEF Answer
  <2>3. probe \in [Probers -> ProbeSet]
    BY DEF TypeInv
  <2> DEFINE r == [probe[p] EXCEPT !.state = "idle", !.attempt = 0]
  <2>4. r \in ProbeSet
    BY <2>1, <2>3 DEF ProbeSet
  <2>5. probe' = [probe EXCEPT ![p] = r] \/ probe' = probe
    BY <1>3, <2>1, <2>3 DEF Answer
  <2> HIDE DEF r
  <2>6. probe' \in [Probers -> ProbeSet]
    BY <2>1, <2>3, <2>4, <2>5
  <2> QED BY <2>1, <2>2, <2>6 DEF Answered
<1> QED BY <1>2, <1>3

-----------------------------------------------------------------------------
(***************************************************************************)
(* The steps of a call: it goes on, or it answers with what the registry   *)
(* of its process knows by then.                                           *)
(***************************************************************************)
HasRow(t) == \E i \in DOMAIN table : table[i].print = t.print

GoesOn(p, c) ==
  /\ \E d \in CallSet :
       /\ d.n = c.n /\ d.line = c.line /\ d.job = c.job /\ OneTemplate(d)
       /\ d.at = "write" => d.found = {} \/ \A t \in d.template : HasRow(t)
       /\ calls' = [calls EXCEPT ![p] = (@ \ {c}) \cup {d}]
  /\ UNCHANGED <<parse, probe>>

AnswersFrom(p, c, reg) ==
  \E found \in SUBSET TemplateSet : (\A t \in found : Knows(reg, t)) /\ Answered(p, c, found)

LEMMA TemplateTyped ==
  ASSUME made \in Nat, NEW kind \in Kinds, NEW l \in AnyLine
  PROVE  Template(kind, l) \in TemplateSet
<1>1. made + 1 \in Nat
  OBVIOUS
<1>2. LinePrint(l) \in Prints
  BY DEF Prints
<1> QED BY <1>1, <1>2 DEF Template, TemplateSet

LEMMA MovesOn ==
  ASSUME TypeInv, NEW p \in Processes, NEW c \in calls[p],
         NEW at \in Places \ {"write"}, NEW d,
         \/ d = [c EXCEPT !.at = at]
         \/ \E kind \in Kinds : d = [c EXCEPT !.at = at, !.template = {Template(kind, c.line)}],
         Move(p, c, d), UNCHANGED <<parse, probe>>
  PROVE  GoesOn(p, c)
<1>1. c \in CallSet /\ OneTemplate(c) /\ made \in Nat
  BY DEF TypeInv
<1>2. CASE d = [c EXCEPT !.at = at]
  <2>1. d \in CallSet /\ d.n = c.n /\ d.line = c.line /\ d.job = c.job /\ d.template = c.template /\ d.at = at
    BY <1>1, <1>2 DEF CallSet
  <2>2. OneTemplate(d) /\ d.at # "write"
    BY <1>1, <2>1 DEF OneTemplate
  <2>3. calls' = [calls EXCEPT ![p] = (@ \ {c}) \cup {d}] /\ UNCHANGED <<parse, probe>>
    BY DEF Move
  <2> QED BY <2>1, <2>2, <2>3 DEF GoesOn
<1>3. CASE \E kind \in Kinds : d = [c EXCEPT !.at = at, !.template = {Template(kind, c.line)}]
  <2>1. PICK kind \in Kinds : d = [c EXCEPT !.at = at, !.template = {Template(kind, c.line)}]
    BY <1>3
  <2>2. Template(kind, c.line) \in TemplateSet
    <3>1. c.line \in AnyLine
      BY <1>1 DEF CallSet
    <3> QED BY <1>1, <3>1, TemplateTyped
  <2>3. d \in CallSet /\ d.n = c.n /\ d.line = c.line /\ d.job = c.job /\ d.at = at
        /\ d.template = {Template(kind, c.line)}
    BY <1>1, <2>1, <2>2 DEF CallSet
  <2>4. OneTemplate(d) /\ d.at # "write"
    BY <2>3 DEF OneTemplate
  <2>5. calls' = [calls EXCEPT ![p] = (@ \ {c}) \cup {d}] /\ UNCHANGED <<parse, probe>>
    BY DEF Move
  <2> QED BY <2>3, <2>4, <2>5 DEF GoesOn
<1> QED BY <1>2, <1>3

LEMMA DecidedEffect ==
  ASSUME TypeInv, NEW p \in Processes, NEW c \in calls[p], NEW reg \in Registry, Decided(p, c, reg)
  PROVE  made' \in Nat /\ (GoesOn(p, c) \/ AnswersFrom(p, c, reg))
<1>0. made \in Nat
  BY DEF TypeInv
<1>1. CASE c.line \in Csv
  <2>1. /\ made' = made + 1 /\ UNCHANGED <<parse, probe>>
        /\ Move(p, c, [c EXCEPT !.at = "find", !.template = {Template("record", c.line)}])
    BY <1>1 DEF Decided
  <2>2. "record" \in Kinds /\ "find" \in Places \ {"write"}
    BY DEF Kinds, Places
  <2>3. GoesOn(p, c)
    BY <2>1, <2>2, MovesOn
  <2> QED BY <1>0, <2>1, <2>3
<1>2. CASE c.line \notin Csv
  <2> DEFINE known == Registered(reg, c.line)
  <2>1. made' = made
    BY <1>2 DEF Decided
  <2>2. CASE known # {}
    <3>1. Answer(p, c, known)
      BY <1>2, <2>2 DEF Decided
    <3>2. \A t \in known : Knows(reg, t) /\ t \in TemplateSet
      BY RegisteredIsKnown, KnownIsTyped
    <3> HIDE DEF known
    <3>3. Answered(p, c, known)
      BY <3>1, <3>2, AnswerAnswers
    <3> QED BY <1>0, <2>1, <3>2, <3>3 DEF AnswersFrom
  <2>3. CASE known = {}
    <3>1. Move(p, c, [c EXCEPT !.at = "model"]) /\ UNCHANGED <<parse, probe>>
      BY <1>2, <2>3 DEF Decided
    <3>2. "model" \in Places \ {"write"}
      BY DEF Places
    <3> QED BY <1>0, <2>1, <3>1, <3>2, MovesOn
  <2> QED BY <2>2, <2>3
<1> QED BY <1>1, <1>2

-----------------------------------------------------------------------------
(***************************************************************************)
(* What a step of a call does to the table and to the registries.  The     *)
(* rows keep their fingerprints.                                           *)
(***************************************************************************)
InTable(t) == t.id \in unsaved \/ HasRow(t)

FoundInv ==
  \A p \in Processes : \A c \in calls[p] :
    c.at = "write" => c.found = {} \/ \A t \in c.template : HasRow(t)

RowsStay == unsaved \subseteq unsaved' /\ \A t : HasRow(t) => HasRow(t)'

Learned == \A q \in Processes : \A t : Knows(registry'[q], t) => Knows(registry[q], t) \/ InTable(t)'

CallEffect(p, c) ==
  /\ table' \in Seq(TemplateSet) /\ made' \in Nat /\ unsaved' \subseteq Nat
  /\ registry' \in [Processes -> Registry]
  /\ RowsStay /\ Learned
  /\ GoesOn(p, c) \/ AnswersFrom(p, c, registry'[p])

LEMMA NothingLearned ==
  ASSUME TypeInv, UNCHANGED <<table, registry, unsaved>>, NEW p \in Processes, NEW c \in calls[p],
         made' \in Nat, GoesOn(p, c) \/ AnswersFrom(p, c, registry[p])
  PROVE  CallEffect(p, c)
BY DEF CallEffect, TypeInv, RowsStay, Learned, HasRow

LEMMA AdmittedStep ==
  ASSUME TypeInv, NEW p \in Processes, NEW c \in calls[p], Admitted(p, c)
  PROVE  CallEffect(p, c)
<1>0. UNCHANGED <<table, registry, unsaved>> /\ made \in Nat /\ registry[p] \in Registry
  BY DEF Admitted, TypeInv
<1>1. CASE p \in Parsers /\ c.line \in Json
  <2>1. /\ calls' = [calls EXCEPT ![p] = @ \ {c}] /\ UNCHANGED <<made, probe>>
        /\ parse' = IF Awaited(p, c)
                    THEN [parse EXCEPT ![p] = Note(Charge(@, 1), c.n, "uncertain")] ELSE parse
    BY <1>1 DEF Admitted
  <2> DEFINE j == parse[p]
             m == Note(Charge(j, 1), Len(j.log), "uncertain")
  <2>2. j \in Job /\ parse \in [Parsers -> Job]
    BY <1>1 DEF TypeInv
  <2>3. Taught(j, j, c, {})
    BY <2>2 DEF Taught
  <2>4. CASE Awaited(p, c)
    <3>1. c.n = Len(j.log) /\ j.log # <<>> /\ "uncertain" \in Outcomes
      BY <1>1, <2>4 DEF Awaited, TypeInv, Outcomes
    <3>2. parse' = [parse EXCEPT ![p] = m]
      BY <1>1, <2>1, <2>2, <2>4, <3>1
    <3>3. Settles(j, m, "uncertain")
      BY <2>2, <3>1, JobSettles
    <3> HIDE DEF m
    <3>4. Answered(p, c, {})
      BY <1>1, <2>1, <2>3, <2>4, <3>2, <3>3 DEF Answered
    <3> QED BY <1>0, <2>1, <3>4, NothingLearned DEF AnswersFrom
  <2>5. CASE ~Awaited(p, c)
    <3>1. parse' = [parse EXCEPT ![p] = j]
      BY <1>1, <2>1, <2>2, <2>5
    <3>2. Answered(p, c, {})
      BY <1>1, <2>1, <2>3, <3>1 DEF Answered
    <3> QED BY <1>0, <2>1, <3>2, NothingLearned DEF AnswersFrom
  <2> QED BY <2>4, <2>5
<1>2. CASE ~(p \in Parsers /\ c.line \in Json)
  <2>1. Classifies(p, c)
    BY <1>2 DEF Admitted
  <2>2. CASE Decided(p, c, registry[p])
    BY <1>0, <2>2, DecidedEffect, NothingLearned
  <2>3. CASE ~Decided(p, c, registry[p])
    <3>1. Move(p, c, [c EXCEPT !.at = "load records"]) /\ UNCHANGED <<made, parse, probe>>
      BY <2>1, <2>3 DEF Classifies
    <3>2. "load records" \in Places \ {"write"}
      BY DEF Places
    <3>3. GoesOn(p, c)
      BY <3>1, <3>2, MovesOn
    <3> QED BY <1>0, <3>1, <3>3, NothingLearned
  <2> QED BY <2>2, <2>3
<1> QED BY <1>1, <1>2

LEMMA RecordsLoad ==
  ASSUME TypeInv, NEW p \in Processes, NEW c \in calls[p], LoadRecords(p, c)
  PROVE  CallEffect(p, c)
<1>0. UNCHANGED <<table, unsaved>> /\ made \in Nat /\ registry \in [Processes -> Registry]
      /\ table \in Seq(TemplateSet)
  BY DEF LoadRecords, TypeInv
<1>1. CASE Decided(p, c, registry[p]) /\ UNCHANGED registry
  <2>1. registry[p] \in Registry
    BY <1>0
  <2> QED BY <1>0, <1>1, <2>1, DecidedEffect, NothingLearned
<1>2. CASE ~(Decided(p, c, registry[p]) /\ UNCHANGED registry)
  <2> DEFINE cache == Loaded(registry[p].record, "record")
  <2>1. /\ registry' = [registry EXCEPT ![p].record = cache]
        /\ Move(p, c, [c EXCEPT !.at = "load rubbish"])
        /\ UNCHANGED <<made, parse, probe>>
    BY <1>0, <1>2 DEF LoadRecords
  <2>2. /\ cache \in Caches
        /\ \A u : In(cache, u) => In(registry[p].record, u) \/ \E i \in DOMAIN table : table[i] = u
    <3>1. registry[p].record \in Caches
      BY <1>0 DEF Registry
    <3> QED BY <1>0, <3>1, CacheLoaded
  <2> HIDE DEF cache
  <2>3. /\ registry' \in [Processes -> Registry]
        /\ \A q \in Processes : /\ registry'[q].rubbish = registry[q].rubbish
                                /\ registry'[q].record = IF q = p THEN cache ELSE registry[q].record
    BY <1>0, <2>1, <2>2 DEF Registry
  <2>4. Learned
    BY <1>0, <2>2, <2>3 DEF Learned, Knows, InTable, HasRow
  <2>5. "load rubbish" \in Places \ {"write"}
    BY DEF Places
  <2>6. GoesOn(p, c)
    BY <2>1, <2>5, MovesOn
  <2>7. RowsStay /\ unsaved' \subseteq Nat
    BY <1>0 DEF RowsStay, HasRow, TypeInv
  <2> QED BY <1>0, <2>1, <2>3, <2>4, <2>6, <2>7 DEF CallEffect
<1> QED BY <1>1, <1>2

LEMMA RubbishLoads ==
  ASSUME TypeInv, NEW p \in Processes, NEW c \in calls[p], LoadRubbish(p, c)
  PROVE  CallEffect(p, c)
<1>0. UNCHANGED <<table, unsaved>> /\ made \in Nat /\ registry \in [Processes -> Registry]
      /\ table \in Seq(TemplateSet) /\ unsaved \subseteq Nat
  BY DEF LoadRubbish, TypeInv
<1> DEFINE cache == Loaded(registry[p].rubbish, "rubbish")
<1>1. registry' = [registry EXCEPT ![p].rubbish = cache] \/ registry' = registry
  BY DEF LoadRubbish
<1>2. /\ cache \in Caches
      /\ \A u : In(cache, u) => In(registry[p].rubbish, u) \/ \E i \in DOMAIN table : table[i] = u
  <2>1. registry[p].rubbish \in Caches
    BY <1>0 DEF Registry
  <2> QED BY <1>0, <2>1, CacheLoaded
<1> HIDE DEF cache
<1>3. registry' \in [Processes -> Registry] /\ Learned
  <2>1. CASE registry' = registry
    BY <1>0, <2>1 DEF Learned
  <2>2. CASE registry' = [registry EXCEPT ![p].rubbish = cache]
    <3>1. /\ registry' \in [Processes -> Registry]
          /\ \A q \in Processes : /\ registry'[q].record = registry[q].record
                                  /\ registry'[q].rubbish = IF q = p THEN cache ELSE registry[q].rubbish
      BY <1>0, <1>2, <2>2 DEF Registry
    <3>2. Learned
      BY <1>0, <1>2, <3>1 DEF Learned, Knows, InTable, HasRow
    <3> QED BY <3>1, <3>2
  <2> QED BY <1>1, <2>1, <2>2
<1>4. Decided(p, c, registry'[p])
  BY DEF LoadRubbish
<1>5. PICK reg \in Registry : reg = registry'[p]
  BY <1>3
<1>6. made' \in Nat /\ (GoesOn(p, c) \/ AnswersFrom(p, c, reg))
  BY <1>4, <1>5, DecidedEffect
<1>7. RowsStay
  BY <1>0 DEF RowsStay, HasRow
<1> QED BY <1>0, <1>3, <1>5, <1>6, <1>7 DEF CallEffect

LEMMA ModelStep ==
  ASSUME TypeInv, NEW p \in Processes, NEW c \in calls[p], ModelAnswers(p, c)
  PROVE  CallEffect(p, c)
<1>0. UNCHANGED <<table, registry, unsaved>> /\ made \in Nat
  BY DEF ModelAnswers, TypeInv
<1>1. CASE Answer(p, c, {}) /\ UNCHANGED made
  <2>1. Answered(p, c, {})
    BY <1>1, AnswerAnswers
  <2> QED BY <1>0, <1>1, <2>1, NothingLearned DEF AnswersFrom
<1>2. CASE ~(Answer(p, c, {}) /\ UNCHANGED made)
  <2>1. PICK kind \in Kinds :
          Move(p, c, [c EXCEPT !.at = "find", !.template = {Template(kind, c.line)}])
    BY <1>2 DEF ModelAnswers, Kinds
  <2>2. made' = made + 1 /\ UNCHANGED <<parse, probe>>
    BY <1>2 DEF ModelAnswers
  <2>3. "find" \in Places \ {"write"}
    BY DEF Places
  <2>4. GoesOn(p, c)
    BY <2>1, <2>2, <2>3, MovesOn
  <2>5. made' \in Nat
    BY <1>0, <2>2
  <2> QED BY <1>0, <2>4, <2>5, NothingLearned
<1> QED BY <1>1, <1>2

LEMMA FindStep ==
  ASSUME TypeInv, NEW p \in Processes, NEW c \in calls[p], Find(p, c)
  PROVE  CallEffect(p, c)
<1>0. /\ UNCHANGED <<table, registry, unsaved, made, parse, probe>> /\ made \in Nat
      /\ table \in Seq(TemplateSet) /\ c \in CallSet /\ OneTemplate(c)
  BY DEF Find, TypeInv
<1> DEFINE rows == {table[i] : i \in {k \in DOMAIN table : \A t \in c.template : table[k].print = t.print}}
<1>1. PICK found \in IF rows = {} THEN {{}} ELSE {{r} : r \in rows} :
        Move(p, c, [c EXCEPT !.at = "write", !.found = found])
  BY DEF Find
<1>2. \A r \in rows : r \in TemplateSet /\ \A t \in c.template : HasRow(t)
  BY <1>0 DEF HasRow
<1> HIDE DEF rows
<1>3. found \in SUBSET TemplateSet /\ (found = {} \/ \A t \in c.template : HasRow(t))
  BY <1>2
<1> DEFINE d == [c EXCEPT !.at = "write", !.found = found]
<1>4. /\ d \in CallSet /\ d.n = c.n /\ d.line = c.line /\ d.job = c.job
      /\ d.template = c.template /\ d.found = found
  BY <1>0, <1>3 DEF CallSet, Places
<1>5. calls' = [calls EXCEPT ![p] = (@ \ {c}) \cup {d}]
  BY <1>1 DEF Move
<1> HIDE DEF d
<1>6. OneTemplate(d)
  BY <1>0, <1>4 DEF OneTemplate
<1>7. d.found = {} \/ \A t \in d.template : HasRow(t)
  BY <1>3, <1>4
<1>8. UNCHANGED <<parse, probe>>
  BY <1>0
<1>9. GoesOn(p, c)
  BY <1>4, <1>5, <1>6, <1>7, <1>8 DEF GoesOn
<1> QED BY <1>0, <1>9, NothingLearned

LEMMA RowTyped ==
  ASSUME NEW t \in TemplateSet, NEW old \in SUBSET TemplateSet
  PROVE  Row(t, old) \in TemplateSet /\ Row(t, old).print = t.print
<1>1. CASE old = {}
  <2>1. t.version + 1 \in Nat
    BY DEF TemplateSet
  <2>2. Row(t, old) = [t EXCEPT !.version = t.version + 1]
    BY <1>1 DEF Row
  <2> QED BY <2>1, <2>2 DEF TemplateSet
<1>2. CASE old # {}
  <2> DEFINE r == CHOOSE r \in old : TRUE
  <2>1. r \in TemplateSet
    BY <1>2
  <2>2. Row(t, old) = [t EXCEPT !.id = r.id, !.version = r.version + 1]
    BY <1>2 DEF Row
  <2> HIDE DEF r
  <2>3. r.id \in Nat /\ r.version + 1 \in Nat
    BY <2>1 DEF TemplateSet
  <2> QED BY <2>2, <2>3 DEF TemplateSet
<1> QED BY <1>1, <1>2

\* A template that is written has a row, if the row that was found is still there.
LEMMA WrittenIsThere ==
  ASSUME table \in Seq(TemplateSet), NEW t \in TemplateSet, NEW old \in SUBSET TemplateSet,
         old = {} \/ HasRow(t), table' = Written(t, old)
  PROVE  table' \in Seq(TemplateSet) /\ HasRow(t)' /\ \A u : HasRow(u) => HasRow(u)'
<1> DEFINE row == Row(t, old)
<1>1. row \in TemplateSet /\ row.print = t.print
  BY RowTyped
<1>2. CASE old = {}
  <2>1. table' = Append(table, row)
    BY <1>2 DEF Written
  <2> HIDE DEF row
  <2>2. /\ table' \in Seq(TemplateSet) /\ Len(table) + 1 \in DOMAIN table'
        /\ table'[Len(table) + 1] = row
        /\ \A i \in DOMAIN table : i \in DOMAIN table' /\ table'[i] = table[i]
    BY <1>1, <2>1
  <2> QED BY <1>1, <2>2 DEF HasRow
<1>3. CASE old # {}
  <2>1. table' = [i \in DOMAIN table |-> IF table[i].print = t.print THEN row ELSE table[i]]
    BY <1>3 DEF Written
  <2> HIDE DEF row
  <2>2. table' \in Seq(TemplateSet) /\ DOMAIN table' = DOMAIN table
    BY <1>1, <2>1
  <2>3. \A i \in DOMAIN table : table'[i].print = table[i].print
    BY <1>1, <2>1
  <2> QED BY <1>3, <2>2, <2>3 DEF HasRow
<1> QED BY <1>2, <1>3

LEMMA WriteStep ==
  ASSUME TypeInv, FoundInv, NEW p \in Processes, NEW c \in calls[p], Write(p, c)
  PROVE  CallEffect(p, c)
<1>0. /\ c.at = "write" /\ made' = made /\ made \in Nat /\ table \in Seq(TemplateSet)
      /\ unsaved \subseteq Nat
      /\ registry \in [Processes -> Registry] /\ c \in CallSet /\ OneTemplate(c)
  BY DEF Write, TypeInv
<1>1. c.template \in SUBSET TemplateSet /\ c.found \in SUBSET TemplateSet
  BY <1>0 DEF CallSet
<1>2. PICK t \in c.template :
        /\ \/ table' = Written(t, c.found) /\ UNCHANGED unsaved
           \/ unsaved' = unsaved \cup {t.id} /\ UNCHANGED table
        /\ Registers(p, t)
  BY DEF Write
<1>3. t \in TemplateSet /\ \A u \in c.template : u = t
  BY <1>0, <1>1, <1>2 DEF OneTemplate
<1>4. table' \in Seq(TemplateSet) /\ unsaved' \subseteq Nat /\ RowsStay /\ InTable(t)'
  <2>1. CASE table' = Written(t, c.found) /\ UNCHANGED unsaved
    <3>1. c.found = {} \/ HasRow(t)
      BY <1>0 DEF FoundInv
    <3> QED BY <1>0, <1>1, <1>3, <2>1, <3>1, WrittenIsThere DEF RowsStay, InTable
  <2>2. CASE unsaved' = unsaved \cup {t.id} /\ UNCHANGED table
    <3>1. t.id \in Nat
      BY <1>3 DEF TemplateSet
    <3> QED BY <1>0, <2>2, <3>1 DEF RowsStay, HasRow, InTable
  <2> QED BY <1>2, <2>1, <2>2
<1>5. /\ registry' \in [Processes -> Registry] /\ Knows(registry'[p], t)
      /\ \A q \in Processes : \A u : Knows(registry'[q], u) => Knows(registry[q], u) \/ u = t
  <2>1. CASE t.kind = "record"
    <3> DEFINE cache == With(registry[p].record, t)
    <3>1. registry' = [registry EXCEPT ![p].record = cache]
      BY <1>0, <1>2, <2>1 DEF Registers
    <3>2. cache \in Caches /\ In(cache, t) /\ \A u : In(cache, u) => u = t \/ In(registry[p].record, u)
      <4>1. registry[p].record \in Caches
        BY <1>0 DEF Registry
      <4> QED BY <1>3, <4>1, CacheWith
    <3> HIDE DEF cache
    <3>3. /\ registry' \in [Processes -> Registry]
          /\ \A q \in Processes : /\ registry'[q].rubbish = registry[q].rubbish
                                  /\ registry'[q].record = IF q = p THEN cache ELSE registry[q].record
      BY <1>0, <3>1, <3>2 DEF Registry
    <3> QED BY <3>2, <3>3 DEF Knows
  <2>2. CASE t.kind # "record"
    <3> DEFINE cache == With(registry[p].rubbish, t)
    <3>1. registry' = [registry EXCEPT ![p].rubbish = cache]
      BY <1>0, <1>2, <2>2 DEF Registers
    <3>2. cache \in Caches /\ In(cache, t) /\ \A u : In(cache, u) => u = t \/ In(registry[p].rubbish, u)
      <4>1. registry[p].rubbish \in Caches
        BY <1>0 DEF Registry
      <4> QED BY <1>3, <4>1, CacheWith
    <3> HIDE DEF cache
    <3>3. /\ registry' \in [Processes -> Registry]
          /\ \A q \in Processes : /\ registry'[q].record = registry[q].record
                                  /\ registry'[q].rubbish = IF q = p THEN cache ELSE registry[q].rubbish
      BY <1>0, <3>1, <3>2 DEF Registry
    <3> QED BY <3>2, <3>3 DEF Knows
  <2> QED BY <2>1, <2>2
<1>6. Learned
  BY <1>4, <1>5 DEF Learned
<1>7. Answered(p, c, c.template)
  BY <1>1, AnswerAnswers DEF Write
<1>8. AnswersFrom(p, c, registry'[p])
  BY <1>1, <1>3, <1>5, <1>7 DEF AnswersFrom
<1> QED BY <1>0, <1>4, <1>5, <1>6, <1>8 DEF CallEffect

LEMMA StepEffect ==
  ASSUME TypeInv, FoundInv, NEW p \in Processes, Step(p)
  PROVE  \E c \in calls[p] : CallEffect(p, c)
BY AdmittedStep, RecordsLoad, RubbishLoads, ModelStep, FindStep, WriteStep DEF Step

-----------------------------------------------------------------------------
(***************************************************************************)
(* Every step keeps the types, and a row that was found is still there     *)
(* when its template is written.                                           *)
(***************************************************************************)
LEMMA CallTypes ==
  ASSUME TypeInv, NEW p \in Processes, NEW c \in calls[p], CallEffect(p, c)
  PROVE  TypeInv'
<1>0. /\ calls \in [Processes -> SUBSET CallSet] /\ parse \in [Parsers -> Job]
      /\ probe \in [Probers -> ProbeSet]
      /\ \A q \in Processes : \A e \in calls[q] : OneTemplate(e)
      /\ \A q \in Parsers : parse[q].state = "waiting" => parse[q].log # <<>>
  BY DEF TypeInv
<1>1. CASE GoesOn(p, c)
  <2>1. PICK d \in CallSet : OneTemplate(d) /\ calls' = [calls EXCEPT ![p] = (@ \ {c}) \cup {d}]
    BY <1>1 DEF GoesOn
  <2>2. calls' \in [Processes -> SUBSET CallSet] /\ \A q \in Processes : \A e \in calls'[q] : OneTemplate(e)
    BY <1>0, <2>1
  <2>3. UNCHANGED <<parse, probe>>
    BY <1>1 DEF GoesOn
  <2> QED BY <1>0, <2>2, <2>3 DEF TypeInv, CallEffect, OneTemplate
<1>2. CASE AnswersFrom(p, c, registry'[p])
  <2>1. PICK found : Answered(p, c, found)
    BY <1>2 DEF AnswersFrom
  <2>2. calls' \in [Processes -> SUBSET CallSet] /\ \A q \in Processes : \A e \in calls'[q] : OneTemplate(e)
    BY <1>0, <2>1 DEF Answered
  <2>3. /\ parse' \in [Parsers -> Job] /\ probe' \in [Probers -> ProbeSet]
        /\ \A q \in Parsers : parse'[q].state = "waiting" => parse'[q].log # <<>>
    <3>1. CASE p \in Parsers /\ probe' = probe
      <4>1. CASE p \in Probers /\ parse' = parse /\ probe' \in [Probers -> ProbeSet]
        BY <1>0, <4>1
      <4>2. CASE ~(p \in Probers /\ parse' = parse /\ probe' \in [Probers -> ProbeSet])
        <5>1. PICK k, m : /\ Taught(parse[p], k, c, found)
                          /\ \/ m = k
                             \/ Settles(k, m, IF found = {} THEN "uncertain" ELSE "template")
                          /\ parse' = [parse EXCEPT ![p] = m]
          BY <2>1, <4>2 DEF Answered
        <5>2. m \in Job /\ (m.state = "waiting" => m.log # <<>>)
          BY <1>0, <3>1, <5>1 DEF Taught, Settles
        <5> QED BY <1>0, <3>1, <5>1, <5>2
      <4> QED BY <4>1, <4>2
    <3>2. CASE p \in Probers /\ parse' = parse /\ probe' \in [Probers -> ProbeSet]
      BY <1>0, <3>2
    <3> QED BY <2>1, <3>1, <3>2 DEF Answered
  <2> QED BY <2>2, <2>3 DEF TypeInv, CallEffect, OneTemplate
<1> QED BY <1>1, <1>2 DEF CallEffect

LEMMA FoundStays ==
  ASSUME TypeInv, FoundInv, NEW p \in Processes, NEW c \in calls[p], CallEffect(p, c)
  PROVE  FoundInv'
<1>0. calls \in [Processes -> SUBSET CallSet] /\ \A t : HasRow(t) => HasRow(t)'
  BY DEF TypeInv, CallEffect, RowsStay
<1>1. \A q \in Processes : \A e \in calls'[q] :
        \/ e \in calls[q]
        \/ e.at = "write" => e.found = {} \/ \A t \in e.template : HasRow(t)
  <2>1. CASE GoesOn(p, c)
    <3>1. PICK d : /\ d.at = "write" => d.found = {} \/ \A t \in d.template : HasRow(t)
                   /\ calls' = [calls EXCEPT ![p] = (@ \ {c}) \cup {d}]
      BY <2>1 DEF GoesOn
    <3>2. \A q \in Processes : \A e \in calls'[q] : e \in calls[q] \/ e = d
      BY <1>0, <3>1
    <3> QED BY <3>1, <3>2
  <2>2. CASE AnswersFrom(p, c, registry'[p])
    <3>1. calls' = [calls EXCEPT ![p] = @ \ {c}]
      BY <2>2 DEF AnswersFrom, Answered
    <3> QED BY <1>0, <3>1
  <2> QED BY <2>1, <2>2 DEF CallEffect
<1>2. SUFFICES ASSUME NEW q \in Processes, NEW e \in calls'[q], e.at = "write"
               PROVE  e.found = {} \/ \A t \in e.template : HasRow(t)'
  BY DEF FoundInv
<1>3. e.found = {} \/ \A t \in e.template : HasRow(t)
  BY <1>1, <1>2 DEF FoundInv
<1> QED BY <1>0, <1>3

\* A call that starts.
Starts(p, n, l, job) == calls' = [calls EXCEPT ![p] = @ \cup {Call(n, l, job)}]

LEMMA CallTyped ==
  ASSUME NEW n \in Nat, NEW l \in AnyLine, NEW job \in Nat
  PROVE  /\ Call(n, l, job) \in CallSet /\ OneTemplate(Call(n, l, job))
         /\ Call(n, l, job).at = "limiter" /\ Call(n, l, job).n = n
         /\ Call(n, l, job).line = l /\ Call(n, l, job).job = job
BY DEF Call, CallSet, OneTemplate, Places

LEMMA CallsStart ==
  ASSUME TypeInv, NEW p \in Processes, NEW n \in Nat, NEW l \in AnyLine, NEW job \in Nat,
         Starts(p, n, l, job) \/ UNCHANGED calls
  PROVE  /\ calls' \in [Processes -> SUBSET CallSet]
         /\ \A q \in Processes : \A e \in calls'[q] : OneTemplate(e)
         /\ FoundInv /\ UNCHANGED table => FoundInv'
<1>0. calls \in [Processes -> SUBSET CallSet] /\ \A q \in Processes : \A e \in calls[q] : OneTemplate(e)
  BY DEF TypeInv
<1>1. /\ DOMAIN calls' = Processes
      /\ \A q \in Processes : \A e \in calls'[q] :
            e \in calls[q] \/ (e \in CallSet /\ OneTemplate(e) /\ e.at = "limiter")
  <2>1. CASE Starts(p, n, l, job)
    <3> DEFINE d == Call(n, l, job)
    <3>1. calls' = [calls EXCEPT ![p] = @ \cup {d}]
      BY <2>1 DEF Starts
    <3>2. d \in CallSet /\ OneTemplate(d) /\ d.at = "limiter"
      BY CallTyped
    <3> HIDE DEF d
    <3>3. DOMAIN calls' = Processes /\ \A q \in Processes : \A e \in calls'[q] : e \in calls[q] \/ e = d
      BY <1>0, <3>1
    <3> QED BY <3>2, <3>3
  <2>2. CASE UNCHANGED calls
    BY <1>0, <2>2
  <2> QED BY <2>1, <2>2
<1>2. /\ calls' \in [Processes -> SUBSET CallSet]
      /\ \A q \in Processes : \A e \in calls'[q] : OneTemplate(e)
  <2>1. calls' = [q \in Processes |-> calls'[q]]
    <3>1. CASE Starts(p, n, l, job)
      BY <1>0, <3>1 DEF Starts
    <3> QED BY <1>0, <3>1
  <2> QED BY <1>0, <1>1, <2>1
<1>3. ASSUME FoundInv, UNCHANGED table PROVE FoundInv'
  <2>1. SUFFICES ASSUME NEW q \in Processes, NEW e \in calls'[q], e.at = "write"
                 PROVE  e.found = {} \/ \A t \in e.template : HasRow(t)'
    BY DEF FoundInv
  <2>2. e \in calls[q]
    BY <1>1, <2>1
  <2> QED BY <1>3, <2>1, <2>2 DEF FoundInv, HasRow
<1> QED BY <1>2, <1>3

LEMMA JobIsNew ==
  ASSUME registry \in [Processes -> Registry], NEW p \in Parsers, NEW n \in Nat, NEW lines \in Nat
  PROVE  LET j == NewJob(p, n, lines)
         IN  /\ j \in Job /\ j.job = n /\ j.state = "idle" /\ j.log = <<>>
             /\ \A t \in j.learned : Knows(registry[p], t)
<1>1. registry[p] \in Registry
  BY DEF Processes
<1> DEFINE learned == {registry[p].record[q] : q \in DOMAIN registry[p].record}
                 \cup {registry[p].rubbish[q] : q \in DOMAIN registry[p].rubbish}
           j == NewJob(p, n, lines)
<1>2. \A t \in learned : Knows(registry[p], t)
  BY DEF Knows, In
<1>3. \A t \in learned : t \in TemplateSet
  BY <1>1, <1>2, KnownIsTyped
<1> HIDE DEF learned
<1>4. j = [job |-> n, state |-> "idle", lines |-> lines, aiCalls |-> 0,
           log |-> <<>>, cache |-> <<>>, learned |-> learned]
  BY DEF NewJob, learned
<1> HIDE DEF j
<1>5. <<>> \in [{} -> TemplateSet] /\ {} \in SUBSET Shapes /\ <<>> \in Seq(Asked)
  OBVIOUS
<1>6. <<>> \in UNION {[S -> TemplateSet] : S \in SUBSET Shapes}
  BY <1>5
<1>7. learned \in SUBSET TemplateSet
  BY <1>3
<1>8. j \in Job
  BY <1>4, <1>5, <1>6, <1>7 DEF Job
<1>9. j.job = n /\ j.state = "idle" /\ j.log = <<>> /\ j.learned = learned
  BY <1>4
<1> QED BY <1>2, <1>8, <1>9 DEF j

LEMMA TypesInit == Init => TypeInv /\ FoundInv
<1> SUFFICES ASSUME Init PROVE TypeInv /\ FoundInv
  OBVIOUS
<1>1. <<>> \in [{} -> TemplateSet] /\ <<>> \in Seq(TemplateSet)
  OBVIOUS
<1>2. <<>> \in Caches
  BY <1>1 DEF Caches
<1>3. registry \in [Processes -> Registry]
  BY <1>2 DEF Init, Registry
<1>4. \A p \in Parsers : NewJob(p, 1, 0) \in Job /\ NewJob(p, 1, 0).state = "idle"
  BY <1>3, JobIsNew
<1>5. parse = [p \in Parsers |-> NewJob(p, 1, 0)]
  BY DEF Init
<1>6. parse \in [Parsers -> Job] /\ \A p \in Parsers : parse[p].state = "idle"
  BY <1>4, <1>5
<1> DEFINE r == [state |-> "idle", line |-> CHOOSE l \in Lines : TRUE, attempt |-> 0, seen |-> {}]
<1>7. r \in ProbeSet
  BY DEF ProbeSet, AnyLine
<1>8. probe = [p \in Probers |-> r]
  BY DEF Init
<1> HIDE DEF r
<1>9. probe \in [Probers -> ProbeSet]
  BY <1>7, <1>8
<1>10. calls = [p \in Processes |-> {}] /\ table = <<>> /\ made = 0 /\ unsaved = {}
  BY DEF Init
<1> QED BY <1>1, <1>3, <1>6, <1>9, <1>10 DEF TypeInv, FoundInv

\* The line is read, and open in the log.
Opened(j, n, l) ==
  [j EXCEPT !.lines = n, !.state = "waiting", !.log = Append(@, [line |-> l, outcome |-> "open"])]

\* The steps of a parser other than those of its calls: a new job, a line read without a
\* call, a line asked for, a line given up.
ReaderMoves(p) ==
  /\ UNCHANGED <<table, registry, made, unsaved, probe>>
  /\ \E m \in Job :
       /\ parse' = [parse EXCEPT ![p] = m]
       /\ \/ /\ m = NewJob(p, parse[p].job + 1, parse[p].lines) /\ UNCHANGED calls
             /\ parse[p].state = "idle"
          \/ /\ \E n \in Nat : m = [parse[p] EXCEPT !.lines = n]
             /\ parse[p].state = "idle" /\ UNCHANGED calls
          \/ /\ parse[p].state = "idle"
             /\ \E l \in Parsed, n \in Nat :
                  /\ m = Opened(parse[p], n, l)
                  /\ Cached(parse[p], l) = {}
                  /\ Starts(p, Len(parse[p].log) + 1, l, parse[p].job)
          \/ /\ parse[p].state = "waiting" /\ UNCHANGED calls
             /\ Settles(parse[p], m, "timeout")

LEMMA StartsJob ==
  ASSUME TypeInv, NEW p \in Parsers, StartJob(p)
  PROVE  ReaderMoves(p)
<1>1. parse[p].job + 1 \in Nat /\ parse[p].lines \in Nat
  BY DEF TypeInv, Job
<1> DEFINE m == NewJob(p, parse[p].job + 1, parse[p].lines)
<1>2. m \in Job
  BY <1>1, JobIsNew DEF TypeInv
<1>3. /\ parse' = [parse EXCEPT ![p] = m] /\ UNCHANGED <<table, registry, made, unsaved, probe, calls>>
      /\ parse[p].state = "idle"
  BY DEF StartJob
<1> HIDE DEF m
<1>4. m = NewJob(p, parse[p].job + 1, parse[p].lines)
  BY DEF m
<1> QED BY <1>2, <1>3, <1>4 DEF ReaderMoves

LEMMA ReadsLine ==
  ASSUME TypeInv, NEW p \in Parsers, ReadLine(p)
  PROVE  ReaderMoves(p)
<1>1. parse[p].lines + 1 \in Nat /\ parse[p] \in Job
  BY DEF TypeInv, Job
<1>2. PICK n \in Nat : n = parse[p].lines + 1
  BY <1>1
<1>3. PICK m : m = [parse[p] EXCEPT !.lines = n]
  OBVIOUS
<1>4. m \in Job
  BY <1>1, <1>3 DEF Job
<1>5. parse' = [parse EXCEPT ![p] = m]
  BY <1>2, <1>3 DEF ReadLine
<1>6. parse[p].state = "idle" /\ UNCHANGED <<table, registry, made, unsaved, probe, calls>>
  BY DEF ReadLine
<1> QED BY <1>3, <1>4, <1>5, <1>6 DEF ReaderMoves

LEMMA AsksForLine ==
  ASSUME TypeInv, NEW p \in Parsers, AskForLine(p)
  PROVE  ReaderMoves(p)
<1>1. parse[p].lines + 1 \in Nat /\ parse[p] \in Job /\ parse[p].log \in Seq(Asked)
      /\ parse \in [Parsers -> Job]
  BY DEF TypeInv, Job
<1>2. PICK n \in Nat : n = parse[p].lines + 1
  BY <1>1
<1>3. PICK l \in Parsed :
        /\ Cached(parse[p], l) = {}
        /\ parse' = [parse EXCEPT ![p].lines = @ + 1, ![p].state = "waiting",
                                  ![p].log = Append(@, [line |-> l, outcome |-> "open"])]
        /\ calls' = [calls EXCEPT ![p] = @ \cup {Call(Len(parse[p].log) + 1, l, parse[p].job)}]
  BY DEF AskForLine
<1>4. l \in AnyLine
  BY TemplatesAssumption DEF TemplatesAssumption, AnyLine
<1> DEFINE log == Append(parse[p].log, [line |-> l, outcome |-> "open"])
<1>5. log \in Seq(Asked)
  <2>1. [line |-> l, outcome |-> "open"] \in Asked
    BY <1>4 DEF Asked, Outcomes
  <2> QED BY <1>1, <2>1
<1>6. PICK m : m = [parse[p] EXCEPT !.lines = n, !.state = "waiting", !.log = log]
  OBVIOUS
<1>7. m = Opened(parse[p], n, l)
  BY <1>6 DEF Opened
<1>8. parse' = [parse EXCEPT ![p] = m]
  BY <1>1, <1>2, <1>3, <1>6
<1> HIDE DEF log
<1>9. m \in Job
  BY <1>1, <1>5, <1>6 DEF Job
<1>10. parse[p].state = "idle" /\ UNCHANGED <<table, registry, made, unsaved, probe>>
  BY DEF AskForLine
<1>11. Starts(p, Len(parse[p].log) + 1, l, parse[p].job)
  BY <1>3 DEF Starts
<1> QED BY <1>3, <1>7, <1>8, <1>9, <1>10, <1>11 DEF ReaderMoves

LEMMA GivesUpLine ==
  ASSUME TypeInv, NEW p \in Parsers, GiveUpLine(p)
  PROVE  ReaderMoves(p)
<1>1. parse[p].state = "waiting" /\ parse[p].log # <<>> /\ parse[p] \in Job
  BY DEF GiveUpLine, TypeInv
<1> DEFINE m == Note(Charge(parse[p], 0), Len(parse[p].log), "timeout")
<1>2. Settles(parse[p], m, "timeout")
  BY <1>1, JobSettles DEF Outcomes
<1>3. parse' = [parse EXCEPT ![p] = m]
  BY DEF GiveUpLine
<1>4. UNCHANGED <<table, registry, made, unsaved, probe, calls>>
  BY DEF GiveUpLine
<1> HIDE DEF m
<1>5. m \in Job
  BY <1>2 DEF Settles
<1> QED BY <1>1, <1>2, <1>3, <1>4, <1>5 DEF ReaderMoves

LEMMA ReaderTypes ==
  ASSUME TypeInv, FoundInv, NEW p \in Parsers, ReaderMoves(p)
  PROVE  TypeInv' /\ FoundInv'
<1>0. /\ parse \in [Parsers -> Job] /\ parse[p] \in Job /\ p \in Processes
      /\ \A q \in Parsers : parse[q].state = "waiting" => parse[q].log # <<>>
  BY DEF TypeInv, Processes
<1>1. /\ parse' \in [Parsers -> Job]
      /\ \A q \in Parsers : parse'[q].state = "waiting" => parse'[q].log # <<>>
  <2>1. PICK m \in Job :
          /\ parse' = [parse EXCEPT ![p] = m]
          /\ \/ m = NewJob(p, parse[p].job + 1, parse[p].lines)
             \/ (\E n \in Nat : m = [parse[p] EXCEPT !.lines = n]) /\ parse[p].state = "idle"
             \/ \E l \in Parsed, n \in Nat :
                  m = Opened(parse[p], n, l)
             \/ Settles(parse[p], m, "timeout")
    BY DEF ReaderMoves
  <2>2. m.state = "waiting" => m.log # <<>>
    <3>1. CASE m = NewJob(p, parse[p].job + 1, parse[p].lines)
      BY <3>1 DEF NewJob
    <3>2. CASE (\E n \in Nat : m = [parse[p] EXCEPT !.lines = n]) /\ parse[p].state = "idle"
      BY <1>0, <3>2 DEF Job
    <3>3. CASE \E l \in Parsed, n \in Nat :
                 m = Opened(parse[p], n, l)
      <4>1. PICK l \in Parsed, n \in Nat :
                 m = Opened(parse[p], n, l)
        BY <3>3
      <4>2. parse[p].log \in Seq(Asked) /\ m.log = Append(parse[p].log, [line |-> l, outcome |-> "open"])
        BY <1>0, <4>1 DEF Job, Opened
      <4> QED BY <4>2
    <3>4. CASE Settles(parse[p], m, "timeout")
      BY <3>4 DEF Settles
    <3> QED BY <2>1, <3>1, <3>2, <3>3, <3>4
  <2> QED BY <1>0, <2>1, <2>2
<1>2. UNCHANGED <<table, registry, made, unsaved, probe>>
  BY DEF ReaderMoves
<1>3. \E n \in Nat, l \in AnyLine, job \in Nat : Starts(p, n, l, job) \/ UNCHANGED calls
  <2>1. Len(parse[p].log) + 1 \in Nat /\ parse[p].job \in Nat
    <3>1. parse[p].log \in Seq(Asked)
      BY <1>0 DEF Job
    <3> QED BY <1>0, <3>1 DEF Job
  <2>2. Parsed \subseteq AnyLine /\ (CHOOSE l \in Lines : TRUE) \in AnyLine
    BY TemplatesAssumption DEF TemplatesAssumption, AnyLine
  <2>3. UNCHANGED calls \/ \E l \in Parsed : Starts(p, Len(parse[p].log) + 1, l, parse[p].job)
    BY DEF ReaderMoves
  <2> QED BY <2>1, <2>2, <2>3
<1>4. /\ calls' \in [Processes -> SUBSET CallSet] /\ FoundInv'
      /\ \A q \in Processes : \A e \in calls'[q] : OneTemplate(e)
  BY <1>0, <1>2, <1>3, CallsStart
<1> QED BY <1>1, <1>2, <1>4 DEF TypeInv, OneTemplate

\* A window of a probe, and the time limit of an attempt.
ProberMoves(p) ==
  /\ UNCHANGED <<table, registry, made, unsaved, parse>>
  /\ probe' \in [Probers -> ProbeSet]
  /\ \/ UNCHANGED calls
     \/ \E n \in Nat, l \in AnyLine : Starts(p, n, l, 0)

LEMMA ProbesWindow ==
  ASSUME TypeInv, NEW p \in Probers, ProbeWindow(p)
  PROVE  ProberMoves(p)
<1>0. probe \in [Probers -> ProbeSet] /\ probe[p] \in ProbeSet
  BY DEF TypeInv
<1>1. PICK l \in Probed :
        LET known == ByFingerprint(registry[p], ProbePrint(l))
            q == [probe[p] EXCEPT !.seen = @ \cup {ProbePrint(l)}, !.line = l, !.attempt = 1]
        IN  IF known # {}
            THEN probe' = [probe EXCEPT ![p] = [q EXCEPT !.attempt = 0]] /\ UNCHANGED calls
            ELSE /\ probe' = [probe EXCEPT ![p] = [q EXCEPT !.state = "waiting"]]
                 /\ Begin(p, 1, l)
  BY DEF ProbeWindow
<1>2. l \in Lines /\ l \in AnyLine
  BY TemplatesAssumption DEF TemplatesAssumption, AnyLine
<1> DEFINE seen == probe[p].seen \cup {ProbePrint(l)}
           q == [probe[p] EXCEPT !.seen = seen, !.line = l, !.attempt = 1]
<1>3. seen \in SUBSET {ProbePrint(k) : k \in Lines}
  BY <1>0, <1>2 DEF ProbeSet
<1> HIDE DEF seen
<1>4. q \in ProbeSet
  BY <1>0, <1>2, <1>3 DEF ProbeSet
<1>5. \/ probe' = [probe EXCEPT ![p] = [q EXCEPT !.attempt = 0]] /\ UNCHANGED calls
      \/ probe' = [probe EXCEPT ![p] = [q EXCEPT !.state = "waiting"]] /\ Begin(p, 1, l)
  BY <1>1 DEF seen
<1> HIDE DEF q
<1>6. [q EXCEPT !.attempt = 0] \in ProbeSet /\ [q EXCEPT !.state = "waiting"] \in ProbeSet
  BY <1>4 DEF ProbeSet
<1>7. probe' \in [Probers -> ProbeSet]
  BY <1>0, <1>5, <1>6
<1>8. UNCHANGED <<table, registry, made, unsaved, parse>>
  BY DEF ProbeWindow
<1> QED BY <1>2, <1>5, <1>7, <1>8 DEF ProberMoves, Begin, Starts

LEMMA GivesUpAttempt ==
  ASSUME TypeInv, NEW p \in Probers, GiveUpAttempt(p)
  PROVE  ProberMoves(p)
<1>0. probe \in [Probers -> ProbeSet] /\ probe[p] \in ProbeSet
  BY DEF TypeInv
<1>1. PICK n \in Nat : n = probe[p].attempt + 1
  <2>1. probe[p].attempt \in Nat
    BY <1>0 DEF ProbeSet
  <2> QED BY <2>1
<1>2. \/ probe' = [probe EXCEPT ![p].attempt = n] /\ Begin(p, n, probe[p].line)
      \/ probe' = [probe EXCEPT ![p].state = "failed"] /\ UNCHANGED calls
  BY <1>1 DEF GiveUpAttempt
<1>3. [probe[p] EXCEPT !.attempt = n] \in ProbeSet /\ [probe[p] EXCEPT !.state = "failed"] \in ProbeSet
  BY <1>0 DEF ProbeSet
<1>4. probe' \in [Probers -> ProbeSet]
  BY <1>0, <1>2, <1>3
<1>5. probe[p].line \in AnyLine
  BY <1>0 DEF ProbeSet
<1>6. UNCHANGED <<table, registry, made, unsaved, parse>>
  BY DEF GiveUpAttempt
<1> QED BY <1>2, <1>4, <1>5, <1>6 DEF ProberMoves, Begin, Starts

LEMMA ProberTypes ==
  ASSUME TypeInv, FoundInv, NEW p \in Probers, ProberMoves(p)
  PROVE  TypeInv' /\ FoundInv'
<1>0. p \in Processes /\ UNCHANGED <<table, registry, made, unsaved, parse>> /\ probe' \in [Probers -> ProbeSet]
  BY DEF Processes, ProberMoves
<1>1. \E n \in Nat, l \in AnyLine, job \in Nat : Starts(p, n, l, job) \/ UNCHANGED calls
  BY DEF ProberMoves, AnyLine
<1>2. /\ calls' \in [Processes -> SUBSET CallSet] /\ FoundInv'
      /\ \A q \in Processes : \A e \in calls'[q] : OneTemplate(e)
  BY <1>0, <1>1, CallsStart
<1> QED BY <1>0, <1>2 DEF TypeInv, OneTemplate

\* What a step does, whichever it is.
Effect ==
  \/ \E p \in Parsers : ReaderMoves(p)
  \/ \E p \in Probers : ProberMoves(p)
  \/ \E p \in Processes : \E c \in calls[p] : CallEffect(p, c)

LEMMA NextEffect ==
  ASSUME TypeInv, FoundInv, Next
  PROVE  Effect
<1>1. ASSUME NEW p \in Parsers, StartJob(p) \/ ReadLine(p) \/ AskForLine(p) \/ GiveUpLine(p)
      PROVE  ReaderMoves(p)
  BY <1>1, StartsJob, ReadsLine, AsksForLine, GivesUpLine
<1>2. ASSUME NEW p \in Probers, ProbeWindow(p) \/ GiveUpAttempt(p) PROVE ProberMoves(p)
  BY <1>2, ProbesWindow, GivesUpAttempt
<1>3. ASSUME NEW p \in Processes, Step(p) PROVE \E c \in calls[p] : CallEffect(p, c)
  BY <1>3, StepEffect
<1> QED BY <1>1, <1>2, <1>3 DEF Next, Effect

LEMMA TypesStay == TypeInv /\ FoundInv /\ [Next]_vars => TypeInv' /\ FoundInv'
<1> SUFFICES ASSUME TypeInv, FoundInv, [Next]_vars PROVE TypeInv' /\ FoundInv'
  OBVIOUS
<1>1. CASE Next
  <2>1. Effect
    BY <1>1, NextEffect
  <2> QED BY <2>1, ReaderTypes, ProberTypes, CallTypes, FoundStays DEF Effect
<1>2. CASE UNCHANGED vars
  BY <1>2 DEF vars, TypeInv, FoundInv, OneTemplate, HasRow
<1> QED BY <1>1, <1>2

\* The types of the model, and the row that a call found for its fingerprint is still in the
\* table when the call writes it (saveTemplate reads and writes in two statements).
THEOREM WellTyped == Spec => [](TypeInv /\ FoundInv)
<1>1. Init => TypeInv /\ FoundInv
  BY TypesInit
<1> QED BY <1>1, TypesStay, PTL DEF Spec

-----------------------------------------------------------------------------
(***************************************************************************)
(* What a process knows is in the table.                                   *)
(***************************************************************************)
SavedInv ==
  /\ \A p \in Processes : \A t : Knows(registry[p], t) => InTable(t)
  /\ \A p \in Parsers : \A t \in parse[p].learned : InTable(t)

LEMMA SavedByCalls ==
  ASSUME TypeInv, SavedInv, NEW p \in Processes, NEW c \in calls[p], CallEffect(p, c)
  PROVE  SavedInv'
<1>0. parse \in [Parsers -> Job]
  BY DEF TypeInv
<1>1. \A t : InTable(t) => InTable(t)'
  BY DEF CallEffect, RowsStay, InTable
<1>2. \A q \in Processes : \A t : Knows(registry'[q], t) => InTable(t)'
  BY <1>1 DEF CallEffect, Learned, SavedInv
<1>3. ASSUME NEW q \in Parsers, NEW t \in parse'[q].learned PROVE InTable(t)'
  <2>1. CASE t \in parse[q].learned
    BY <1>1, <2>1 DEF SavedInv
  <2>2. CASE t \notin parse[q].learned
    <3>1. AnswersFrom(p, c, registry'[p])
      BY <1>3, <2>2 DEF CallEffect, GoesOn
    <3>2. PICK found : (\A u \in found : Knows(registry'[p], u)) /\ Answered(p, c, found)
      BY <3>1 DEF AnswersFrom
    <3>3. PICK k, m : /\ Taught(parse[p], k, c, found)
                      /\ \/ m = k
                         \/ Settles(k, m, IF found = {} THEN "uncertain" ELSE "template")
                      /\ parse' = [parse EXCEPT ![p] = m]
      BY <1>3, <2>2, <3>2 DEF Answered
    <3>4. q = p /\ t \in m.learned
      BY <1>0, <1>3, <2>2, <3>3
    <3>5. t \in found
      BY <2>2, <3>3, <3>4 DEF Taught, Settles
    <3> QED BY <1>2, <3>2, <3>5
  <2> QED BY <2>1, <2>2
<1> QED BY <1>2, <1>3 DEF SavedInv

LEMMA SavedByReaders ==
  ASSUME TypeInv, SavedInv, NEW p \in Parsers, ReaderMoves(p)
  PROVE  SavedInv'
<1>0. /\ parse \in [Parsers -> Job] /\ parse[p] \in Job /\ p \in Processes
      /\ registry \in [Processes -> Registry]
  BY DEF TypeInv, Processes
<1>1. \A t : InTable(t) => InTable(t)'
  BY DEF ReaderMoves, InTable, HasRow
<1>2. \A q \in Processes : \A t : Knows(registry'[q], t) => InTable(t)'
  BY <1>1 DEF ReaderMoves, SavedInv
<1>3. PICK m \in Job :
        /\ parse' = [parse EXCEPT ![p] = m]
        /\ \/ m = NewJob(p, parse[p].job + 1, parse[p].lines)
           \/ \E n \in Nat : m = [parse[p] EXCEPT !.lines = n]
           \/ \E l \in Parsed, n \in Nat :
                m = Opened(parse[p], n, l)
           \/ Settles(parse[p], m, "timeout")
  BY DEF ReaderMoves
<1>4. \A t \in m.learned : InTable(t)
  <2>1. CASE m = NewJob(p, parse[p].job + 1, parse[p].lines)
    <3>1. parse[p].job + 1 \in Nat /\ parse[p].lines \in Nat
      BY <1>0 DEF Job
    <3>2. \A t \in m.learned : Knows(registry[p], t)
      BY <1>0, <2>1, <3>1, JobIsNew
    <3> QED BY <1>0, <3>2 DEF SavedInv
  <2>2. CASE m # NewJob(p, parse[p].job + 1, parse[p].lines)
    <3>1. m.learned = parse[p].learned
      BY <1>0, <1>3, <2>2 DEF Job, Settles, Opened
    <3> QED BY <3>1 DEF SavedInv
  <2> QED BY <2>1, <2>2
<1>5. \A q \in Parsers : \A t \in parse'[q].learned : InTable(t)
  BY <1>0, <1>3, <1>4 DEF SavedInv
<1> QED BY <1>1, <1>2, <1>5 DEF SavedInv

LEMMA SavedStays == TypeInv /\ FoundInv /\ SavedInv /\ [Next]_vars => SavedInv'
<1> SUFFICES ASSUME TypeInv, FoundInv, SavedInv, [Next]_vars PROVE SavedInv'
  OBVIOUS
<1>1. CASE Next
  <2>1. Effect
    BY <1>1, NextEffect
  <2>2. ASSUME NEW p \in Probers, ProberMoves(p) PROVE SavedInv'
    BY <2>2 DEF ProberMoves, SavedInv, InTable, HasRow
  <2> QED BY <2>1, <2>2, SavedByReaders, SavedByCalls DEF Effect
<1>2. CASE UNCHANGED vars
  BY <1>2 DEF vars, SavedInv, InTable, HasRow
<1> QED BY <1>1, <1>2

LEMMA SavedInit == Init => SavedInv
<1> SUFFICES ASSUME Init PROVE SavedInv
  OBVIOUS
<1>1. \A p \in Processes : \A t : ~Knows(registry[p], t)
  BY DEF Init, Knows, In
<1>2. TypeInv
  BY TypesInit
<1>3. \A p \in Parsers : \A t \in parse[p].learned : Knows(registry[p], t)
  BY <1>2, JobIsNew DEF Init, TypeInv
<1> QED BY <1>1, <1>3 DEF SavedInv, Processes

\* persistAndRegisterTemplate saves before it registers: a template that a registry or a job's
\* classifier holds is in the table under its fingerprint, or its own save failed.
THEOREM TemplatesAreSaved == Spec => []SavedBeforeUsed
<1>1. Init => SavedInv
  BY SavedInit
<1>2. TypeInv /\ SavedInv => SavedBeforeUsed
  BY DEF SavedInv, SavedBeforeUsed, InTable, HasRow, Knows, In
<1> QED BY <1>1, <1>2, SavedStays, WellTyped, PTL DEF Spec

-----------------------------------------------------------------------------
(***************************************************************************)
(* A job asks again only for a shape that got no template.  Only the last  *)
(* line is open, and only while the parser waits; the shape of a line with *)
(* a template is cached; a call of the job knows the line it is for.       *)
(***************************************************************************)
LogFits(j) ==
  /\ \A i \in DOMAIN j.log :
       /\ j.log[i].outcome = "open" => j.state = "waiting" /\ i = Len(j.log)
       /\ j.log[i].outcome = "template" => Shape[j.log[i].line] \in DOMAIN j.cache
  /\ \A i, k \in DOMAIN j.log :
       (i < k /\ Shape[j.log[i].line] = Shape[j.log[k].line]) =>
         j.log[i].outcome \in {"timeout", "uncertain"}

CallFits(j, c) ==
  /\ c.job <= j.job
  /\ c.job = j.job => c.n \in DOMAIN j.log /\ j.log[c.n].line = c.line

LogInv == \A p \in Parsers : LogFits(parse[p]) /\ \A c \in calls[p] : CallFits(parse[p], c)

LEMMA FitsWhenSettled ==
  ASSUME NEW j \in Job, j.log # <<>>, LogFits(j), NEW m,
         NEW outcome \in {"uncertain", "template", "timeout"}, Settles(j, m, outcome),
         outcome = "template" => Shape[j.log[Len(j.log)].line] \in DOMAIN j.cache
  PROVE  LogFits(m) /\ \A c : CallFits(j, c) => CallFits(m, c)
<1>1. DOMAIN j.log = 1 .. Len(j.log) /\ Len(j.log) \in Nat
  <2>1. j.log \in Seq(Asked)
    BY DEF Job
  <2> QED BY <2>1
<1>2. /\ m.job = j.job /\ m.cache = j.cache /\ DOMAIN m.log = DOMAIN j.log
      /\ \A i \in DOMAIN j.log :
           /\ m.log[i].line = j.log[i].line
           /\ m.log[i].outcome = IF i = Len(j.log) THEN outcome ELSE j.log[i].outcome
  BY DEF Settles
<1>3. ASSUME NEW i \in DOMAIN m.log
      PROVE  /\ m.log[i].outcome # "open"
             /\ m.log[i].outcome = "template" => Shape[m.log[i].line] \in DOMAIN m.cache
  <2>1. CASE i = Len(j.log)
    BY <1>2, <1>3, <2>1
  <2>2. CASE i # Len(j.log)
    BY <1>2, <1>3, <2>2 DEF LogFits
  <2> QED BY <2>1, <2>2
<1>4. ASSUME NEW i \in DOMAIN m.log, NEW k \in DOMAIN m.log, i < k,
             Shape[m.log[i].line] = Shape[m.log[k].line]
      PROVE  m.log[i].outcome \in {"timeout", "uncertain"}
  <2>1. i # Len(j.log)
    BY <1>1, <1>2, <1>4
  <2>2. m.log[i].outcome = j.log[i].outcome /\ Shape[j.log[i].line] = Shape[j.log[k].line]
    BY <1>2, <1>4, <2>1
  <2>3. i \in DOMAIN j.log /\ k \in DOMAIN j.log
    BY <1>2, <1>4
  <2>4. j.log[i].outcome \in {"timeout", "uncertain"}
    BY <1>4, <2>2, <2>3 DEF LogFits
  <2> QED BY <2>2, <2>4
<1>5. LogFits(m)
  BY <1>3, <1>4 DEF LogFits
<1>6. \A c : CallFits(j, c) => CallFits(m, c)
  BY <1>2 DEF CallFits
<1> QED BY <1>5, <1>6

LEMMA FitsWhenTaught ==
  ASSUME NEW j, LogFits(j), NEW k, NEW c, NEW found, Taught(j, k, c, found)
  PROVE  LogFits(k) /\ \A d : CallFits(j, d) => CallFits(k, d)
<1>1. k.job = j.job /\ k.state = j.state /\ k.log = j.log /\ DOMAIN j.cache \subseteq DOMAIN k.cache
  BY DEF Taught
<1>2. LogFits(k)
  BY <1>1 DEF LogFits
<1>3. \A d : CallFits(j, d) => CallFits(k, d)
  BY <1>1 DEF CallFits
<1> QED BY <1>2, <1>3

LEMMA FitsWhenAsked ==
  ASSUME NEW j \in Job, j.state = "idle", LogFits(j), NEW l \in Lines, NEW n \in Nat,
         Cached(j, l) = {}, NEW m,
         m = Opened(j, n, l)
  PROVE  /\ LogFits(m) /\ \A c : CallFits(j, c) => CallFits(m, c)
         /\ CallFits(m, Call(Len(j.log) + 1, l, j.job))
<1> DEFINE last == Len(j.log) + 1
<1>1. j.log \in Seq(Asked) /\ j.job \in Nat
  BY DEF Job
<1>2. m.log = Append(j.log, [line |-> l, outcome |-> "open"]) /\ m.state = "waiting"
      /\ m.cache = j.cache /\ m.job = j.job
  BY DEF Job, Opened
<1>3. /\ DOMAIN j.log = 1 .. Len(j.log) /\ Len(j.log) \in Nat
      /\ DOMAIN m.log = 1 .. last /\ Len(m.log) = last
      /\ m.log[last] = [line |-> l, outcome |-> "open"]
      /\ \A i \in DOMAIN j.log : m.log[i] = j.log[i]
  BY <1>1, <1>2
<1>4. \A i \in DOMAIN j.log : j.log[i].outcome \in Outcomes
  <2>1. \A i \in DOMAIN j.log : j.log[i] \in Asked
    BY <1>1
  <2> QED BY <2>1 DEF Asked
<1>5. m.log[last].line = l /\ m.log[last].outcome = "open"
  BY <1>3
<1>6. Shape[l] \notin DOMAIN j.cache
  BY DEF Cached
<1>7. ASSUME NEW i \in DOMAIN m.log
      PROVE  /\ m.log[i].outcome = "open" => m.state = "waiting" /\ i = Len(m.log)
             /\ m.log[i].outcome = "template" => Shape[m.log[i].line] \in DOMAIN m.cache
  <2>1. CASE i = last
    BY <1>2, <1>3, <1>5, <2>1
  <2>2. CASE i # last
    <3>1. i \in DOMAIN j.log
      BY <1>3, <1>7, <2>2
    <3> QED BY <1>2, <1>3, <3>1 DEF LogFits
  <2> QED BY <2>1, <2>2
<1>8. ASSUME NEW i \in DOMAIN m.log, NEW k \in DOMAIN m.log, i < k,
             Shape[m.log[i].line] = Shape[m.log[k].line]
      PROVE  m.log[i].outcome \in {"timeout", "uncertain"}
  <2>1. i \in DOMAIN j.log /\ m.log[i] = j.log[i]
    BY <1>3, <1>8
  <2>2. CASE k = last
    <3>1. Shape[j.log[i].line] = Shape[l]
      BY <1>5, <1>8, <2>1, <2>2
    <3>2. j.log[i].outcome # "open" /\ j.log[i].outcome # "template"
      BY <1>6, <2>1, <3>1 DEF LogFits
    <3> QED BY <1>4, <2>1, <3>2 DEF Outcomes
  <2>3. CASE k # last
    <3>1. k \in DOMAIN j.log /\ m.log[k] = j.log[k]
      BY <1>3, <1>8, <2>3
    <3> QED BY <1>8, <2>1, <3>1 DEF LogFits
  <2> QED BY <2>2, <2>3
<1>9. LogFits(m)
  BY <1>7, <1>8 DEF LogFits
<1>10. \A c : CallFits(j, c) => CallFits(m, c)
  <2>1. \A i \in DOMAIN j.log : i \in DOMAIN m.log
    BY <1>3
  <2> QED BY <1>2, <1>3, <2>1 DEF CallFits
<1>11. CallFits(m, Call(last, l, j.job))
  BY <1>1, <1>2, <1>3, <1>5 DEF CallFits, Call
<1> QED BY <1>9, <1>10, <1>11

LEMMA LogByCalls ==
  ASSUME TypeInv, LogInv, NEW p \in Processes, NEW c \in calls[p], CallEffect(p, c)
  PROVE  LogInv'
<1>0. /\ parse \in [Parsers -> Job] /\ calls \in [Processes -> SUBSET CallSet]
      /\ Parsers \subseteq Processes
  BY DEF TypeInv, Processes
<1>1. CASE GoesOn(p, c)
  <2>1. PICK d \in CallSet : /\ d.n = c.n /\ d.line = c.line /\ d.job = c.job
                             /\ calls' = [calls EXCEPT ![p] = (@ \ {c}) \cup {d}]
    BY <1>1 DEF GoesOn
  <2>2. parse' = parse
    BY <1>1 DEF GoesOn
  <2>3. \A j : CallFits(j, c) => CallFits(j, d)
    BY <2>1 DEF CallFits
  <2>4. \A q \in Processes : \A e \in calls'[q] : e \in calls[q] \/ (q = p /\ e = d)
    BY <1>0, <2>1
  <2>5. SUFFICES ASSUME NEW q \in Parsers, NEW e \in calls'[q] PROVE CallFits(parse[q], e)
    BY <2>2 DEF LogInv
  <2>6. CASE e \in calls[q]
    BY <2>6 DEF LogInv
  <2>7. CASE q = p /\ e = d
    BY <2>3, <2>7 DEF LogInv
  <2> QED BY <1>0, <2>4, <2>6, <2>7
<1>2. CASE AnswersFrom(p, c, registry'[p])
  <2>1. PICK found : Answered(p, c, found)
    BY <1>2 DEF AnswersFrom
  <2>2. \A q \in Processes : calls'[q] \subseteq calls[q]
    BY <1>0, <2>1 DEF Answered
  <2>3. CASE parse' = parse
    BY <1>0, <2>2, <2>3 DEF LogInv
  <2>4. CASE parse' # parse
    <3> DEFINE outcome == IF found = {} THEN "uncertain" ELSE "template"
               j == parse[p]
    <3>1. p \in Parsers
      BY <2>1, <2>4 DEF Answered
    <3>2. PICK k, m : /\ Taught(j, k, c, found)
                      /\ m = k \/ (Awaited(p, c) /\ Settles(k, m, outcome))
                      /\ parse' = [parse EXCEPT ![p] = m]
      BY <2>1, <2>4 DEF Answered
    <3>3. j \in Job /\ LogFits(j) /\ CallFits(j, c)
      BY <1>0, <3>1 DEF LogInv
    <3>4. LogFits(k) /\ \A d : CallFits(j, d) => CallFits(k, d)
      BY <3>2, <3>3, FitsWhenTaught
    <3>5. LogFits(m) /\ \A d : CallFits(j, d) => CallFits(m, d)
      <4>1. CASE m = k
        BY <3>4, <4>1
      <4>2. CASE Awaited(p, c) /\ Settles(k, m, outcome)
        <5>1. c.job = j.job /\ c.n = Len(j.log) /\ j.log # <<>>
          BY <3>1, <4>2 DEF Awaited, TypeInv
        <5>2. k \in Job /\ k.log = j.log
          BY <3>2 DEF Taught
        <5>3. k.log[Len(k.log)].line = c.line
          BY <3>3, <5>1, <5>2 DEF CallFits
        <5>4. outcome = "template" => Shape[k.log[Len(k.log)].line] \in DOMAIN k.cache
          BY <3>2, <5>1, <5>3 DEF Taught
        <5>5. outcome \in {"uncertain", "template", "timeout"}
          OBVIOUS
        <5> HIDE DEF outcome
        <5>6. LogFits(m) /\ \A d : CallFits(k, d) => CallFits(m, d)
          BY <3>4, <4>2, <5>1, <5>2, <5>4, <5>5, FitsWhenSettled
        <5> QED BY <3>4, <5>6
      <4> QED BY <3>2, <4>1, <4>2
    <3>6. \A q \in Parsers : parse'[q] = IF q = p THEN m ELSE parse[q]
      BY <1>0, <3>1, <3>2
    <3> QED BY <1>0, <2>2, <3>5, <3>6 DEF LogInv
  <2> QED BY <2>3, <2>4
<1> QED BY <1>1, <1>2 DEF CallEffect

LEMMA LogByReaders ==
  ASSUME TypeInv, LogInv, NEW p \in Parsers, ReaderMoves(p)
  PROVE  LogInv'
<1>0. /\ parse \in [Parsers -> Job] /\ calls \in [Processes -> SUBSET CallSet]
      /\ Parsers \subseteq Processes
  BY DEF TypeInv, Processes
<1> DEFINE j == parse[p]
<1>1. j \in Job /\ LogFits(j) /\ (\A c \in calls[p] : CallFits(j, c)) /\ \A c \in calls[p] : c \in CallSet
  BY <1>0 DEF LogInv
<1>2. PICK m \in Job :
       /\ parse' = [parse EXCEPT ![p] = m]
       /\ \/ m = NewJob(p, j.job + 1, j.lines) /\ UNCHANGED calls
          \/ (\E n \in Nat : m = [j EXCEPT !.lines = n]) /\ UNCHANGED calls
          \/ /\ j.state = "idle"
             /\ \E l \in Parsed, n \in Nat :
                  /\ m = Opened(j, n, l)
                  /\ Cached(j, l) = {}
                  /\ Starts(p, Len(j.log) + 1, l, j.job)
          \/ j.state = "waiting" /\ UNCHANGED calls /\ Settles(j, m, "timeout")
  BY DEF ReaderMoves
<1>3. \A q \in Parsers : parse'[q] = IF q = p THEN m ELSE parse[q]
  BY <1>0, <1>2
<1>4. LogFits(m) /\ \A c \in calls'[p] : CallFits(m, c)
  <2>1. CASE m = NewJob(p, j.job + 1, j.lines) /\ UNCHANGED calls
    <3>1. j.job \in Nat /\ \A c \in calls[p] : c.job \in Nat /\ c.job <= j.job
      BY <1>1 DEF Job, CallSet, CallFits
    <3>2. m.log = <<>> /\ m.job = j.job + 1
      BY <2>1 DEF NewJob
    <3>3. \A c \in calls[p] : c.job <= m.job /\ c.job # m.job
      BY <3>1, <3>2
    <3>4. LogFits(m)
      BY <3>2 DEF LogFits
    <3> QED BY <2>1, <3>3, <3>4 DEF CallFits
  <2>2. CASE (\E n \in Nat : m = [j EXCEPT !.lines = n]) /\ UNCHANGED calls
    <3>1. m.log = j.log /\ m.job = j.job /\ m.state = j.state /\ m.cache = j.cache
      BY <1>1, <2>2 DEF Job
    <3> QED BY <1>1, <2>2, <3>1 DEF LogFits, CallFits
  <2>3. ASSUME NEW l \in Parsed, NEW n \in Nat, j.state = "idle",
               m = Opened(j, n, l),
               Cached(j, l) = {}, Starts(p, Len(j.log) + 1, l, j.job)
        PROVE  LogFits(m) /\ \A c \in calls'[p] : CallFits(m, c)
    <3>1. l \in Lines
      BY TemplatesAssumption DEF TemplatesAssumption
    <3> HIDE DEF j
    <3>2. /\ LogFits(m) /\ (\A c : CallFits(j, c) => CallFits(m, c))
          /\ CallFits(m, Call(Len(j.log) + 1, l, j.job))
      BY <1>1, <2>3, <3>1, FitsWhenAsked
    <3>3. calls'[p] = calls[p] \cup {Call(Len(j.log) + 1, l, j.job)}
      BY <1>0, <2>3 DEF Starts
    <3> QED BY <1>1, <3>2, <3>3
  <2>4. CASE j.state = "waiting" /\ UNCHANGED calls /\ Settles(j, m, "timeout")
    <3>1. j.log # <<>>
      BY <2>4 DEF TypeInv
    <3>2. LogFits(m) /\ \A c : CallFits(j, c) => CallFits(m, c)
      BY <1>1, <2>4, <3>1, FitsWhenSettled
    <3> QED BY <1>1, <2>4, <3>2
  <2> QED BY <1>2, <2>1, <2>2, <2>3, <2>4
<1>5. \A q \in Parsers \ {p} : calls'[q] = calls[q]
  BY <1>0, <1>2 DEF Starts
<1> QED BY <1>3, <1>4, <1>5 DEF LogInv

LEMMA LogByProbers ==
  ASSUME TypeInv, LogInv, NEW p \in Probers, ProberMoves(p)
  PROVE  LogInv'
<1>1. \A q \in Parsers : calls'[q] = calls[q] /\ parse'[q] = parse[q]
  <2>1. p \notin Parsers /\ Parsers \subseteq Processes /\ calls \in [Processes -> SUBSET CallSet]
    BY TemplatesAssumption DEF TemplatesAssumption, TypeInv, Processes
  <2> QED BY <2>1 DEF ProberMoves, Starts
<1> QED BY <1>1 DEF LogInv

LEMMA LogStays == TypeInv /\ FoundInv /\ LogInv /\ [Next]_vars => LogInv'
<1> SUFFICES ASSUME TypeInv, FoundInv, LogInv, [Next]_vars PROVE LogInv'
  OBVIOUS
<1>1. CASE Next
  <2>1. Effect
    BY <1>1, NextEffect
  <2> QED BY <2>1, LogByReaders, LogByProbers, LogByCalls DEF Effect
<1>2. CASE UNCHANGED vars
  BY <1>2 DEF vars, LogInv
<1> QED BY <1>1, <1>2

LEMMA LogInit == Init => LogInv
<1> SUFFICES ASSUME Init PROVE LogInv
  OBVIOUS
<1>1. \A p \in Parsers : parse[p].log = <<>> /\ calls[p] = {}
  BY DEF Init, NewJob, Processes
<1> QED BY <1>1 DEF LogInv, LogFits

\* One call per pattern: whatever calls overlap, are given up or answer late, a job asks the
\* AI classifier again for a shape only if its earlier call gave no template in time.
THEOREM OneCallPerPattern == Spec => []OneAnswerPerPattern
<1>1. LogInv => OneAnswerPerPattern
  BY DEF LogInv, LogFits, OneAnswerPerPattern
<1> QED BY <1>1, LogInit, LogStays, WellTyped, PTL DEF Spec
=============================================================================
