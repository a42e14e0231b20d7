----------------------------- MODULE Templates -----------------------------
(***************************************************************************)
(* Templates for lines no rule of the classifier recognizes: the AI        *)
(* classifier, the registry every process keeps of the table of templates, *)
(* the stream parser, which asks for a template within a budget and a time *)
(* limit, and detect-bootstrap, which asks for one per shape of its probes.*)
(*                                                                         *)
(* A process is single-threaded; its calls are interleaved at their        *)
(* awaits.  A call whose caller gave up goes on, saves its template and    *)
(* teaches it to the classifier of the job that made it.                   *)
(***************************************************************************)
EXTENDS Naturals, FiniteSets, Sequences

CONSTANTS
  Parsers, Probers,   \* the processes of the two services
  Lines,              \* lines the classifier is uncertain about
  Parsed, Probed,     \* those that a job, and a probe, may find
  Shape,              \* Shape[l]: quickFingerprint of the classifier, or of a probe
  Length,             \* Length[l]
  Csv,                \* lines that split into as many non-blank parts as fields
  Json,               \* lines that are JSON
  Weak,               \* those that make no specific or confident signature
  Reads,              \* Reads[l]: the lines that a template made from l matches
  Budget,             \* MAX_AI_CALLS_PER_JOB
  MaxAttempts,        \* attempts of a probe (3 in the code)
  MaxLines,           \* bound: lines that a parser reads
  MaxJobs,            \* bound: jobs of a parser
  MaxTemplates,       \* bound: templates made
  MaxProbes,          \* bound: probes of a prober
  MaxOpen             \* bound: calls that run when a line or a probe asks

ASSUME TemplatesAssumption ==
  /\ Parsers \cap Probers = {}
  /\ Budget \in Nat /\ MaxAttempts \in Nat \ {0}
  /\ Csv \cap Json = {} /\ Csv \cup Json \cup Parsed \cup Probed \subseteq Lines

VARIABLES
  table,      \* the rows of the table of templates, in the order they were made
  registry,   \* registry[p]: its two caches, template by fingerprint
  fresh,      \* fresh[p]: the last load that was tried succeeded
  made,       \* templates made so far: ids are random and never repeat
  unsaved,    \* ids of templates whose save failed (swallowed)
  calls,      \* calls[p]: the calls of p that run, given up or not
  parse,      \* parse[p]: the job of a parser and its classifier
  probe       \* probe[p]: the job of a prober

vars == <<table, registry, fresh, made, unsaved, calls, parse, probe>>

Processes == Parsers \cup Probers
-----------------------------------------------------------------------------
(***************************************************************************)
(* Templates.  A template's fingerprint is that of the very line it was    *)
(* made from; the two other fingerprints the registry is asked for, of the *)
(* trimmed lower-case line and of a probe, are other hashes, so that no    *)
(* template is ever found under them.                                      *)
(***************************************************************************)
LinePrint(l) == <<"md5", l>>
TextPrint(l) == <<"sha256", l>>
ProbePrint(l) == <<"probe", Shape[l]>>

Template(kind, l) ==
  [id |-> made + 1, version |-> 1, kind |-> kind, print |-> LinePrint(l), from |-> l]

ExtractLine(t, l) == t.kind = "record" /\ l \in Reads[t.from]
MatchesRubbish(t, l) == t.kind = "rubbish" /\ t.from \notin Weak /\ l \in Reads[t.from]

\* The template a cache holds for a fingerprint.
Found(cache, print) == IF print \in DOMAIN cache THEN {cache[print]} ELSE {}

With(cache, t) == [q \in DOMAIN cache \cup {t.print} |-> IF q = t.print THEN t ELSE cache[q]]

\* getByFingerprint, matchRecordTemplate, matchRubbishTemplate: the first found.
ByFingerprint(reg, print) ==
  IF Found(reg.record, print) # {} THEN Found(reg.record, print) ELSE Found(reg.rubbish, print)

Registered(reg, l) ==
  IF ByFingerprint(reg, LinePrint(l)) # {} THEN ByFingerprint(reg, LinePrint(l))
  ELSE IF Found(reg.record, TextPrint(l)) # {} THEN Found(reg.record, TextPrint(l))
  ELSE {t \in Found(reg.rubbish, TextPrint(l)) : t.from \notin Weak}

\* The rows of a kind come latest first, so that the oldest of a fingerprint stays.
Loaded(cache, kind) ==
  LET rows == {i \in DOMAIN table : table[i].kind = kind}
      oldest == {i \in rows : \A k \in rows : table[k].print = table[i].print => i <= k}
      loaded == {table[i] : i \in oldest}
  IN  [q \in DOMAIN cache \cup {t.print : t \in loaded} |->
         IF \E t \in loaded : t.print = q THEN CHOOSE t \in loaded : t.print = q ELSE cache[q]]
-----------------------------------------------------------------------------
(***************************************************************************)
(* The classifier of a parser's job.                                       *)
(***************************************************************************)
NewJob(p, n, lines) ==
  [ job |-> n, state |-> "idle", lines |-> lines, aiCalls |-> 0,
    log |-> <<>>, cache |-> <<>>,
    learned |-> {registry[p].record[q] : q \in DOMAIN registry[p].record}
           \cup {registry[p].rubbish[q] : q \in DOMAIN registry[p].rubbish} ]

\* The templates learned, records first, with the one cached for the shape.
Cached(j, l) == IF Shape[l] \in DOMAIN j.cache THEN {j.cache[Shape[l]]} ELSE {}

Classify(j, l) ==
  LET long == {t \in j.learned : Length[l] >= Length[t.from]}
  IN  IF l \in Json THEN "uncertain"
      ELSE IF \E t \in long \cup Cached(j, l) : ExtractLine(t, l) THEN "parsed"
      ELSE IF \E t \in j.learned \cup Cached(j, l) : MatchesRubbish(t, l) THEN "rubbish"
      ELSE "uncertain"

\* A new template, asked for a line; no id is learned twice.
LearnOnly(j, t) == [j EXCEPT !.learned = @ \cup {t.template}]

Learn(j, t) ==
  LET s == Shape[t.asked]
      u == t.template
  IN  [j EXCEPT !.learned = IF \E k \in @ : k.id = u.id THEN @ ELSE @ \cup {u},
                !.cache = [q \in DOMAIN @ \cup {s} |-> IF q = s THEN u ELSE @[q]]]

\* The line is settled, at a cost (ai_calls_used).
Charge(j, used) == [j EXCEPT !.state = "idle", !.aiCalls = @ + used]

Note(j, n, outcome) == [j EXCEPT !.log[n].outcome = outcome]
-----------------------------------------------------------------------------
Init ==
  /\ table = <<>> /\ made = 0 /\ unsaved = {}
  /\ registry = [p \in Processes |-> [record |-> <<>>, rubbish |-> <<>>]]
  /\ fresh = [p \in Processes |-> TRUE]
  /\ calls = [p \in Processes |-> {}]
  /\ parse = [p \in Parsers |-> NewJob(p, 1, 0)]
  /\ probe = [p \in Probers |-> [state |-> "idle", line |-> CHOOSE l \in Lines : TRUE,
                                 attempt |-> 0, seen |-> {}]]

Call(n, l, job) == [n |-> n, line |-> l, at |-> "limiter", job |-> job, template |-> {}, found |-> {}]

Room == Cardinality(UNION {{<<p, c>> : c \in calls[p]} : p \in Processes}) < MaxOpen

\* The call its caller waits for.
Awaited(p, c) ==
  IF p \in Parsers THEN c.job = parse[p].job /\ parse[p].state = "waiting" /\ c.n = Len(parse[p].log)
  ELSE probe[p].state = "waiting" /\ c.n = probe[p].attempt /\ c.line = probe[p].line

Move(p, c, d) == calls' = [calls EXCEPT ![p] = (@ \ {c}) \cup {d}]

\* The end of a call: what its caller, and the classifier of its job, make of it.
Answer(p, c, found) ==
  /\ calls' = [calls EXCEPT ![p] = @ \ {c}]
  /\ IF p \in Parsers
     THEN LET j == parse[p]
              k == IF found = {} \/ c.job # j.job THEN j
                   ELSE Learn(j, [asked |-> c.line, template |-> CHOOSE t \in found : TRUE])
          IN  /\ parse' = [parse EXCEPT ![p] =
                   IF Awaited(p, c)
                   THEN Note(Charge(k, 1), c.n, IF found = {} THEN "uncertain" ELSE "template") ELSE k]
              /\ UNCHANGED probe
     ELSE /\ probe' = IF Awaited(p, c) THEN [probe EXCEPT ![p].state = "idle", ![p].attempt = 0] ELSE probe
          /\ UNCHANGED parse

\* What follows the load.  A line that is as wide as the field spec gets a new
\* template whatever the registry (its caches are reg) holds; of other lines the
\* registry is asked, and then the model.
Decided(p, c, reg) ==
  LET known == Registered(reg, c.line)
  IN  IF c.line \in Csv
      THEN /\ made < MaxTemplates
           /\ made' = made + 1
           /\ Move(p, c, [c EXCEPT !.at = "find", !.template = {Template("record", c.line)}])
           /\ UNCHANGED <<parse, probe>>
      ELSE /\ IF known # {} THEN Answer(p, c, known)
              ELSE Move(p, c, [c EXCEPT !.at = "model"]) /\ UNCHANGED <<parse, probe>>
           /\ UNCHANGED made

\* classifyAi starts with the load of the registry, unless the last one is recent;
\* it may be at any time that it no longer is.
Classifies(p, c) ==
  \/ fresh[p] /\ Decided(p, c, registry[p]) /\ UNCHANGED fresh
  \/ /\ fresh' = [fresh EXCEPT ![p] = FALSE]
     /\ Move(p, c, [c EXCEPT !.at = "load records"])
     /\ UNCHANGED <<made, parse, probe>>
-----------------------------------------------------------------------------
(***************************************************************************)
(* The stream parser.                                                      *)
(***************************************************************************)
StartJob(p) ==
  /\ parse[p].state = "idle" /\ parse[p].job < MaxJobs
  /\ parse' = [parse EXCEPT ![p] = NewJob(p, parse[p].job + 1, parse[p].lines)]
  /\ UNCHANGED <<table, registry, fresh, made, unsaved, calls, probe>>

\* A line that is parsed, rubbish, or uncertain with no call left for it.
ReadLine(p) ==
  /\ parse[p].state = "idle" /\ parse[p].lines < MaxLines
  /\ \E l \in Parsed :
       /\ \/ Classify(parse[p], l) # "uncertain"
          \/ parse[p].aiCalls >= Budget
          \/ Cached(parse[p], l) # {}
       /\ parse' = [parse EXCEPT ![p].lines = @ + 1]
  /\ UNCHANGED <<table, registry, fresh, made, unsaved, calls, probe>>

\* An uncertain line: the rate limiter first, then the AI classifier.
AskForLine(p) ==
  /\ parse[p].state = "idle" /\ parse[p].lines < MaxLines /\ parse[p].aiCalls < Budget
  /\ Room
  /\ \E l \in Parsed :
       LET n == Len(parse[p].log) + 1 IN
       /\ Classify(parse[p], l) = "uncertain" /\ Cached(parse[p], l) = {}
       /\ parse' = [parse EXCEPT ![p].lines = @ + 1, ![p].state = "waiting",
                                 ![p].log = Append(@, [line |-> l, outcome |-> "open"])]
       /\ calls' = [calls EXCEPT ![p] = @ \cup {Call(n, l, parse[p].job)}]
  /\ UNCHANGED <<table, registry, fresh, made, unsaved, probe>>

\* AI_CLASSIFY_TIMEOUT_MS: the line is uncertain, at no cost.
GiveUpAdmitted(p) ==
  /\ parse[p].state = "waiting"
  /\ \E c \in calls[p] : Awaited(p, c) /\ c.at # "limiter"
  /\ parse' = [parse EXCEPT ![p] = Note(Charge(@, 0), Len(@.log), "timeout")]
  /\ UNCHANGED <<table, registry, fresh, made, unsaved, calls, probe>>

GiveUpLine(p) ==
  /\ parse[p].state = "waiting"
  /\ parse' = [parse EXCEPT ![p] = Note(Charge(@, 0), Len(@.log), "timeout")]
  /\ UNCHANGED <<table, registry, fresh, made, unsaved, calls, probe>>

\* A token of the rate limiter, which only the parser asks for.  A JSON line never reaches the AI classifier: its
\* method is passed without its object and fails before it asks; the rules for JSON
\* are tried once more, in vain, and the line is charged for.
Admitted(p, c) ==
  /\ c.at = "limiter"
  /\ IF p \in Parsers /\ c.line \in Json
     THEN /\ calls' = [calls EXCEPT ![p] = @ \ {c}] /\ UNCHANGED <<fresh, made, probe>>
          /\ parse' = IF Awaited(p, c)
                      THEN [parse EXCEPT ![p] = Note(Charge(@, 1), c.n, "uncertain")] ELSE parse
     ELSE Classifies(p, c)
  /\ UNCHANGED <<table, registry, unsaved>>
-----------------------------------------------------------------------------
(***************************************************************************)
(* The AI classifier, in either process.                                   *)
(***************************************************************************)
\* One of the two reads of loadFromDatabase; an error ends the load.
LoadRecords(p, c) ==
  /\ c.at = "load records"
  /\ \/ /\ registry' = [registry EXCEPT ![p].record = Loaded(@, "record")]
        /\ Move(p, c, [c EXCEPT !.at = "load rubbish"])
        /\ UNCHANGED <<made, parse, probe>>
     \/ Decided(p, c, registry[p]) /\ UNCHANGED registry
  /\ UNCHANGED <<table, fresh, unsaved>>

LoadRubbish(p, c) ==
  /\ c.at = "load rubbish"
  /\ \/ /\ registry' = [registry EXCEPT ![p].rubbish = Loaded(@, "rubbish")]
        /\ fresh' = [fresh EXCEPT ![p] = TRUE]
     \/ UNCHANGED <<registry, fresh>>
  /\ Decided(p, c, registry'[p])
  /\ UNCHANGED <<table, unsaved>>

\* The model's answer: a template, or none (uncertain, malformed, failed, late).
ModelAnswers(p, c) ==
  /\ c.at = "model"
  /\ \/ /\ made < MaxTemplates
        /\ made' = made + 1
        /\ \E kind \in {"record", "rubbish"} :
             Move(p, c, [c EXCEPT !.at = "find", !.template = {Template(kind, c.line)}])
        /\ UNCHANGED <<parse, probe>>
     \/ Answer(p, c, {}) /\ UNCHANGED made
  /\ UNCHANGED <<table, registry, fresh, unsaved>>

\* saveTemplate of the repository: the row of the fingerprint, if any, is looked
\* for first and written then; the row keeps its id, the cache the template's.
Find(p, c) ==
  /\ c.at = "find"
  /\ LET rows == {table[i] : i \in {k \in DOMAIN table : \A t \in c.template : table[k].print = t.print}}
     IN  \E found \in IF rows = {} THEN {{}} ELSE {{r} : r \in rows} :
           Move(p, c, [c EXCEPT !.at = "write", !.found = found])
  /\ UNCHANGED <<table, registry, fresh, made, unsaved, parse, probe>>

Registers(p, t) ==
  registry' = IF t.kind = "record" THEN [registry EXCEPT ![p].record = With(@, t)]
              ELSE [registry EXCEPT ![p].rubbish = With(@, t)]

RowByText(t, old) == [t EXCEPT !.version = @ + 1, !.print = TextPrint(t.from)]

Row(t, old) ==
  IF old = {} THEN [t EXCEPT !.version = @ + 1]
  ELSE LET r == CHOOSE r \in old : TRUE IN [t EXCEPT !.id = r.id, !.version = r.version + 1]

Written(t, old) ==
  IF old = {} THEN Append(table, Row(t, old))
  ELSE [i \in DOMAIN table |-> IF table[i].print = t.print THEN Row(t, old) ELSE table[i]]

Write(p, c) ==
  /\ c.at = "write"
  /\ \E t \in c.template :
       /\ \/ table' = Written(t, c.found) /\ UNCHANGED unsaved
          \/ unsaved' = unsaved \cup {t.id} /\ UNCHANGED table
       /\ Registers(p, t)
  /\ Answer(p, c, c.template)
  /\ UNCHANGED <<fresh, made>>
-----------------------------------------------------------------------------
(***************************************************************************)
(* detect-bootstrap: one template per shape its probes show.               *)
(***************************************************************************)
Begin(p, n, l) ==
  calls' = [calls EXCEPT ![p] = @ \cup {Call(n, l, 0)}]

ProbeWindow(p) ==
  /\ probe[p].state = "idle" /\ Cardinality(probe[p].seen) < MaxProbes /\ Room
  /\ \E l \in Probed :
       /\ ProbePrint(l) \notin probe[p].seen
       /\ LET known == ByFingerprint(registry[p], ProbePrint(l))
              q == [probe[p] EXCEPT !.seen = @ \cup {ProbePrint(l)}, !.line = l, !.attempt = 1]
          IN  IF known # {}
              THEN probe' = [probe EXCEPT ![p] = [q EXCEPT !.attempt = 0]] /\ UNCHANGED calls
              ELSE /\ probe' = [probe EXCEPT ![p] = [q EXCEPT !.state = "waiting"]]
                   /\ Begin(p, 1, l)
  /\ UNCHANGED <<table, registry, fresh, made, unsaved, parse>>

\* The time limit of one attempt: another one, or the job fails.
GiveUpAttempt(p) ==
  /\ probe[p].state = "waiting"
  /\ LET n == probe[p].attempt + 1 IN
     IF n <= MaxAttempts
     THEN probe' = [probe EXCEPT ![p].attempt = n] /\ Begin(p, n, probe[p].line)
     ELSE probe' = [probe EXCEPT ![p].state = "failed"] /\ UNCHANGED calls
  /\ UNCHANGED <<table, registry, fresh, made, unsaved, parse>>
-----------------------------------------------------------------------------
Step(p) ==
  \E c \in calls[p] :
    \/ Admitted(p, c) \/ LoadRecords(p, c) \/ LoadRubbish(p, c)
    \/ ModelAnswers(p, c) \/ Find(p, c) \/ Write(p, c)

Next ==
  \/ \E p \in Parsers : StartJob(p) \/ ReadLine(p) \/ AskForLine(p) \/ GiveUpLine(p)
  \/ \E p \in Probers : ProbeWindow(p) \/ GiveUpAttempt(p)
  \/ \E p \in Processes : Step(p)

\* A timer always fires; an answer may never come.
Fairness ==
  /\ \A p \in Parsers : WF_vars(GiveUpLine(p))
  /\ \A p \in Probers : WF_vars(GiveUpAttempt(p))

Spec == Init /\ [][Next]_vars /\ Fairness
-----------------------------------------------------------------------------
Ids == 1..MaxTemplates
TypeOK ==
  /\ \A i \in DOMAIN table : table[i].id \in Ids /\ table[i].version >= 2
  /\ \A p \in Processes :
       /\ \A q \in DOMAIN registry[p].record :
            registry[p].record[q].kind = "record" /\ registry[p].record[q].print = q
       /\ \A q \in DOMAIN registry[p].rubbish :
            registry[p].rubbish[q].kind = "rubbish" /\ registry[p].rubbish[q].print = q
       /\ \A c \in calls[p] : c.at \in {"find", "write"} <=> c.template # {}
  /\ unsaved \subseteq Ids
  /\ \A p \in Parsers : parse[p].job \in 1..MaxJobs /\ parse[p].lines <= MaxLines
  /\ \A p \in Probers : probe[p].attempt <= MaxAttempts

\* persistAndRegisterTemplate saves before it registers: a template a process
\* knows, and the classifiers use, is in the table under its fingerprint, unless
\* its own save failed, whatever saves of other processes overlap with it.
SavedBeforeUsed ==
  LET inTable(t) == t.id \in unsaved \/ \E i \in DOMAIN table : table[i].print = t.print
  IN  \A p \in Processes :
        /\ \A q \in DOMAIN registry[p].record : inTable(registry[p].record[q])
        /\ \A q \in DOMAIN registry[p].rubbish : inTable(registry[p].rubbish[q])
        /\ p \in Parsers => \A t \in parse[p].learned : inTable(t)

\* One call per pattern: a job asks again for a shape it has asked for only if the
\* earlier call gave no template in time.
OneAnswerPerPattern ==
  \A p \in Parsers : \A i, k \in DOMAIN parse[p].log :
    (i < k /\ Shape[parse[p].log[i].line] = Shape[parse[p].log[k].line]) =>
      parse[p].log[i].outcome \in {"timeout", "uncertain"}

\* classifyWithTimeout of both services: whatever becomes of the call, of the rate
\* limiter and of the database, the line is settled and the probe ends.
WaitingEnds ==
  /\ \A p \in Parsers : parse[p].state = "waiting" ~> parse[p].state = "idle"
  /\ \A p \in Probers : probe[p].state = "waiting" ~> probe[p].state \in {"idle", "failed"}
=============================================================================
