------------------------- MODULE JobDescriptor_proofs -------------------------
(***************************************************************************)
(* What a descriptor says of its request, for every text, size and hint.   *)
(* The descriptor is a function of the request, so the invariant is that   *)
(* it is unset or that function's value; the rest is about the functions.  *)
(***************************************************************************)
EXTENDS JobDescriptor, TLAPS

Inv == request \in Request /\ job \in {Unset, NewJobDescriptor(request)}

\* Every reachable descriptor is the one of its request.
LEMMA Invariance == Spec => []Inv
<1>1. Init => Inv
  BY RequestsAssumption DEF Init, Inv
<1>2. Inv /\ [Next]_vars => Inv'
  <2> SUFFICES ASSUME Inv, [Next]_vars PROVE Inv'
    OBVIOUS
  <2>1. CASE Describe
    BY <2>1 DEF Describe, Inv
  <2>2. CASE Continue
    <3>1. PICK p \in Follow, s \in Sizes :
            /\ request' = [request EXCEPT !.text = @ \cup {p}, !.size = s]
            /\ job' = NewJobDescriptor(request')
      BY <2>2 DEF Continue
    <3>2. request' \in Request
      BY <3>1, RequestsAssumption DEF Inv, Request
    <3> QED
      BY <3>1, <3>2 DEF Inv
  <2>3. CASE UNCHANGED vars
    BY <2>3 DEF vars, Inv
  <2> QED
    BY <2>1, <2>2, <2>3 DEF Next
<1> QED
  BY <1>1, <1>2, PTL DEF Spec

\* A described job is the descriptor of its request.
LEMMA DescribedIs == Inv /\ Described => job = NewJobDescriptor(request)
BY DEF Inv, Described

\* The contributions to a risk are ranks, and none of them lowers it.
LEMMA RiskIsARank ==
  ASSUME NEW f, NEW task
  PROVE  /\ TaskRisk(task) \in 1..3 /\ TopicRisk(f, task) \in 1..3
         /\ DerivedRisk(f, task) \in 1..4
         /\ DerivedRisk(f, task) >= TopicRisk(f, task)
         /\ TopicRisk(f, task) >= TaskRisk(task)
<1>1. TaskRisk(task) \in 1..3
  BY DEF TaskRisk
<1>2. TopicRisk(f, task) \in 1..3 /\ TopicRisk(f, task) >= TaskRisk(task)
  BY <1>1 DEF TopicRisk, Raise
<1>3. /\ Escalate(f, task, TopicRisk(f, task)) \in 1..3
      /\ Escalate(f, task, TopicRisk(f, task)) >= TopicRisk(f, task)
  BY <1>2 DEF Escalate
<1> QED
  BY <1>1, <1>2, <1>3 DEF DerivedRisk, Raise

\* The levels' ranks.
LEMMA Ranks ==
  /\ DOMAIN RiskRank = RiskLevels
  /\ RiskRank["low"] = 1 /\ RiskRank["medium"] = 2
  /\ RiskRank["high"] = 3 /\ RiskRank["critical"] = 4
<1>1. DOMAIN RiskRank = RiskLevels
  BY DEF RiskRank, RiskLevels
<1>2. /\ RiskRank["low"] = 1 /\ RiskRank["medium"] = 2
      /\ RiskRank["high"] = 3 /\ RiskRank["critical"] = 4
  BY DEF RiskRank
<1> QED
  BY <1>1, <1>2

\* Raising gives the higher of the two ranks.
LEMMA RaiseBounds ==
  ASSUME NEW level \in 1..4, NEW to \in 1..4
  PROVE  /\ Raise(level, TRUE, to) \in 1..4
         /\ Raise(level, TRUE, to) >= level /\ Raise(level, TRUE, to) >= to
BY DEF Raise

\* A chain of ranks whose top is the lowest rank is that rank throughout.
LEMMA LowestChain ==
  ASSUME NEW top \in 1..4, NEW middle \in 1..3, NEW bottom \in 1..3,
         top >= middle, middle >= bottom, top = 1
  PROVE  middle = 1 /\ bottom = 1
OBVIOUS

\* A hint raises a rank or leaves it.
LEMMA HintRaises ==
  ASSUME NEW level \in 1..4, NEW hint
  PROVE  /\ Hinted(level, hint) \in 1..4 /\ Hinted(level, hint) >= level
         /\ hint \in RiskLevels => Hinted(level, hint) >= RiskRank[hint]
         /\ hint = "" => Hinted(level, hint) = level
<1>1. CASE hint \in RiskLevels
  <2>1. hint = "low" \/ hint = "medium" \/ hint = "high" \/ hint = "critical"
    BY <1>1 DEF RiskLevels
  <2>2. RiskRank[hint] \in 1..4 /\ hint # ""
    <3>1. CASE hint = "low"
      BY <3>1, Ranks
    <3>2. CASE hint = "medium"
      BY <3>2, Ranks
    <3>3. CASE hint = "high"
      BY <3>3, Ranks
    <3>4. CASE hint = "critical"
      BY <3>4, Ranks
    <3> QED
      BY <2>1, <3>1, <3>2, <3>3, <3>4
  <2>3. Hinted(level, hint) = Raise(level, TRUE, RiskRank[hint])
    BY <1>1, Ranks DEF Hinted
  <2> QED
    BY <2>2, <2>3, RaiseBounds
<1>2. CASE hint \notin RiskLevels
  <2>1. Hinted(level, hint) = level
    BY <1>2, Ranks DEF Hinted
  <2> QED
    BY <1>2, <2>1
<1> QED
  BY <1>1, <1>2

\* A descriptor's fields, by name.
LEMMA Fields ==
  ASSUME NEW r
  PROVE  LET f == Features(r)
             task == ClassifyTask(r, f).task
             hint == Parsed(FirstString(r.risk), RiskLevels, "")
             j == NewJobDescriptor(r) IN
         /\ j.task = task /\ j.risk = ClassifyRisk(f, task, hint) /\ j.riskHint = hint
         /\ j.sensitivity = RiskSensitivity(f)
         /\ j.sensitivityHint = Parsed(FirstString(r.sensitivity), Sensitivities,
                                       FeatureSensitivity(f.hints))
         /\ j.keywords = f.keywords /\ j.code = f.code
BY DEF NewJobDescriptor

\* The parsed hint is a level or nothing.
LEMMA HintIsALevel ==
  ASSUME NEW r PROVE Parsed(FirstString(r.risk), RiskLevels, "") \in RiskLevels \cup {""}
BY DEF Parsed

\* Each case of the task's decision names a known task.
LEMMA TaskIsKnown ==
  ASSUME NEW r, NEW f
  PROVE  ClassifyTask(r, f).task \in Tasks /\ ClassifyTask(r, f).confidence \in 0..100
BY DEF ClassifyTask, Result, Tasks

\* A descriptor is made of words the engine knows, whatever the hints hold.
THEOREM TypeCorrect == Spec => []TypeOK
<1>1. Unset.keywords \subseteq DOMAIN KeywordTerms
  BY DEF Unset
<1>2. job = Unset => TypeOK
  <2>1. /\ Unset.task \in Tasks /\ Unset.confidence \in 0..100
        /\ Unset.risk \in 1..4 /\ Unset.sensitivity \in Sensitivities
        /\ Unset.riskHint \in RiskLevels \cup {""} /\ Unset.sensitivityHint \in Sensitivities
    BY DEF Unset, Tasks, Sensitivities, RiskLevels
  <2>2. Unset.mode \in Modes /\ Unset.schema \in BOOLEAN /\ Unset.code \in BOOLEAN
    BY DEF Unset, Modes
  <2> QED
    BY <1>1, <2>1, <2>2 DEF TypeOK
<1>3. Inv /\ Described => TypeOK
  <2> SUFFICES ASSUME Inv, Described PROVE TypeOK
    OBVIOUS
  <2>1. job = NewJobDescriptor(request)
    BY DescribedIs
  <2>2. job.task \in Tasks /\ job.confidence \in 0..100
    BY <2>1, TaskIsKnown DEF NewJobDescriptor
  <2>3. job.risk \in 1..4
    <3> DEFINE f == Features(request)
               task == ClassifyTask(request, f).task
               hint == Parsed(FirstString(request.risk), RiskLevels, "")
    <3>1. DerivedRisk(f, task) \in 1..4
      BY RiskIsARank
    <3>2. Hinted(DerivedRisk(f, task), hint) \in 1..4
      BY <3>1, HintRaises
    <3> QED
      BY <2>1, <3>2, Fields DEF ClassifyRisk
  <2>4. job.sensitivity \in Sensitivities /\ job.sensitivityHint \in Sensitivities
    BY <2>1, Fields DEF Sensitivities, RiskSensitivity, FeatureSensitivity, Parsed
  <2>5. job.riskHint \in RiskLevels \cup {""}
    BY <2>1, Fields, HintIsALevel
  <2>6. job.mode \in Modes /\ job.schema \in BOOLEAN
    BY <2>1 DEF NewJobDescriptor, Parsed, Modes
  <2>7. job.code \in BOOLEAN /\ job.keywords \subseteq DOMAIN KeywordTerms
    <3>1. job.keywords = Keywords(request) /\ job.code = RequiresCode(request)
      BY <2>1, Fields DEF Features
    <3>2. {"tool_use", "json_schema", "vision", "large_context"} \subseteq DOMAIN KeywordTerms
      BY DEF KeywordTerms
    <3>3. Keywords(request) \subseteq DOMAIN KeywordTerms
      BY <3>2 DEF Keywords
    <3>4. RequiresCode(request) \in BOOLEAN
      BY DEF RequiresCode
    <3> QED
      BY <3>1, <3>3, <3>4
  <2> QED
    BY <2>2, <2>3, <2>4, <2>5, <2>6, <2>7 DEF TypeOK
<1>4. Inv => TypeOK
  BY <1>2, <1>3 DEF Described
<1> QED
  BY <1>4, Invariance, PTL

\* A client's hints change neither task nor sensitivity and lower no risk,
\* for every text and every word a hint may hold.
THEOREM HintsNeverLower == Spec => []HintsOnlyRaise
<1>1. Inv => HintsOnlyRaise
  <2> SUFFICES ASSUME Inv, Described PROVE HintsOnlyRaise
    BY DEF HintsOnlyRaise
  <2> DEFINE f == Features(request)
             task == ClassifyTask(request, f)
             hint == Parsed(FirstString(request.risk), RiskLevels, "")
  <2>1. /\ WithoutHints.text = request.text /\ WithoutHints.size = request.size
        /\ WithoutHints.asks = request.asks /\ WithoutHints.risk = <<>>
    BY DEF WithoutHints, Inv, Request
  <2>2. Features(WithoutHints) = f
    BY <2>1 DEF Features, Keywords, Files, StackTrace, RequiresCode, SensitivityHints
  <2>3. ClassifyTask(WithoutHints, f) = task
    BY <2>1 DEF ClassifyTask
  <2>4. Parsed(FirstString(WithoutHints.risk), RiskLevels, "") = ""
    BY <2>1 DEF Parsed, FirstString, RiskLevels
  <2> DEFINE plain == NewJobDescriptor(WithoutHints)
  <2>5. /\ plain.task = task.task /\ plain.sensitivity = RiskSensitivity(f)
        /\ plain.risk = ClassifyRisk(f, task.task, "")
    BY <2>2, <2>3, <2>4 DEF NewJobDescriptor
  <2>6. /\ job.task = task.task /\ job.sensitivity = RiskSensitivity(f)
        /\ job.risk = ClassifyRisk(f, task.task, hint)
    BY DescribedIs, Fields
  <2>7. ClassifyRisk(f, task.task, hint) >= ClassifyRisk(f, task.task, "")
    <3>1. DerivedRisk(f, task.task) \in 1..4
      BY RiskIsARank
    <3> QED
      BY <3>1, HintRaises DEF ClassifyRisk
  <2> QED
    BY <2>5, <2>6, <2>7 DEF HintsOnlyRaise
<1> QED
  BY <1>1, Invariance, PTL

\* The two derivations of a request's sensitivity agree for every text.
THEOREM SensitivitiesAreOne == Spec => []SensitivitiesAgree
<1>1. Inv => SensitivitiesAgree
  <2> SUFFICES ASSUME Inv, Described, FirstString(request.sensitivity) = ""
               PROVE  job.sensitivityHint = job.sensitivity
    BY DEF SensitivitiesAgree
  <2> DEFINE f == Features(request)
  <2>1. /\ job.sensitivity = RiskSensitivity(f)
        /\ job.sensitivityHint = FeatureSensitivity(f.hints)
    <3>1. job = NewJobDescriptor(request)
      BY DescribedIs
    <3>2. FeatureSensitivity(f.hints) = Parsed("", Sensitivities, FeatureSensitivity(f.hints))
      BY DEF Parsed, Sensitivities
    <3> QED
      BY <3>1, <3>2, Fields
  <2>2. /\ f.code <=> "source_code" \in f.hints
        /\ f.hints \subseteq {"pii", "auth", "payment", "security", "secrets_possible", "source_code"}
    BY DEF Features, SensitivityHints
  <2> HIDE DEF f
  <2>3. CASE "secrets_possible" \in f.hints
    BY <2>1, <2>3 DEF RiskSensitivity, FeatureSensitivity
  <2>5. CASE "pii" \in f.hints /\ "secrets_possible" \notin f.hints
    <3>1. RiskSensitivity(f) = "pii"
      BY <2>5 DEF RiskSensitivity
    <3>2. FeatureSensitivity(f.hints) = "pii"
      BY <2>5 DEF FeatureSensitivity
    <3> QED
      BY <2>1, <3>1, <3>2
  <2>4. CASE "secrets_possible" \notin f.hints /\ "pii" \notin f.hints
    <3>1. (f.code \/ f.hints \cap {"source_code", "auth", "payment", "security"} # {})
            <=> f.hints # {}
      BY <2>2, <2>4
    <3> QED
      BY <2>1, <2>4, <3>1 DEF RiskSensitivity, FeatureSensitivity
  <2> QED
    BY <2>3, <2>4, <2>5
<1> QED
  BY <1>1, Invariance, PTL

\* What the keywords of a request contribute to its risk.
LEMMA StakesRaise ==
  ASSUME NEW f, NEW task
  PROVE  /\ CodeOrPath(f) \/ {"auth", "payment"} \cap f.keywords # {} => TopicRisk(f, task) >= 2
         /\ f.keywords \cap {"migration", "sql", "security"} # {} => TopicRisk(f, task) >= 3
         /\ ({"auth", "payment"} \cap f.keywords # {}
             /\ (CodeOrPath(f) \/ {"production", "change_intent"} \cap f.keywords # {}))
              => TopicRisk(f, task) >= 3
         /\ "secrets_possible" \in f.hints => DerivedRisk(f, task) >= 3
         /\ "pii" \in f.hints => DerivedRisk(f, task) >= 2
<1>1. TaskRisk(task) \in 1..3 /\ TopicRisk(f, task) \in 1..3
  BY RiskIsARank
<1>3. Escalate(f, task, TopicRisk(f, task)) \in 1..3
  BY <1>1 DEF Escalate
<1>4. /\ "secrets_possible" \in f.hints => DerivedRisk(f, task) >= 3
      /\ "pii" \in f.hints => DerivedRisk(f, task) >= 2
  BY <1>3 DEF DerivedRisk, Raise
<1>5. CodeOrPath(f) \/ {"auth", "payment"} \cap f.keywords # {} => TopicRisk(f, task) >= 2
  BY <1>1 DEF TopicRisk, Raise
<1>6. f.keywords \cap {"migration", "sql", "security"} # {} => TopicRisk(f, task) >= 3
  <2>1. f.keywords \cap {"migration", "sql", "security"} # {}
          => Migration(f, task) \/ Security(f, task)
    BY DEF Migration, Security
  <2> QED
    BY <1>1, <2>1 DEF TopicRisk, Raise
<1>7. ({"auth", "payment"} \cap f.keywords # {}
        /\ (CodeOrPath(f) \/ {"production", "change_intent"} \cap f.keywords # {}))
        => TopicRisk(f, task) >= 3
  <2> SUFFICES ASSUME {"auth", "payment"} \cap f.keywords # {},
                      CodeOrPath(f) \/ {"production", "change_intent"} \cap f.keywords # {}
               PROVE  TopicRisk(f, task) >= 3
    OBVIOUS
  <2> QED
    BY <1>1 DEF TopicRisk, Raise
<1> QED
  BY <1>4, <1>5, <1>6, <1>7

\* Auth, payment, migration and security next to code, production or change
\* are high, whatever task the text was taken for.
THEOREM StakesAreHigh == Spec => []StakesInContextAreHigh
<1>1. Inv => StakesInContextAreHigh
  <2> SUFFICES ASSUME Inv, Described,
                      job.keywords \cap {"auth", "payment", "migration", "security"} # {},
                      job.code \/ job.keywords \cap {"production", "change_intent"} # {}
               PROVE  job.risk >= 3
    BY DEF StakesInContextAreHigh
  <2> DEFINE f == Features(request)
             task == ClassifyTask(request, f).task
             hint == Parsed(FirstString(request.risk), RiskLevels, "")
  <2>1. job.keywords = f.keywords /\ job.code = f.code /\ job.risk = ClassifyRisk(f, task, hint)
    <3>1. job = NewJobDescriptor(request)
      BY DescribedIs
    <3> QED
      BY <3>1, Fields
  <2> HIDE DEF f, task, hint
  <2>2. TopicRisk(f, task) >= 3
    BY <2>1, StakesRaise, RiskIsARank DEF CodeOrPath
  <2>3. DerivedRisk(f, task) \in 1..4 /\ DerivedRisk(f, task) >= 3
    BY <2>2, RiskIsARank
  <2>4. /\ Hinted(DerivedRisk(f, task), hint) \in 1..4
        /\ Hinted(DerivedRisk(f, task), hint) >= DerivedRisk(f, task)
    BY <2>3, HintRaises
  <2> QED
    BY <2>1, <2>3, <2>4 DEF ClassifyRisk
<1> QED
  BY <1>1, Invariance, PTL

\* A text with a word of risk and no stated intent is of unknown risk, whichever of the
\* earlier cases it was passed by.
LEMMA SignalNeedsIntent ==
  ASSUME NEW r, NEW f, RiskSignal(r.text, f), ~StrongIntent(r.text, f)
  PROVE  ClassifyTask(r, f).task = "unknown_high_risk"
<1>1. ~SecurityReview(r.text) /\ ~DatabaseMigration(r.text, f) /\ ~Debug(f) /\ ~TrivialGit(r.text)
  BY DEF StrongIntent, Debug
<1> QED
  BY <1>1 DEF ClassifyTask, Result

\* A job whose decision may be shared shows no feature of risk, and a word that signals
\* risk only beside a stated intent, for every text.
THEOREM SharedShowsNoRisk == Spec => []SharedHasNoRiskyFeature
<1>1. Inv => SharedHasNoRiskyFeature
  <2> SUFFICES ASSUME Inv, Described, Cacheable(job)
               PROVE  SharedHasNoRiskyFeature
    BY DEF SharedHasNoRiskyFeature
  <2> DEFINE f == Features(request)
             task == ClassifyTask(request, f).task
             hint == Parsed(FirstString(request.risk), RiskLevels, "")
  <2>1. /\ job.keywords = f.keywords /\ job.code = f.code /\ job.risk = ClassifyRisk(f, task, hint)
        /\ job.riskHint = hint /\ job.task = task
    <3>1. job = NewJobDescriptor(request)
      BY DescribedIs
    <3> QED
      BY <3>1, Fields
  <2>2. /\ "secret" \in f.keywords => "secrets_possible" \in f.hints
        /\ "pii" \in f.keywords => "pii" \in f.hints
    BY DEF Features, SensitivityHints
  <2>3. hint \in RiskLevels \cup {""}
    BY HintIsALevel
  <2>10. RiskSignal(request.text, f) /\ ~StrongIntent(request.text, f) => task = "unknown_high_risk"
    BY SignalNeedsIntent
  <2> HIDE DEF f, task, hint
  <2>4. DerivedRisk(f, task) \in 1..4 /\ TopicRisk(f, task) \in 1..3 /\ TaskRisk(task) \in 1..3
    BY RiskIsARank
  <2>5. DerivedRisk(f, task) = 1 /\ hint \in {"", "low"}
    <3>1. Hinted(DerivedRisk(f, task), hint) = 1
      BY <2>1 DEF ClassifyRisk, Cacheable
    <3>2. /\ Hinted(DerivedRisk(f, task), hint) >= DerivedRisk(f, task)
          /\ hint \in RiskLevels => Hinted(DerivedRisk(f, task), hint) >= RiskRank[hint]
      BY <2>4, HintRaises
    <3>3. DerivedRisk(f, task) = 1
      BY <2>4, <3>1, <3>2
    <3>4. hint # "medium" /\ hint # "high" /\ hint # "critical"
      BY <3>1, <3>2, Ranks DEF RiskLevels
    <3> QED
      BY <2>3, <3>3, <3>4 DEF RiskLevels
  <2>6. TopicRisk(f, task) = 1 /\ TaskRisk(task) = 1
    <3>1. DerivedRisk(f, task) >= TopicRisk(f, task) /\ TopicRisk(f, task) >= TaskRisk(task)
      BY RiskIsARank
    <3> QED
      BY <2>4, <2>5, <3>1, LowestChain
  <2>7. task \notin {"security_review", "database_migration", "unknown_high_risk"}
    BY <2>6 DEF TaskRisk
  <2>8. ~f.code /\ f.keywords \cap {"auth", "payment", "migration", "sql", "security"} = {}
    BY <2>6, StakesRaise DEF CodeOrPath
  <2>9. "secret" \notin f.keywords /\ "pii" \notin f.keywords
    <3>1. /\ "secrets_possible" \in f.hints => DerivedRisk(f, task) >= 3
          /\ "pii" \in f.hints => DerivedRisk(f, task) >= 2
      BY StakesRaise
    <3>2. "secrets_possible" \notin f.hints /\ "pii" \notin f.hints
      <4>1. ~(DerivedRisk(f, task) >= 2) /\ ~(DerivedRisk(f, task) >= 3)
        <5>1. DerivedRisk(f, task) = 1
          BY <2>5
        <5> QED
          BY <5>1
      <4> QED
        BY <3>1, <4>1
    <3> QED
      BY <2>2, <3>2
  <2> QED
    <3>1. /\ ~job.code /\ job.riskHint \in {"", "low"}
          /\ job.keywords \cap {"auth", "payment", "security", "secret", "pii", "migration", "sql"} = {}
          /\ job.task \notin {"security_review", "database_migration", "unknown_high_risk"}
      BY <2>1, <2>5, <2>7, <2>8, <2>9
    <3>2. RiskSignal(request.text, Features(request)) => StrongIntent(request.text, Features(request))
      BY <2>7, <2>10 DEF f
    <3> QED BY <3>1, <3>2 DEF SharedHasNoRiskyFeature
<1> QED
  BY <1>1, Invariance, PTL

\* More features and a task of no less risk give no less risk.  The task's own word counts
\* twice, as a level and as a topic; as a topic it is only missed when it is security.
LEMMA RiskRises ==
  ASSUME NEW f, NEW g, NEW task, NEW next,
         f.keywords \subseteq g.keywords, f.hints \subseteq g.hints,
         f.code => g.code, f.files => g.files,
         TaskRisk(task) <= TaskRisk(next),
         task = "security_review" => next = "security_review"
  PROVE  DerivedRisk(f, task) <= DerivedRisk(g, next)
<1>1. /\ CodeOrPath(f) => CodeOrPath(g)
      /\ Security(f, task) => Security(g, next)
      /\ Critical(f, task) => Critical(g, next)
  BY DEF CodeOrPath, Security, Critical
<1>2. Migration(f, task) => Migration(g, next) \/ TaskRisk(next) = 3
  BY DEF Migration, TaskRisk
<1>3. /\ TaskRisk(task) \in 1..3 /\ TaskRisk(next) \in 1..3
      /\ TopicRisk(f, task) \in 1..3 /\ TopicRisk(g, next) \in 1..3
      /\ TopicRisk(g, next) >= TaskRisk(next)
  BY RiskIsARank
<1>4. TopicRisk(f, task) <= TopicRisk(g, next)
  BY <1>1, <1>2, <1>3 DEF TopicRisk, Raise
<1>5. Escalate(f, task, TopicRisk(f, task)) <= Escalate(g, next, TopicRisk(g, next))
  BY <1>1, <1>2, <1>3, <1>4 DEF Escalate
<1>6. /\ Escalate(f, task, TopicRisk(f, task)) \in 1..3
      /\ Escalate(g, next, TopicRisk(g, next)) \in 1..3
  BY <1>3 DEF Escalate
<1> QED
  BY <1>1, <1>5, <1>6 DEF DerivedRisk, Raise

\* For one task, a text with more features is of no less risk: neither the
\* single step of the escalation nor the order of the contributions loses any.
THEOREM RiskIsMonotone ==
  ASSUME NEW f, NEW g, NEW task,
         f.keywords \subseteq g.keywords, f.hints \subseteq g.hints,
         f.code => g.code, f.files => g.files
  PROVE  DerivedRisk(f, task) <= DerivedRisk(g, task)
<1>1. TaskRisk(task) <= TaskRisk(task)
  BY RiskIsARank
<1> QED
  BY <1>1, RiskRises

\* q is the request r with one phrase more, as long or longer.
GoesOn(r, q) ==
  \E p \in Phrases, s \in Nat : s >= r.size /\ q = [r EXCEPT !.text = @ \cup {p}, !.size = s]

\* The request that carries one phrase more has all features the first one has.
LEMMA FeaturesGrow ==
  ASSUME NEW r \in Request, NEW q, GoesOn(r, q)
  PROVE  LET f == Features(r) g == Features(q) IN
         /\ f.keywords \subseteq g.keywords /\ f.hints \subseteq g.hints
         /\ f.code => g.code
         /\ f.files => g.files
         /\ f.trace => g.trace
         /\ g.trace => g.code
         /\ r.text \subseteq q.text
<1>1. /\ r.text \subseteq q.text /\ q.asks = r.asks
      /\ q.size >= r.size /\ q.size \in Nat /\ r.size \in Nat
  BY DEF Request, GoesOn
<1>2. \A terms : Has(r.text, terms) => Has(q.text, terms)
  BY <1>1 DEF Has
<1>3. Keywords(r) \subseteq Keywords(q)
  <2>1. r.size >= LargePrompt => q.size >= LargePrompt
    BY <1>1, SizesAssumption
  <2> QED BY <1>1, <1>2, <2>1 DEF Keywords
<1>4. /\ Files(r) => Files(q)
      /\ StackTrace(r) => StackTrace(q)
  BY <1>1, <1>2 DEF Files, StackTrace
<1>5. /\ RequiresCode(r) => RequiresCode(q)
      /\ StackTrace(q) => RequiresCode(q)
  BY <1>2, <1>3, <1>4 DEF RequiresCode
<1>6. SensitivityHints(r) \subseteq SensitivityHints(q)
  BY <1>3, <1>5 DEF SensitivityHints
<1> QED
  BY <1>1, <1>3, <1>4, <1>5, <1>6 DEF Features

\* The signals of the tasks that a text can lose to no other but an earlier one.
LEMMA SignalsStay ==
  ASSUME NEW r \in Request, NEW q, GoesOn(r, q)
  PROVE  LET text == r.text f == Features(r) more == q.text g == Features(q) IN
         /\ SecurityReview(text) => SecurityReview(more)
         /\ DatabaseMigration(text, f) => DatabaseMigration(more, g)
         /\ Debug(f) => Debug(g)
         /\ CodeGen(text) => CodeGen(more)
         /\ SimpleCodeEdit(text, f) => SimpleCodeEdit(more, g) \/ Debug(g)
<1> DEFINE text == r.text
           more == q.text
           f == Features(r)
           g == Features(q)
<1>0. /\ f.keywords \subseteq g.keywords /\ text \subseteq more
      /\ f.code => g.code
      /\ f.trace => g.trace
      /\ g.trace => g.code
  BY FeaturesGrow
<1> HIDE DEF text, more, f, g
<1> SUFFICES /\ SecurityReview(text) => SecurityReview(more)
             /\ DatabaseMigration(text, f) => DatabaseMigration(more, g)
             /\ Debug(f) => Debug(g)
             /\ CodeGen(text) => CodeGen(more)
             /\ SimpleCodeEdit(text, f) => SimpleCodeEdit(more, g) \/ Debug(g)
  BY DEF text, more, f, g
<1>1. \A terms : Has(text, terms) => Has(more, terms)
  BY <1>0 DEF Has
<1>2. SecurityReview(text) => SecurityReview(more)
  BY <1>1 DEF SecurityReview
<1>3. DatabaseMigration(text, f) => DatabaseMigration(more, g)
  BY <1>0, <1>1 DEF DatabaseMigration
<1>4. Debug(f) => Debug(g)
  BY <1>0 DEF Debug
<1>5. CodeGen(text) => CodeGen(more)
  BY <1>1 DEF CodeGen
<1>6. SimpleCodeEdit(text, f) => SimpleCodeEdit(more, g) \/ Debug(g)
  BY <1>0, <1>1 DEF SimpleCodeEdit, Debug
<1> QED
  BY <1>2, <1>3, <1>4, <1>5, <1>6

\* The order of the cases, for the tasks whose own risk is not the lowest.
CasesInOrder(r, f, task) ==
  /\ task = "security_review" <=> SecurityReview(r.text) /\ ~DocIntent(r.text)
  /\ task = "database_migration" => DatabaseMigration(r.text, f)
  /\ task = "hard_code_debugging" => Debug(f)
  /\ task = "long_context_analysis" => "large_context" \in f.keywords
  /\ task = "simple_code_edit" => SimpleCodeEdit(r.text, f) \/ CodeGen(r.text)
  /\ DatabaseMigration(r.text, f) => TaskRisk(task) = 3
  /\ Debug(f) => TaskRisk(task) \in {2, 3}
  /\ "large_context" \in f.keywords \/ SimpleCodeEdit(r.text, f) \/ CodeGen(r.text) =>
       TaskRisk(task) \in {2, 3} \/ task \in {"trivial_git", "summarization"}

\* ClassifyTask takes them in that order.
LEMMA TaskCases == ASSUME NEW r, NEW f PROVE CasesInOrder(r, f, ClassifyTask(r, f).task)
<1> DEFINE task == ClassifyTask(r, f).task
<1>1. \A t, c : Result(t, c).task = t
  BY DEF Result
<1>2. CASE SecurityReview(r.text) /\ ~DocIntent(r.text)
  <2>1. task = "security_review"
    BY <1>1, <1>2 DEF ClassifyTask
  <2> QED BY <1>2, <2>1 DEF TaskRisk, CasesInOrder
<1>3. CASE ~(SecurityReview(r.text) /\ ~DocIntent(r.text)) /\ DatabaseMigration(r.text, f)
  <2>1. task = "database_migration"
    BY <1>1, <1>3 DEF ClassifyTask
  <2> QED BY <1>3, <2>1 DEF TaskRisk, CasesInOrder
<1>4. CASE /\ ~(SecurityReview(r.text) /\ ~DocIntent(r.text)) /\ ~DatabaseMigration(r.text, f)
           /\ Debug(f)
  <2>1. task = "hard_code_debugging"
    BY <1>1, <1>4 DEF ClassifyTask
  <2> QED BY <1>4, <2>1 DEF TaskRisk, CasesInOrder
<1>5. CASE /\ ~(SecurityReview(r.text) /\ ~DocIntent(r.text)) /\ ~DatabaseMigration(r.text, f)
           /\ ~Debug(f)
  <2>1. /\ task = "long_context_analysis" => "large_context" \in f.keywords
        /\ task = "simple_code_edit" => SimpleCodeEdit(r.text, f) \/ CodeGen(r.text)
        /\ task \notin {"security_review", "database_migration", "hard_code_debugging"}
    BY <1>1, <1>5 DEF ClassifyTask
  <2>2. "large_context" \in f.keywords \/ SimpleCodeEdit(r.text, f) \/ CodeGen(r.text) =>
          task \in {"trivial_git", "unknown_high_risk", "long_context_analysis",
                   "summarization", "simple_code_edit"}
    BY <1>1, <1>5 DEF ClassifyTask
  <2> QED BY <1>5, <2>1, <2>2 DEF TaskRisk, CasesInOrder
<1> QED BY <1>2, <1>3, <1>4, <1>5

\* One phrase more gives a task of no less risk, but for the three exceptions that
\* RiskDropsOnlyByIntent makes.
LEMMA TaskRises ==
  ASSUME NEW r \in Request, NEW q, GoesOn(r, q)
  PROVE  LET t == ClassifyTask(r, Features(r)).task
             u == ClassifyTask(q, Features(q)).task IN
         \/ t = "unknown_high_risk" \/ u \in {"trivial_git", "summarization"}
         \/ t = "security_review" /\ DocIntent(q.text)
         \/ TaskRisk(t) <= TaskRisk(u) /\ (t = "security_review" => u = "security_review")
<1> DEFINE f == Features(r)
           g == Features(q)
           t == ClassifyTask(r, f).task
           u == ClassifyTask(q, g).task
<1> SUFFICES \/ t = "unknown_high_risk" \/ u \in {"trivial_git", "summarization"}
             \/ t = "security_review" /\ DocIntent(q.text)
             \/ TaskRisk(t) <= TaskRisk(u) /\ (t = "security_review" => u = "security_review")
  OBVIOUS
<1>1. f.keywords \subseteq g.keywords
  BY FeaturesGrow
<1>2. /\ SecurityReview(r.text) => SecurityReview(q.text)
      /\ DatabaseMigration(r.text, f) => DatabaseMigration(q.text, g)
      /\ Debug(f) => Debug(g)
      /\ CodeGen(r.text) => CodeGen(q.text)
      /\ SimpleCodeEdit(r.text, f) => SimpleCodeEdit(q.text, g) \/ Debug(g)
  BY SignalsStay
<1>3. CasesInOrder(r, f, t) /\ CasesInOrder(q, g, u)
  BY TaskCases
<1>4. TaskRisk(t) \in 1..3 /\ TaskRisk(u) \in 1..3
  BY RiskIsARank
<1> HIDE DEF f, g, t, u
<1>5. CASE t = "security_review"
  BY <1>2, <1>3, <1>4, <1>5 DEF CasesInOrder
<1>6. CASE t = "database_migration"
  BY <1>2, <1>3, <1>4, <1>6 DEF CasesInOrder
<1>7. CASE t \in {"hard_code_debugging", "long_context_analysis", "simple_code_edit"}
  <2>1. TaskRisk(t) = 2 /\ t # "security_review"
    BY <1>7 DEF TaskRisk
  <2>2. \/ Debug(g)
        \/ "large_context" \in g.keywords \/ SimpleCodeEdit(q.text, g) \/ CodeGen(q.text)
    BY <1>1, <1>2, <1>3, <1>7 DEF CasesInOrder
  <2>3. TaskRisk(u) \in {2, 3} \/ u \in {"trivial_git", "summarization"}
    BY <1>3, <2>2 DEF CasesInOrder
  <2> QED BY <2>1, <2>3
<1>8. CASE t \notin {"security_review", "database_migration", "unknown_high_risk",
                    "hard_code_debugging", "long_context_analysis", "simple_code_edit"}
  <2>1. TaskRisk(t) = 1
    BY <1>8 DEF TaskRisk
  <2> QED BY <1>4, <1>8, <2>1
<1> QED BY <1>5, <1>6, <1>7, <1>8

\* A hint keeps the order of two ranks.
LEMMA HintIsMonotone ==
  ASSUME NEW low \in 1..4, NEW high \in 1..4, low <= high, NEW hint
  PROVE  Hinted(low, hint) <= Hinted(high, hint)
<1>1. CASE hint \in RiskLevels
  <2>1. RiskRank[hint] \in 1..4
    <3>1. hint = "low" \/ hint = "medium" \/ hint = "high" \/ hint = "critical"
      BY <1>1 DEF RiskLevels
    <3>2. 1 \in 1..4 /\ 2 \in 1..4 /\ 3 \in 1..4 /\ 4 \in 1..4
      OBVIOUS
    <3> QED BY <3>1, <3>2, Ranks
  <2> DEFINE n == RiskRank[hint]
  <2>2. Hinted(low, hint) = Raise(low, TRUE, n) /\ Hinted(high, hint) = Raise(high, TRUE, n)
    BY <1>1, Ranks DEF Hinted
  <2> HIDE DEF n
  <2>3. n \in 1..4
    BY <2>1 DEF n
  <2>4. Raise(low, TRUE, n) <= Raise(high, TRUE, n)
    BY <2>3 DEF Raise
  <2> QED BY <2>2, <2>4
<1>2. CASE hint \notin RiskLevels
  BY <1>2, Ranks DEF Hinted
<1> QED BY <1>1, <1>2

\* A conversation that goes on loses risk only by stating an intent, however it began and
\* whatever is said in it.
THEOREM DropsOnlyByIntent == Spec => RiskDropsOnlyByIntent
<1> DEFINE Excused == \/ job.task = "unknown_high_risk"
                      \/ job'.task \in {"trivial_git", "summarization"}
                      \/ job.task = "security_review" /\ DocIntent(request.text')
<1>1. Inv /\ [Next]_vars => [Described /\ job'.risk < job.risk => Excused]_vars
  <2> SUFFICES ASSUME Inv, Next, Described, job'.risk < job.risk, ~Excused
               PROVE  FALSE
    BY DEF vars
  <2>1. Continue
    BY DEF Next, Describe, Described
  <2>2. PICK p \in Follow, s \in Sizes :
          /\ s >= request.size
          /\ request' = [request EXCEPT !.text = @ \cup {p}, !.size = s]
          /\ job' = NewJobDescriptor(request')
    BY <2>1 DEF Continue
  <2>3. request \in Request /\ GoesOn(request, request')
    BY <2>2, RequestsAssumption DEF Inv, GoesOn
  <2> DEFINE f == Features(request)
             g == Features(request')
             t == ClassifyTask(request, f).task
             u == ClassifyTask(request', g).task
             hint == Parsed(FirstString(request.risk), RiskLevels, "")
  <2>4. /\ job.task = t /\ job'.task = u /\ request'.text = request.text'
        /\ job.risk = Hinted(DerivedRisk(f, t), hint)
        /\ job'.risk = Hinted(DerivedRisk(g, u), hint)
    <3>1. job = NewJobDescriptor(request)
      BY DescribedIs
    <3>2. request'.risk = request.risk
      BY <2>2, <2>3 DEF Request
    <3> QED BY <2>2, <3>1, <3>2, Fields DEF ClassifyRisk
  <2>5. TaskRisk(t) <= TaskRisk(u) /\ (t = "security_review" => u = "security_review")
    <3>1. \/ t = "unknown_high_risk" \/ u \in {"trivial_git", "summarization"}
          \/ t = "security_review" /\ DocIntent(request'.text)
          \/ TaskRisk(t) <= TaskRisk(u) /\ (t = "security_review" => u = "security_review")
      BY <2>3, TaskRises
    <3> QED BY <2>4, <3>1
  <2>6. /\ f.keywords \subseteq g.keywords /\ f.hints \subseteq g.hints
        /\ f.code => g.code
        /\ f.files => g.files
    BY <2>3, FeaturesGrow
  <2> HIDE DEF f, g, t, u, hint
  <2>7. DerivedRisk(f, t) <= DerivedRisk(g, u)
    BY <2>5, <2>6, RiskRises
  <2>8. Hinted(DerivedRisk(f, t), hint) <= Hinted(DerivedRisk(g, u), hint)
    BY <2>7, RiskIsARank, HintIsMonotone
  <2>9. /\ Hinted(DerivedRisk(f, t), hint) \in 1..4
        /\ Hinted(DerivedRisk(g, u), hint) \in 1..4
    BY RiskIsARank, HintRaises
  <2> QED BY <2>4, <2>8, <2>9
<1> QED BY <1>1, Invariance, PTL DEF Spec, RiskDropsOnlyByIntent
=============================================================================
