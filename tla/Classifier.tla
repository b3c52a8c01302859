----------------------------- MODULE Classifier -----------------------------
(***************************************************************************)
(* What a request is taken to be: the features of its text                 *)
(* (internal/classifier/features.go), its task (task.go), its risk and     *)
(* sensitivity (risk.go).  The rules search the lower-cased text of the    *)
(* messages for terms, word by word or, where a term has a blank or a sign *)
(* in it, as a substring, so a longer term also hits the rules of the      *)
(* shorter ones inside it.  A text is therefore abstracted to the set of   *)
(* the phrases in it; each phrase stands for all the terms that the rules  *)
(* cannot tell from it.  Confidence is in per cent, risk by its rank.      *)
(***************************************************************************)
EXTENDS Naturals, FiniteSets

CONSTANTS
  ShortPrompt,  \* 240: the most characters of a short prompt
  LargePrompt   \* 32000: the characters from which a context is large

ASSUME SizesAssumption == ShortPrompt \in Nat /\ LargePrompt \in Nat /\ ShortPrompt < LargePrompt

(* keywordRules: the phrases that hold a term of each keyword *)
KeywordTerms ==
  [sql |-> {"alter table", "create table", ".sql", "db/migrations/1.sql", "insert into"},
   migration |-> {"migration", "schema", "rollback", "json schema", "db/migrations/1.sql"},
   auth |-> {"jwt", "password", "auth bypass", "permission bypass"},
   payment |-> {"stripe"},
   security |-> {"security", "xss", "exploit", "injection", "secret", "security review"},
   debug |-> {"deadlock", "panic:"},
   code |-> {"goroutine", "unit tests"},
   exploit |-> {"exploit", "rce"},
   production |-> {"production", "outage"},
   urgent |-> {"asap", "rollback"},
   change_intent |-> {"fix", "patch", "implement", "rollback"},
   json_schema |-> {"json schema", "return json"},
   tool_use |-> {"use tools"},
   vision |-> {"image"},
   large_context |-> {"long context", "whole repository"},
   source_code |-> {"repo", "whole repository"},
   pii |-> {"email", "ssn"},
   secret |-> {"api key", "secret", "password"}]

Phrases ==
  UNION {KeywordTerms[k] : k \in DOMAIN KeywordTerms}
    \cup {"fenced code", "inline code", "src/main.go", "threat model", "audit", "review", "secrets", "pii",
          "commit message", "git diff", "changelog", "summary", "explain", "write", "script",
          "refactor", "bash", "tagline", "hello"}

Has(text, terms) == text \cap terms # {}

----------------------------------------------------------------------------
(* ExtractFromMessages: features of a request [text, size, asks], where    *)
(* asks are the needs its tools, response format and metadata state.       *)

Keywords(r) ==
  {k \in DOMAIN KeywordTerms : Has(r.text, KeywordTerms[k])}
    \cup (r.asks \cap {"tool_use", "json_schema", "vision", "large_context"})
    \cup (IF r.size >= LargePrompt THEN {"large_context"} ELSE {})

Files(r) == Has(r.text, {"src/main.go", "db/migrations/1.sql"})
StackTrace(r) == "panic:" \in r.text

RequiresCode(r) ==
  \/ Has(r.text, {"fenced code", "inline code"}) \/ StackTrace(r) \/ Files(r)
  \/ Keywords(r) \cap {"sql", "migration", "source_code", "debug", "code"} # {}

SensitivityHints(r) ==
  (Keywords(r) \cap {"pii", "auth", "payment", "security"})
    \cup (IF "secret" \in Keywords(r) THEN {"secrets_possible"} ELSE {})
    \cup (IF RequiresCode(r) THEN {"source_code"} ELSE {})

Features(r) ==
  [keywords |-> Keywords(r), files |-> Files(r), trace |-> StackTrace(r),
   code |-> RequiresCode(r), hints |-> SensitivityHints(r)]

----------------------------------------------------------------------------
(* ClassifyTask: signals of the text, then the first case that applies.    *)

SecurityReview(text) ==
  \/ Has(text, {"xss", "exploit", "threat model", "security review"})
  \/ /\ Has(text, {"review", "audit", "security review"})
     /\ Has(text, {"secret", "secrets", "injection", "auth bypass", "permission bypass"})

DocIntent(text) == Has(text, {"explain", "changelog"})

DatabaseMigration(text, f) ==
  \/ {"migration", "sql"} \subseteq f.keywords
  \/ Has(text, {"alter table", "create table"})
  \/ /\ Has(text, {".sql", "db/migrations/1.sql", "migration"})
     /\ Has(text, {"schema", "json schema", "rollback"})

Debug(f) ==
  /\ f.trace \/ "debug" \in f.keywords
  /\ f.code \/ f.keywords \cap {"code", "auth", "payment", "security"} # {}

TrivialGit(text) ==
  "commit message" \in text /\ Has(text, {"git diff", "changelog"})

Summarization(text) == "summary" \in text \/ DocIntent(text)

CodeGen(text) ==
  /\ Has(text, {"write", "implement", "create table"})
  /\ Has(text, {"script", "api key", "unit tests"})

SimpleCodeEdit(text, f) ==
  /\ ~f.trace /\ f.code
  /\ Has(text, {"fix", "refactor", "review", "security review"})

SimpleShell(text, f) == ~f.code /\ ~f.trace /\ "bash" \in text

CreativeCopy(text) == "tagline" \in text

RiskSignal(text, f) ==
  \/ f.hints # {}
  \/ f.keywords \cap {"auth", "payment", "security", "secret", "pii"} # {}
  \/ Has(text, {"production", "ssn", "pii", "secret", "secrets", "api key"})

StrongIntent(text, f) ==
  \/ f.trace \/ f.code
  \/ f.keywords \cap {"large_context", "tool_use", "json_schema", "debug", "code"} # {}
  \/ CodeGen(text) \/ Summarization(text) \/ SimpleCodeEdit(text, f) \/ TrivialGit(text)
  \/ DatabaseMigration(text, f) \/ SecurityReview(text) \/ SimpleShell(text, f)
  \/ CreativeCopy(text)

Result(task, confidence) == [task |-> task, confidence |-> confidence]

ClassifyTask(r, f) ==
  LET text == r.text
      short == r.size \in 1..ShortPrompt IN
  IF SecurityReview(text) /\ ~DocIntent(text) THEN Result("security_review", 92)
  ELSE IF DatabaseMigration(text, f) THEN Result("database_migration", 90)
  ELSE IF Debug(f) THEN Result("hard_code_debugging", 88)
  ELSE IF TrivialGit(text) THEN Result("trivial_git", 86)
  ELSE IF RiskSignal(text, f) /\ ~StrongIntent(text, f) THEN Result("unknown_high_risk", 34)
  ELSE IF "large_context" \in f.keywords THEN Result("long_context_analysis", 78)
  ELSE IF Summarization(text) THEN Result("summarization", 84)
  ELSE IF SimpleCodeEdit(text, f) THEN Result("simple_code_edit", 82)
  ELSE IF CodeGen(text) THEN Result("simple_code_edit", 80)
  ELSE IF SimpleShell(text, f) THEN Result("simple_shell", 76)
  ELSE IF CreativeCopy(text) THEN Result("creative_copy", 74)
  ELSE IF short /\ ~f.code /\ "tool_use" \notin f.keywords /\ ~RiskSignal(text, f)
       THEN Result("simple_chat", 72)
  ELSE IF RiskSignal(text, f) THEN Result("unknown_high_risk", 32)
  ELSE Result("simple_chat", 45)

----------------------------------------------------------------------------
(* ClassifyRisk: contributions raise the level one after the other.        *)

RiskRank == [low |-> 1, medium |-> 2, high |-> 3, critical |-> 4]

(* raiseTo *)
Raise(level, cond, to) == IF cond /\ to > level THEN to ELSE level

TaskRisk(task) ==
  IF task \in {"security_review", "database_migration", "unknown_high_risk"} THEN 3
  ELSE IF task \in {"hard_code_debugging", "simple_code_edit", "long_context_analysis"} THEN 2
  ELSE 1

Migration(f, task) == f.keywords \cap {"migration", "sql"} # {} \/ task = "database_migration"
Security(f, task) == "security" \in f.keywords \/ task = "security_review"
CodeOrPath(f) == f.code \/ f.files

(* Mutants: change and production do not count; high falls to medium; the  *)
(* client's word is taken for it.                                          *)
TopicRiskNearCode(f, task) ==
  LET topic == {"auth", "payment"} \cap f.keywords # {} IN
  Raise(Raise(Raise(TaskRisk(task), CodeOrPath(f) \/ topic, 2), topic /\ CodeOrPath(f), 3),
        Migration(f, task) \/ Security(f, task), 3)
EscalateOver(f, task, level) ==
  IF /\ {"production", "urgent"} \cap f.keywords # {}
     /\ \/ CodeOrPath(f) \/ {"auth", "payment"} \cap f.keywords # {}
        \/ Migration(f, task) \/ Security(f, task)
  THEN IF level < 3 THEN level + 1 ELSE 2 ELSE level
HintTaken(level, hint) ==
  IF hint \in DOMAIN RiskRank THEN RiskRank[hint] ELSE level

(* auth and payment are medium, and high next to code, production or change *)
TopicRisk(f, task) ==
  LET topic == {"auth", "payment"} \cap f.keywords # {}
      context == CodeOrPath(f) \/ {"production", "change_intent"} \cap f.keywords # {} IN
  Raise(Raise(Raise(TaskRisk(task), CodeOrPath(f) \/ topic, 2), topic /\ context, 3),
        Migration(f, task) \/ Security(f, task), 3)

(* production or urgency lifts what is at stake by one step, up to high *)
Escalate(f, task, level) ==
  IF /\ level < 3
     /\ {"production", "urgent"} \cap f.keywords # {}
     /\ \/ CodeOrPath(f) \/ {"auth", "payment"} \cap f.keywords # {}
        \/ Migration(f, task) \/ Security(f, task)
  THEN level + 1 ELSE level

Critical(f, task) ==
  /\ "production" \in f.keywords
  /\ \/ /\ Security(f, task)
        /\ "secrets_possible" \in f.hints \/ {"exploit", "urgent"} \cap f.keywords # {}
     \/ /\ "secrets_possible" \in f.hints
        /\ {"exploit", "urgent"} \cap f.keywords # {}

DerivedRisk(f, task) ==
  Raise(Raise(Raise(Escalate(f, task, TopicRisk(f, task)),
                    "secrets_possible" \in f.hints, 3),
              "pii" \in f.hints, 2),
        Critical(f, task), 4)

(* the client's hint, if it is one of the four levels, raises at the end *)
Hinted(level, hint) ==
  IF hint \in DOMAIN RiskRank THEN Raise(level, TRUE, RiskRank[hint]) ELSE level

ClassifyRisk(f, task, hint) == Hinted(DerivedRisk(f, task), hint)

(* setSensitivity keeps the highest of secrets, pii and source code *)
RiskSensitivity(f) ==
  IF "secrets_possible" \in f.hints THEN "secrets_possible"
  ELSE IF "pii" \in f.hints THEN "pii"
  ELSE IF f.code \/ f.hints \cap {"source_code", "auth", "payment", "security"} # {}
       THEN "source_code"
  ELSE "none"
=============================================================================
