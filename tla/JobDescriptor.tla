---------------------------- MODULE JobDescriptor ----------------------------
(***************************************************************************)
(* From a request to the descriptor every later decision reads             *)
(* (NewJobDescriptor in internal/router/job.go), and from there to the     *)
(* right to share a cached decision (Cacheable in internal/decisioncache). *)
(* The client's hints arrive in metadata and headers; each hint is the     *)
(* sequence of the places where it may be, in the order they are asked.    *)
(***************************************************************************)
EXTENDS Classifier, Sequences

CONSTANTS
  Requests,    \* requests a conversation may begin with
  Follow,      \* phrases by which it goes on
  Sizes,       \* and sizes it may grow to
  MaxPhrases   \* and how far it is followed

Needs == {"tool_use", "json_schema", "vision", "large_context", "requires_json_schema"}

(* tenant is the authenticated one or empty; risk, sensitivity, mode and   *)
(* tenantHint are the places of the hints, in order                        *)
Request ==
  [text : SUBSET Phrases, size : Nat, asks : SUBSET Needs, tenant : STRING,
   risk : Seq(STRING), sensitivity : Seq(STRING), mode : Seq(STRING), tenantHint : Seq(STRING)]

ASSUME RequestsAssumption ==
  /\ Requests \subseteq Request /\ Follow \subseteq Phrases
  /\ Sizes \subseteq Nat /\ MaxPhrases \in Nat

VARIABLES request, job
vars == <<request, job>>

Unset == [task |-> "unknown_high_risk", confidence |-> 0, risk |-> 3, sensitivity |-> "none",
          riskHint |-> "", sensitivityHint |-> "none", mode |-> "auto", tenant |-> "",
          tenantHint |-> "", schema |-> FALSE, keywords |-> {}, code |-> FALSE]

(* firstString: the first place that holds anything, even a word that is   *)
(* no level; the places behind it are not asked                            *)
FirstString(places) ==
  LET held == {i \in DOMAIN places : places[i] # ""} IN
  IF held = {} THEN "" ELSE places[CHOOSE i \in held : \A j \in held : i <= j]

(* Mutants: persons before secrets; the risk is left out of the decision   *)
(* to share.                                                               *)
FirstSensitivity(hints) ==
  IF "pii" \in hints THEN "pii" ELSE IF "secrets_possible" \in hints THEN "secrets_possible"
  ELSE IF hints # {} THEN "source_code" ELSE "none"
CacheableWhenNotSensitive(j) == j.sensitivity = "none"

(* the parse functions: a known word or what was there before *)
Parsed(value, known, default) == IF value \in known THEN value ELSE default

RiskLevels == {"low", "medium", "high", "critical"}
Sensitivities == {"none", "source_code", "pii", "secrets_possible"}
Modes == {"auto", "cheap", "balanced", "premium", "disabled"}

(* sensitivityFromFeatureHints *)
FeatureSensitivity(hints) ==
  IF "secrets_possible" \in hints THEN "secrets_possible"
  ELSE IF "pii" \in hints THEN "pii"
  ELSE IF hints # {} THEN "source_code" ELSE "none"

NewJobDescriptor(r) ==
  LET f == Features(r)
      task == ClassifyTask(r, f)
      riskHint == Parsed(FirstString(r.risk), RiskLevels, "") IN
  [task |-> task.task, confidence |-> task.confidence,
   risk |-> ClassifyRisk(f, task.task, riskHint),
   sensitivity |-> RiskSensitivity(f),
   riskHint |-> riskHint,
   sensitivityHint |-> Parsed(FirstString(r.sensitivity), Sensitivities,
                              FeatureSensitivity(f.hints)),
   mode |-> Parsed(FirstString(r.mode), Modes, "auto"),
   tenant |-> r.tenant,
   tenantHint |-> IF r.tenant = "" THEN FirstString(r.tenantHint) ELSE "",
   schema |-> r.asks \cap {"requires_json_schema"} # {} \/ "json_schema" \in f.keywords,
   keywords |-> f.keywords, code |-> f.code]

(* decisioncache.Cacheable *)
Cacheable(j) == j.risk = 1 /\ j.sensitivity = "none"

Init == request \in Requests /\ job = Unset

Describe == /\ job = Unset
            /\ job' = NewJobDescriptor(request)
            /\ UNCHANGED request

(* the client's next request carries the conversation so far and one more  *)
(* phrase, and is as long or longer; MaxPhrases bounds how far the model   *)
(* follows it                                                              *)
Continue ==
  /\ job # Unset /\ Cardinality(request.text) < MaxPhrases
  /\ \E p \in Follow, size \in Sizes :
       /\ size >= request.size
       /\ request' = [request EXCEPT !.text = @ \cup {p}, !.size = size]
       /\ job' = NewJobDescriptor(request')

Next == Describe \/ Continue
Spec == Init /\ [][Next]_vars

----------------------------------------------------------------------------
Tasks == {"simple_chat", "trivial_git", "simple_shell", "summarization", "simple_code_edit",
          "hard_code_debugging", "security_review", "database_migration",
          "long_context_analysis", "creative_copy", "unknown_high_risk"}
Described == job # Unset
WithoutHints == [request EXCEPT !.risk = <<>>, !.sensitivity = <<>>]

(* The words a descriptor is made of are those the engine knows.           *)
TypeOK ==
  /\ job.task \in Tasks /\ job.confidence \in 0..100
  /\ job.risk \in 1..4 /\ job.sensitivity \in Sensitivities
  /\ job.riskHint \in RiskLevels \cup {""} /\ job.sensitivityHint \in Sensitivities
  /\ job.mode \in Modes /\ job.schema \in BOOLEAN /\ job.code \in BOOLEAN
  /\ job.keywords \subseteq DOMAIN KeywordTerms

(* A decision that other requests of the tenant may be given from the      *)
(* cache: no code was seen in the text and no keyword of credentials,      *)
(* people, money or migrations, no high task and no hint of risk.  A word  *)
(* that only signals risk, such as "secrets" or "pii", makes no keyword    *)
(* (task.go:314): the decision is shared when an intent stands beside it,  *)
(* and the client's hint of sensitivity is not looked at.                  *)
SharedHasNoRiskyFeature ==
  Described /\ Cacheable(job) =>
    /\ ~job.code /\ job.riskHint \in {"", "low"}
    /\ job.keywords \cap {"auth", "payment", "security", "secret", "pii", "migration", "sql"} = {}
    /\ job.task \notin {"security_review", "database_migration", "unknown_high_risk"}
    /\ RiskSignal(request.text, Features(request)) =>
         StrongIntent(request.text, Features(request))

(* 06-engineering/07-caching.md:48 rules out caching when the prompt holds *)
(* sensitive data: here the words of secrets and persons that the          *)
(* classifier itself lists as signals of risk.                             *)
SensitiveIsNeverShared ==
  Described /\ Cacheable(job) =>
    ~Has(request.text, {"ssn", "pii", "secret", "secrets", "api key"})

(* What the client says about itself changes neither the task nor the      *)
(* sensitivity and never lowers the risk derived from the text.            *)
HintsOnlyRaise ==
  Described =>
    LET plain == NewJobDescriptor(WithoutHints) IN
    /\ job.risk >= plain.risk
    /\ job.task = plain.task /\ job.sensitivity = plain.sensitivity

(* The sensitivity derived for the descriptor's hint and the one derived   *)
(* with the risk are computed apart from the same features: they agree     *)
(* unless the client hinted.                                               *)
SensitivitiesAgree ==
  Described /\ FirstString(request.sensitivity) = "" => job.sensitivityHint = job.sensitivity

(* A conversation becomes less risky by going on only when it states an    *)
(* intent it had not stated, turns out to be about a summary or a commit   *)
(* message, or asks for a document about the security it was to review.    *)
(* No other phrase, and no order of phrases, takes risk away.              *)
RiskDropsOnlyByIntent ==
  [][Described /\ job'.risk < job.risk =>
       \/ job.task = "unknown_high_risk"
       \/ job'.task \in {"trivial_git", "summarization"}
       \/ job.task = "security_review" /\ DocIntent(request.text')]_vars

(* ISSUE-018: auth, payments, migrations and security are at least high    *)
(* together with code, a path, production or the intent to change; on the  *)
(* way there production lifts only what is not yet high.                   *)
StakesInContextAreHigh ==
  Described /\ job.keywords \cap {"auth", "payment", "migration", "security"} # {}
            /\ (job.code \/ job.keywords \cap {"production", "change_intent"} # {})
    => job.risk >= 3
=============================================================================
