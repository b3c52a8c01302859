------------------------ MODULE PolicyRouting_proofs ------------------------
(***************************************************************************)
(* From the policies in force to the decision.                             *)
(*                                                                         *)
(* The policy store, for every set of documents, offers and requests and    *)
(* any number of reloads: a map of compiled policies is always made of the  *)
(* sources of one offer, an evaluation keeps the policy it took when it     *)
(* asked, and merging a rule gives up nothing of the rules before it.       *)
(*                                                                         *)
(* Routing, for every registry, every policy of any length and every order  *)
(* the scores may produce.  Evaluating more rules only adds denials, so a   *)
(* decision that respects the accumulated route respects every rule that    *)
(* matched; and the chain is cut from the ranking by validFallback alone.   *)
(*                                                                         *)
(* Between them, merging two routes of the policy language is merging what  *)
(* the engine sees of them.                                                 *)
(***************************************************************************)
EXTENDS PolicyStore, Routing, FiniteSetTheorems, SequenceTheorems, TLAPS

-------------------------------------------------------------------------------
(* The policy store. *)

\* What a map of compiled policies is made of: the first n sources of an offer, one policy
\* each, of a document that parses and that passed the check against its own snapshot.
MadeOf(map, offer, n) ==
  /\ DOMAIN map = {offer[i].scope : i \in 1..n}
  /\ \A i \in 1..n : LET source == offer[i] IN
       /\ map[source.scope].doc = source.doc
       /\ source.doc \in DOMAIN Written
       /\ CompileOK(Written[source.doc], Snapshot(map[source.scope].registry))
       /\ source.scope.project # "" => source.scope.tenant # ""

\* The map under construction is made of the sources that have been compiled.
LoaderInv ==
  /\ DOMAIN loader = DOMAIN NoLoad
  /\ loader # NoLoad =>
       /\ loader.offer \in Seq(Sources) /\ loader.at \in Nat \ {0}
       /\ \A i \in DOMAIN loader.offer : loader.offer[i].doc \in DOMAIN Written
       /\ loader.at <= Len(loader.offer) + 1 => MadeOf(loader.built, loader.offer, loader.at - 1)

\* The map in force is made of the whole offer it came from.
ActiveInv == inForce \in Seq(Sources) /\ MadeOf(active, inForce, Len(inForce))

\* Adding a source under a new scope leaves the others as they are.
LEMMA AddedMakes ==
  ASSUME NEW offer \in Seq(Sources), NEW n \in Nat, n < Len(offer), NEW map, NEW snapshot,
         MadeOf(map, offer, n), offer[n + 1].doc \in DOMAIN Written,
         SourceOK(offer[n + 1], snapshot, map)
  PROVE  MadeOf(Added(map, offer[n + 1], snapshot), offer, n + 1)
<1> DEFINE source == offer[n + 1]
           new == Added(map, source, snapshot)
<1>1. /\ DOMAIN new = {source.scope} \cup DOMAIN map
      /\ new[source.scope] = [doc |-> source.doc, registry |-> snapshot]
      /\ \A s \in DOMAIN map : new[s] = map[s]
  BY DEF Added, Over, SourceOK
<1>2. /\ CompileOK(Written[source.doc], Snapshot(snapshot))
      /\ source.scope.project # "" => source.scope.tenant # ""
  BY DEF SourceOK
<1> HIDE DEF new, source
<1>3. DOMAIN new = {offer[i].scope : i \in 1..(n + 1)}
  <2>1. 1..(n + 1) = (1..n) \cup {n + 1}
    OBVIOUS
  <2> QED BY <1>1, <2>1 DEF MadeOf, source
<1>4. ASSUME NEW i \in 1..(n + 1)
      PROVE  /\ new[offer[i].scope].doc = offer[i].doc
             /\ offer[i].doc \in DOMAIN Written
             /\ CompileOK(Written[offer[i].doc], Snapshot(new[offer[i].scope].registry))
             /\ offer[i].scope.project # "" => offer[i].scope.tenant # ""
  <2>1. CASE i = n + 1
    <3>1. offer[i] = source
      BY <2>1 DEF source
    <3>2. source.doc \in DOMAIN Written /\ new[source.scope].doc = source.doc
          /\ new[source.scope].registry = snapshot
      BY <1>1 DEF source
    <3> QED BY <1>2, <3>1, <3>2
  <2>2. CASE i \in 1..n
    <3>1. new[offer[i].scope] = map[offer[i].scope]
      BY <1>1, <2>2 DEF MadeOf
    <3> QED BY <2>2, <3>1 DEF MadeOf
  <2>3. i = n + 1 \/ i \in 1..n
    OBVIOUS
  <2> QED BY <2>1, <2>2, <2>3
<1> QED BY <1>3, <1>4 DEF MadeOf, new, source

\* The process starts with a map made of its first offer.
LEMMA BuiltMakes == MadeOf(Built(StartOffer, StartRegistry), StartOffer, Len(StartOffer))
<1> DEFINE map == Built(StartOffer, StartRegistry)
<1>1. /\ StartOffer \in Seq(Sources) /\ DOMAIN StartOffer = 1..Len(StartOffer)
      /\ DOMAIN Written = {d \in DOMAIN Documents : Parses[d]}
  BY StoreAssumption DEF StoreAssumption, Written
<1>2. DOMAIN map = {StartOffer[i].scope : i \in 1..Len(StartOffer)}
  BY <1>1 DEF Built
<1>3. ASSUME NEW i \in 1..Len(StartOffer)
      PROVE  /\ map[StartOffer[i].scope] = [doc |-> StartOffer[i].doc, registry |-> StartRegistry]
             /\ StartOffer[i].doc \in DOMAIN Written
             /\ CompileOK(Written[StartOffer[i].doc], Snapshot(StartRegistry))
             /\ StartOffer[i].scope.project # "" => StartOffer[i].scope.tenant # ""
  <2>1. /\ Parses[StartOffer[i].doc] /\ SourceOK(StartOffer[i], StartRegistry, NoFields)
        /\ \A j \in DOMAIN StartOffer : StartOffer[j].scope = StartOffer[i].scope => j = i
    BY <1>1, StoreAssumption DEF StoreAssumption
  <2>2. StartOffer[i].doc \in DOMAIN Documents
    <3>1. StartOffer[i] \in Sources
      BY <1>1
    <3> QED BY <3>1 DEF Sources
  <2>3. (CHOOSE j \in DOMAIN StartOffer : StartOffer[j].scope = StartOffer[i].scope) = i
    BY <1>1, <2>1
  <2>4. map[StartOffer[i].scope] = [doc |-> StartOffer[i].doc, registry |-> StartRegistry]
    BY <1>1, <2>3 DEF Built
  <2> QED BY <1>1, <2>1, <2>2, <2>4 DEF SourceOK
<1> HIDE DEF map
<1>4. ASSUME NEW i \in 1..Len(StartOffer)
      PROVE  /\ map[StartOffer[i].scope].doc = StartOffer[i].doc
             /\ map[StartOffer[i].scope].registry = StartRegistry
  <2>1. map[StartOffer[i].scope] = [doc |-> StartOffer[i].doc, registry |-> StartRegistry]
    BY <1>3
  <2> QED BY <2>1
<1> QED BY <1>2, <1>3, <1>4 DEF MadeOf, map

\* Whatever a reload does, the two maps stay made of their offers.
LEMMA ReloadInv ==
  ASSUME ActiveInv, LoaderInv, [StoreNext]_storeVars
  PROVE  ActiveInv' /\ LoaderInv'
<1>1. CASE UNCHANGED <<active, inForce, loader>>
  BY <1>1 DEF ActiveInv, LoaderInv
<1>2. ASSUME UNCHANGED <<active, inForce>> PROVE ActiveInv'
  BY <1>2 DEF ActiveInv, MadeOf
<1>3. CASE BeginReload
  <2>1. PICK offer \in Offers :
          loader' = IF \A i \in DOMAIN offer : Parses[offer[i].doc]
                    THEN [NoLoad EXCEPT !.at = 1, !.offer = offer, !.registry = registry]
                    ELSE NoLoad
    BY <1>3 DEF BeginReload
  <2>2. CASE loader' = NoLoad
    BY <1>2, <1>3, <2>2 DEF BeginReload, LoaderInv
  <2>3. CASE /\ \A i \in DOMAIN offer : Parses[offer[i].doc]
             /\ loader' = [NoLoad EXCEPT !.at = 1, !.offer = offer, !.registry = registry]
    <3>1. /\ DOMAIN loader' = DOMAIN NoLoad /\ loader'.at = 1 /\ loader'.offer = offer
          /\ loader'.built = NoFields
      BY <2>3 DEF NoLoad
    <3>2. offer \in Seq(Sources) /\ \A i \in DOMAIN offer : offer[i].doc \in DOMAIN Written
      <4>1. offer \in Seq(Sources)
        BY StoreAssumption DEF StoreAssumption
      <4>2. \A i \in DOMAIN offer : offer[i].doc \in DOMAIN Documents
        <5>1. \A i \in DOMAIN offer : offer[i] \in Sources
          BY <4>1
        <5> QED BY <5>1 DEF Sources
      <4> QED BY <2>3, <4>1, <4>2 DEF Written
    <3>3. MadeOf(NoFields, offer, 0)
      BY DEF MadeOf, NoFields
    <3> QED BY <1>2, <1>3, <3>1, <3>2, <3>3 DEF BeginReload, LoaderInv
  <2> QED BY <1>2, <1>3, <2>1, <2>2, <2>3 DEF BeginReload
<1>4. CASE CompileSource
  <2>1. /\ loader.at \in 1..Len(loader.offer) /\ SourceOK(Current, loader.registry, loader.built)
        /\ loader' = [loader EXCEPT !.at = @ + 1, !.built = Added(@, Current, loader.registry)]
    BY <1>4 DEF CompileSource, Compiling
  <2>2. loader # NoLoad
    BY <2>1 DEF NoLoad
  <2>3. /\ DOMAIN loader' = DOMAIN NoLoad /\ loader'.at = loader.at + 1
        /\ loader'.offer = loader.offer
        /\ loader'.built = Added(loader.built, Current, loader.registry)
    BY <2>1 DEF LoaderInv, NoLoad
  <2>4. /\ loader.offer \in Seq(Sources) /\ loader.at \in Nat \ {0}
        /\ \A i \in DOMAIN loader.offer : loader.offer[i].doc \in DOMAIN Written
        /\ MadeOf(loader.built, loader.offer, loader.at - 1)
    BY <2>1, <2>2 DEF LoaderInv
  <2>5. MadeOf(loader'.built, loader.offer, loader.at)
    <3> DEFINE n == loader.at - 1
    <3>1. /\ n \in Nat /\ n < Len(loader.offer) /\ n + 1 = loader.at
          /\ loader.offer[n + 1].doc \in DOMAIN Written /\ Current = loader.offer[n + 1]
      BY <2>1, <2>4 DEF Current
    <3> HIDE DEF n
    <3>2. MadeOf(loader.built, loader.offer, n)
      BY <2>4 DEF n
    <3>3. MadeOf(Added(loader.built, loader.offer[n + 1], loader.registry), loader.offer, n + 1)
      BY <2>1, <2>4, <3>1, <3>2, AddedMakes
    <3> QED BY <2>3, <3>1, <3>3
  <2> QED BY <1>2, <1>4, <2>3, <2>4, <2>5 DEF CompileSource, LoaderInv
<1>5. CASE RejectReload
  BY <1>2, <1>5 DEF RejectReload, LoaderInv
<1>6. CASE Install
  <2>1. /\ loader.offer # <<>> /\ loader.at = Len(loader.offer) + 1
        /\ active' = loader.built /\ inForce' = loader.offer
        /\ loader' = [loader EXCEPT !.at = @ + 1, !.unrecorded = DOMAIN loader.built]
    BY <1>6 DEF Install
  <2>2. loader # NoLoad
    BY <2>1 DEF NoLoad
  <2>3. /\ loader.offer \in Seq(Sources) /\ Len(loader.offer) \in Nat
        /\ \A i \in DOMAIN loader.offer : loader.offer[i].doc \in DOMAIN Written
        /\ MadeOf(loader.built, loader.offer, loader.at - 1)
    BY <2>1, <2>2 DEF LoaderInv
  <2>4. MadeOf(loader.built, loader.offer, Len(loader.offer))
    BY <2>1, <2>3
  <2>5. /\ DOMAIN loader' = DOMAIN NoLoad /\ loader'.at = Len(loader.offer) + 2
        /\ loader'.offer = loader.offer
    BY <2>1, <2>3 DEF LoaderInv, NoLoad
  <2> QED BY <2>1, <2>3, <2>4, <2>5 DEF ActiveInv, LoaderInv
<1>7. CASE RecordInstalled
  <2>1. PICK s \in loader.unrecorded :
          loader' = IF loader.unrecorded = {s} THEN NoLoad ELSE [loader EXCEPT !.unrecorded = @ \ {s}]
    BY <1>7 DEF RecordInstalled
  <2>2. loader # NoLoad
    BY DEF NoLoad
  <2>3. CASE loader' = [loader EXCEPT !.unrecorded = @ \ {s}]
    <3>1. /\ DOMAIN loader' = DOMAIN NoLoad /\ loader'.at = loader.at
          /\ loader'.offer = loader.offer /\ loader'.built = loader.built
      BY <2>3 DEF LoaderInv, NoLoad
    <3> QED BY <1>2, <1>7, <2>2, <3>1 DEF RecordInstalled, LoaderInv
  <2> QED BY <1>2, <1>7, <2>1, <2>3 DEF RecordInstalled, LoaderInv
<1>8. CASE SwapRegistry
  BY <1>1, <1>8 DEF SwapRegistry
<1>9. ASSUME NEW r \in Request, Ask(r) \/ EvaluateRule(r) \/ Evaluated(r)
      PROVE  ActiveInv' /\ LoaderInv'
  BY <1>1, <1>9 DEF Ask, EvaluateRule, Evaluated
<1>10. CASE UNCHANGED storeVars
  BY <1>1, <1>10 DEF storeVars
<1> QED
  BY <1>3, <1>4, <1>5, <1>6, <1>7, <1>8, <1>9, <1>10 DEF StoreNext

\* The lookup finds the most specific scope of the offer, and its document.
LEMMA GoverningIsDocumented ==
  ASSUME NEW offer \in Seq(Sources), NEW map, MadeOf(map, offer, Len(offer)), NEW input
  PROVE  LET held == Governing(map, input) IN
         \/ held = NoPolicy /\ Documented(offer, input) = {}
         \/ /\ held # NoPolicy /\ held.doc \in DOMAIN Written
            /\ Documented(offer, input) = {held.doc}
<1> DEFINE held == Governing(map, input)
           P == [tenant |-> input.tenant, project |-> input.project]
           T == [tenant |-> input.tenant, project |-> ""]
           covering == {i \in DOMAIN offer : Covers(offer[i].scope, input)}
           best     == {k \in covering : \A l \in covering :
                          Precedence(offer[l].scope) <= Precedence(offer[k].scope)}
<1>0. DOMAIN offer = 1..Len(offer) /\ \A i \in DOMAIN offer : offer[i] \in Sources
  OBVIOUS
<1>1. /\ DOMAIN map = {offer[i].scope : i \in DOMAIN offer}
      /\ \A i \in DOMAIN offer :
           /\ map[offer[i].scope].doc = offer[i].doc
           /\ offer[i].doc \in DOMAIN Written
           /\ offer[i].scope.project # "" => offer[i].scope.tenant # ""
  BY <1>0 DEF MadeOf
<1>2. ASSUME NEW i \in covering
      PROVE  offer[i].scope \in {P, T, Default}
  <2>1. offer[i] \in Sources
    BY <1>0
  <2>2. offer[i].scope \in [tenant : STRING, project : STRING]
    BY <2>1 DEF Sources
  <2>3. offer[i].scope.tenant \in {"", input.tenant} /\ offer[i].scope.project \in {"", input.project}
    BY DEF Covers
  <2>4. offer[i].scope.project # "" => offer[i].scope.tenant # ""
    BY <1>1
  <2> QED BY <2>2, <2>3, <2>4 DEF Default
<1>3. ASSUME NEW i \in DOMAIN offer, offer[i].scope \in {P, T, Default}
      PROVE  i \in covering
  <2>1. Covers(P, input) /\ Covers(T, input) /\ Covers(Default, input)
    BY DEF Covers, Default
  <2> QED BY <1>3, <2>1
<1>4. \A s : Precedence(s) \in {0, 1, 2}
  BY DEF Precedence
<1>5. /\ Precedence(Default) = 0
      /\ input.tenant # "" => Precedence(T) = 1
      /\ input.tenant = "" => T = Default
      /\ input.project # "" => Precedence(P) = 2
      /\ input.project = "" => P = T
  BY DEF Precedence, Default
<1>15. /\ T = Default \/ Precedence(T) = 1
       /\ P = T \/ Precedence(P) = 2
  BY <1>5
<1>16. Precedence(Default) = 0
  BY <1>5
<1>12. \A s, t \in {P, T, Default} : Precedence(s) = Precedence(t) => s = t
  <2> HIDE DEF P, T
  <2> QED BY <1>15, <1>16
<1>13. /\ \A s \in {P, T, Default} : Precedence(s) <= Precedence(P)
       /\ \A s \in {T, Default} : Precedence(s) <= Precedence(T)
  <2> HIDE DEF P, T
  <2> QED BY <1>15, <1>16
<1>14. Documented(offer, input) = {offer[i].doc : i \in best}
  BY DEF Documented
<1> HIDE DEF P, T, covering, best
<1>6. ASSUME NEW g \in {P, T, Default} \cap DOMAIN map,
             \A s \in {P, T, Default} \cap DOMAIN map : Precedence(s) <= Precedence(g)
      PROVE  map[g].doc \in DOMAIN Written /\ Documented(offer, input) = {map[g].doc}
  <2>1. PICK i \in DOMAIN offer : offer[i].scope = g
    BY <1>1
  <2>2. i \in best
    <3>1. i \in covering
      BY <1>3, <2>1
    <3>2. ASSUME NEW l \in covering PROVE Precedence(offer[l].scope) <= Precedence(g)
      <4>1. offer[l].scope \in {P, T, Default} \cap DOMAIN map
        BY <1>1, <1>2 DEF covering
      <4> QED BY <1>6, <4>1
    <3> QED BY <2>1, <3>1, <3>2 DEF best
  <2>3. ASSUME NEW k \in best PROVE offer[k].doc = map[g].doc
    <3>1. k \in covering /\ k \in DOMAIN offer /\ i \in covering
      BY <2>2 DEF best, covering
    <3>2. offer[k].scope \in {P, T, Default} \cap DOMAIN map
      BY <1>1, <1>2, <3>1
    <3>3. Precedence(offer[k].scope) <= Precedence(g) /\ Precedence(g) <= Precedence(offer[k].scope)
      BY <1>6, <2>1, <3>1, <3>2 DEF best
    <3>4. offer[k].scope = g
      BY <1>4, <1>12, <3>2, <3>3
    <3> QED BY <1>1, <3>1, <3>4
  <2>4. map[g].doc = offer[i].doc
    BY <1>1, <2>1
  <2>5. map[g].doc \in DOMAIN Written
    BY <1>1, <2>1, <2>4
  <2>6. {offer[k].doc : k \in best} = {map[g].doc}
    BY <2>2, <2>3
  <2> QED BY <1>14, <2>5, <2>6
<1>7. ASSUME NEW g, g.doc \in DOMAIN Written PROVE g # NoPolicy
  <2>1. NoPolicy.doc \notin DOMAIN Written
    BY StoreAssumption DEF StoreAssumption, Written
  <2> QED BY <1>7, <2>1
<1>8. CASE P \in DOMAIN map
  <2>1. held = map[P]
    BY <1>8 DEF Governing, P, T
  <2>2. \A s \in {P, T, Default} : Precedence(s) <= Precedence(P)
    BY <1>13
  <2> HIDE DEF held
  <2> QED BY <1>6, <1>7, <1>8, <2>1, <2>2 DEF held
<1>9. CASE P \notin DOMAIN map /\ T \in DOMAIN map
  <2>1. held = map[T]
    BY <1>9 DEF Governing, P, T
  <2>2. \A s \in {T, Default} : Precedence(s) <= Precedence(T)
    BY <1>13
  <2> HIDE DEF held
  <2> QED BY <1>6, <1>7, <1>9, <2>1, <2>2 DEF held
<1>10. CASE {P, T} \cap DOMAIN map = {} /\ Default \in DOMAIN map
  <2>1. held = map[Default]
    BY <1>10 DEF Governing, P, T
  <2>2. Precedence(Default) <= Precedence(Default)
    BY <1>4
  <2> HIDE DEF held
  <2> QED BY <1>6, <1>7, <1>10, <2>1, <2>2 DEF held
<1>11. CASE {P, T, Default} \cap DOMAIN map = {}
  <2>1. held = NoPolicy
    BY <1>11 DEF Governing, P, T
  <2>2. best = {}
    BY <1>1, <1>2, <1>11 DEF best, covering
  <2> QED BY <1>14, <2>1, <2>2
<1> QED BY <1>8, <1>9, <1>10, <1>11

-------------------------------------------------------------------------------
(* One evaluation. *)

Hit(doc, input, i) == Matches(RulesIn[doc][i].when, input)
Blocking(doc, i) == RulesIn[doc][i].route.block
Heard(doc, input, n) == {i \in Speaking(doc, input) : i <= n}

\* A compiled policy is the sequence of its rules, with their hints merged in.
LEMMA RulesAreInOrder ==
  ASSUME NEW doc \in DOMAIN Written
  PROVE  /\ Len(RulesIn[doc]) \in Nat /\ DOMAIN RulesIn[doc] = 1..Len(RulesIn[doc])
         /\ DOMAIN Written[doc] = DOMAIN RulesIn[doc]
         /\ \A i \in DOMAIN RulesIn[doc] :
              /\ DOMAIN Written[doc][i].route = DOMAIN Empty
              /\ DOMAIN Written[doc][i].route.hints \subseteq DOMAIN HintTypes
              /\ RulesIn[doc][i].id = Written[doc][i].id
              /\ RulesIn[doc][i].route = Normalized(Written[doc][i].route)
<1> DEFINE rules == Documents[doc].rules
           W == Written[doc]
           R == RulesIn[doc]
           n == Len(rules)
<1>1. doc \in DOMAIN Documents /\ W = Rules(Documents[doc])
  BY DEF Written
<1>2. n \in Nat /\ DOMAIN rules = 1..n
  BY <1>1, StoreAssumption DEF StoreAssumption
<1>3. W = [i \in 1..n |-> [id |-> rules[i].id, when |-> Section(WhenTypes, rules[i].when),
                           route |-> Route(rules[i].route)]]
  BY <1>1, <1>2 DEF Rules
<1>4. R = [i \in DOMAIN W |-> [W[i] EXCEPT !.route = Normalized(@)]]
  BY DEF RulesIn, Compiled
<1> HIDE DEF rules, W, R, n
<1>5. DOMAIN W = 1..n /\ DOMAIN R = 1..n
  BY <1>3, <1>4
<1>6. Len(R) = n
  <2>1. R \in [1..n -> {R[i] : i \in 1..n}]
    BY <1>4, <1>5
  <2>2. R \in Seq({R[i] : i \in 1..n})
    BY <1>2, <2>1, SeqDef
  <2> QED BY <1>2, <1>5, <2>2, LenProperties
<1>7. ASSUME NEW i \in 1..n
      PROVE  /\ R[i].id = W[i].id /\ R[i].route = Normalized(W[i].route)
             /\ DOMAIN W[i].route = DOMAIN Empty
             /\ DOMAIN W[i].route.hints \subseteq DOMAIN HintTypes
  <2>1. R[i] = [W[i] EXCEPT !.route = Normalized(@)]
    BY <1>4, <1>5
  <2>2. W[i] = [id |-> rules[i].id, when |-> Section(WhenTypes, rules[i].when),
                route |-> Route(rules[i].route)]
    BY <1>3
  <2>3. DOMAIN Route(rules[i].route) = DOMAIN Empty
    BY DEF Route, Empty
  <2>4. Route(rules[i].route).hints = Section(HintTypes, rules[i].route)
    BY DEF Route
  <2>5. \A node : DOMAIN Section(HintTypes, node) \subseteq DOMAIN HintTypes
    BY DEF Section
  <2> QED BY <2>1, <2>2, <2>3, <2>4, <2>5
<1> QED BY <1>2, <1>5, <1>6, <1>7 DEF W, R

\* As long as no rule that matched has blocked, the next rule speaks if it matches; when it
\* also blocks it is the last one that speaks.
LEMMA HeardGrows ==
  ASSUME NEW doc \in DOMAIN Written, NEW input, NEW n \in Nat, n < Len(RulesIn[doc]),
         \A j \in 1..n : Hit(doc, input, j) => ~Blocking(doc, j)
  PROVE  /\ n + 1 \notin Heard(doc, input, n)
         /\ Hit(doc, input, n + 1) =>
              \A i : i \in Heard(doc, input, n + 1) <=> i \in Heard(doc, input, n) \/ i = n + 1
         /\ ~Hit(doc, input, n + 1) => Heard(doc, input, n + 1) = Heard(doc, input, n)
         /\ Hit(doc, input, n + 1) /\ Blocking(doc, n + 1)
              => Speaking(doc, input) \subseteq Heard(doc, input, n + 1)
<1> DEFINE S == Speaking(doc, input)
           h == n + 1
<1>1. /\ Len(RulesIn[doc]) \in Nat /\ DOMAIN RulesIn[doc] = 1..Len(RulesIn[doc])
  BY RulesAreInOrder
<1>2. S = {i \in 1..Len(RulesIn[doc]) :
             Hit(doc, input, i) /\ \A j \in 1..(i - 1) : Hit(doc, input, j) => ~Blocking(doc, j)}
  BY <1>1 DEF Speaking, Hit, Blocking
<1>3. h \in 1..Len(RulesIn[doc]) /\ h - 1 = n
  BY <1>1
<1>4. h \in S <=> Hit(doc, input, h)
  BY <1>2, <1>3
<1>5. ASSUME Hit(doc, input, h), Blocking(doc, h), NEW i \in S PROVE i <= h
  <2>1. i \in Int /\ \A j \in 1..(i - 1) : Hit(doc, input, j) => ~Blocking(doc, j)
    BY <1>2
  <2>2. h \notin 1..(i - 1)
    BY <1>5, <2>1
  <2> QED BY <2>1, <2>2
<1>6. S \subseteq Int
  BY <1>2
<1> HIDE DEF S
<1>7. \A i \in S : i <= n + 1 <=> i <= n \/ i = n + 1
  BY <1>6
<1>8. n + 1 \notin Heard(doc, input, n)
  BY DEF Heard
<1> QED BY <1>4, <1>5, <1>7, <1>8 DEF Heard, S

\* Before the first rule nobody was heard; after the last one everybody who speaks was.
LEMMA HeardEnds ==
  ASSUME NEW doc \in DOMAIN Written, NEW input
  PROVE  /\ Heard(doc, input, 0) = {}
         /\ Heard(doc, input, Len(RulesIn[doc])) = Speaking(doc, input)
         /\ \A n : IsFiniteSet(Heard(doc, input, n)) /\ Heard(doc, input, n) \subseteq DOMAIN RulesIn[doc]
<1>1. /\ Len(RulesIn[doc]) \in Nat /\ DOMAIN RulesIn[doc] = 1..Len(RulesIn[doc])
  BY RulesAreInOrder
<1>2. Speaking(doc, input) \subseteq 1..Len(RulesIn[doc])
  BY <1>1 DEF Speaking
<1>3. ASSUME NEW n PROVE IsFiniteSet(Heard(doc, input, n))
  <2>1. IsFiniteSet(1..Len(RulesIn[doc]))
    BY <1>1, FS_Interval
  <2>2. Heard(doc, input, n) \subseteq 1..Len(RulesIn[doc])
    BY <1>2 DEF Heard
  <2> QED BY <2>1, <2>2, FS_Subset
<1>4. Heard(doc, input, 0) = {}
  BY <1>2 DEF Heard
<1>5. Heard(doc, input, Len(RulesIn[doc])) = Speaking(doc, input)
  BY <1>1, <1>2 DEF Heard
<1>6. \A n : Heard(doc, input, n) \subseteq DOMAIN RulesIn[doc]
  BY <1>1, <1>2 DEF Heard
<1> QED BY <1>3, <1>4, <1>5, <1>6

\* The constraints d give up nothing that c asked for.
Kept(c, d) ==
  /\ "max_cost_usd" \in DOMAIN c => "max_cost_usd" \in DOMAIN d /\ d.max_cost_usd <= c.max_cost_usd
  /\ "retention" \in DOMAIN c /\ c.retention = "none" => "retention" \in DOMAIN d /\ d.retention = "none"
  /\ "denied_providers" \in DOMAIN c =>
       "denied_providers" \in DOMAIN d /\ c.denied_providers \subseteq d.denied_providers
  /\ "require_capabilities" \in DOMAIN c =>
       "require_capabilities" \in DOMAIN d /\ c.require_capabilities \subseteq d.require_capabilities
Amounts(c) == \A k \in DOMAIN c \cap {"max_cost_usd", "max_latency_ms"} : c[k] \in Int

\* The smaller of two amounts.
LEMMA SmallerAmount ==
  ASSUME NEW a \in Int, NEW b \in Int, NEW m, m = IF b < a THEN b ELSE a
  PROVE  m \in Int /\ m <= a /\ m <= b
OBVIOUS

\* An amount is at most itself and at most what a larger one is at most.
LEMMA AmountsOrdered ==
  /\ \A a \in Int : a <= a
  /\ \A a, b, c \in Int : a <= b /\ b <= c => a <= c
OBVIOUS

\* Merging two sets of constraints gives up nothing of either.
LEMMA MergeKeeps ==
  ASSUME NEW old, NEW new, Amounts(old), Amounts(new)
  PROVE  LET m == MergeConstraints(old, new) IN Amounts(m) /\ Kept(old, m) /\ Kept(new, m)
<1> DEFINE m == MergeConstraints(old, new)
<1>1. /\ DOMAIN m = DOMAIN old \cup DOMAIN new
      /\ \A k \in DOMAIN old \cap DOMAIN new : m[k] = BothSet(k, old[k], new[k])
      /\ \A k \in DOMAIN old \ DOMAIN new : m[k] = old[k]
      /\ \A k \in DOMAIN new \ DOMAIN old : m[k] = new[k]
  BY DEF MergeConstraints, Over
<1> HIDE DEF m
<1>2. ASSUME NEW k \in {"max_cost_usd", "max_latency_ms"}
      PROVE  /\ k \in DOMAIN m => m[k] \in Int
             /\ k \in DOMAIN old => k \in DOMAIN m /\ m[k] <= old[k]
             /\ k \in DOMAIN new => k \in DOMAIN m /\ m[k] <= new[k]
  <2>1. /\ k \in DOMAIN old => old[k] \in Int
        /\ k \in DOMAIN new => new[k] \in Int
    BY <1>2 DEF Amounts
  <2>2. CASE k \in DOMAIN old /\ k \in DOMAIN new
    <3>1. m[k] = IF new[k] < old[k] THEN new[k] ELSE old[k]
      BY <1>1, <1>2, <2>2 DEF BothSet
    <3>2. m[k] \in Int /\ m[k] <= old[k] /\ m[k] <= new[k]
      BY <2>1, <2>2, <3>1, SmallerAmount
    <3> QED BY <1>1, <2>2, <3>2
  <2>3. CASE ~(k \in DOMAIN old /\ k \in DOMAIN new)
    BY <1>1, <2>1, <2>3, AmountsOrdered
  <2> QED BY <2>2, <2>3
<1>3. ASSUME NEW k, k = "retention", NEW c \in {old, new}, k \in DOMAIN c, c[k] = "none"
      PROVE  k \in DOMAIN m /\ m[k] = "none"
  <2>1. k \in DOMAIN old \cap DOMAIN new => m[k] = IF new[k] = "none" THEN new[k] ELSE old[k]
    BY <1>1, <1>3 DEF BothSet
  <2> QED BY <1>1, <1>3, <2>1
<1>4. ASSUME NEW k \in {"denied_providers", "require_capabilities"}
      PROVE  /\ k \in DOMAIN old => k \in DOMAIN m /\ old[k] \subseteq m[k]
             /\ k \in DOMAIN new => k \in DOMAIN m /\ new[k] \subseteq m[k]
  <2>1. k \in DOMAIN old \cap DOMAIN new => m[k] = old[k] \cup new[k]
    BY <1>1, <1>4 DEF BothSet
  <2> QED BY <1>1, <2>1
<1>5. Amounts(m)
  BY <1>2 DEF Amounts
<1>6. ASSUME NEW c \in {old, new} PROVE Kept(c, m)
  <2>1. "max_cost_usd" \in DOMAIN c =>
          "max_cost_usd" \in DOMAIN m /\ m["max_cost_usd"] <= c["max_cost_usd"]
    BY <1>2
  <2>2. "retention" \in DOMAIN c /\ c["retention"] = "none" =>
          "retention" \in DOMAIN m /\ m["retention"] = "none"
    BY <1>3
  <2>3. \A k \in {"denied_providers", "require_capabilities"} :
          k \in DOMAIN c => k \in DOMAIN m /\ c[k] \subseteq m[k]
    BY <1>4
  <2> QED BY <2>1, <2>2, <2>3 DEF Kept
<1> QED BY <1>5, <1>6 DEF m

\* Giving up nothing of what gave up nothing gives up nothing.
LEMMA KeptIsTransitive ==
  ASSUME NEW a, NEW b, NEW c, Amounts(a), Amounts(b), Amounts(c), Kept(a, b), Kept(b, c)
  PROVE  Kept(a, c)
<1>1. "max_cost_usd" \in DOMAIN a =>
        "max_cost_usd" \in DOMAIN c /\ c["max_cost_usd"] <= a["max_cost_usd"]
  BY AmountsOrdered DEF Amounts, Kept
<1> QED BY <1>1 DEF Kept

\* The state of an evaluation of the policy doc for an input: the rules heard so far are in
\* the answer, each one's restrictions among its constraints, and none but the last blocked.
EvalInv(q, doc, input) == LET heard == Heard(doc, input, q.at) IN
  /\ q.at \in 0..Len(RulesIn[doc])
  /\ q.matched \in Seq({RulesIn[doc][i].id : i \in DOMAIN RulesIn[doc]})
  /\ Len(q.matched) = Cardinality(heard)
  /\ {q.matched[k] : k \in DOMAIN q.matched} = {RulesIn[doc][i].id : i \in heard}
  /\ q.route.block <=> \E i \in heard : Blocking(doc, i)
  /\ q.phase = "evaluating" => \A j \in 1..q.at : Hit(doc, input, j) => ~Blocking(doc, j)
  /\ q.phase = "done" => heard = Speaking(doc, input)
  /\ Amounts(q.route.constraints)
  /\ \A i \in heard : Kept(RulesIn[doc][i].route.constraints, q.route.constraints)

RequestInv(q) ==
  /\ DOMAIN q = DOMAIN Idle
  /\ q.phase \in {"idle", "evaluating", "done"}
  /\ q.phase # "idle" => LET input == Inputs[q.input] IN
       \/ /\ q.held = NoPolicy /\ Documented(q.under, input) = {}
          /\ q.matched = <<>> /\ q.phase = "done"
       \/ /\ q.held # NoPolicy /\ q.held.doc \in DOMAIN Written
          /\ Documented(q.under, input) = {q.held.doc}
          /\ EvalInv(q, q.held.doc, input)

ReqInv == DOMAIN req = Request /\ \A r \in Request : RequestInv(req[r])

StoreInv == ActiveInv /\ LoaderInv /\ ReqInv

\* An evaluation that has not begun has heard nobody.
LEMMA EvalBegins ==
  ASSUME NEW doc \in DOMAIN Written, NEW input, NEW q, q.phase = "evaluating",
         q.at = 0, q.matched = <<>>, q.route = Empty
  PROVE  EvalInv(q, doc, input)
<1>1. Len(RulesIn[doc]) \in Nat /\ Heard(doc, input, q.at) = {}
  BY RulesAreInOrder, HeardEnds
<1>2. Len(q.matched) = Cardinality({}) /\ DOMAIN q.matched = {}
  BY FS_EmptySet
<1>3. ~q.route.block /\ Amounts(q.route.constraints)
  BY DEF Empty, NoFields, Amounts
<1>4. q.at \in 0..Len(RulesIn[doc])
  BY <1>1
<1>5. q.matched \in Seq({RulesIn[doc][i].id : i \in DOMAIN RulesIn[doc]})
  OBVIOUS
<1>6. 1..q.at = {}
  OBVIOUS
<1> HIDE DEF Heard
<1> QED BY <1>1, <1>2, <1>3, <1>4, <1>5, <1>6 DEF EvalInv

\* What compiling makes of a rule's route: the hints fill in the ceiling and the retention
\* that the section leaves open, and add to what is required.
LEMMA NormalizedRoute ==
  ASSUME NEW written, DOMAIN written = DOMAIN Empty
  PROVE  LET new == Normalized(written) c == new.constraints IN
         /\ new.block = written.block
         /\ \A k \in {"max_cost_usd", "retention"} :
              /\ k \in DOMAIN c <=> k \in DOMAIN written.constraints \/ k \in DOMAIN written.hints
              /\ k \in DOMAIN written.constraints => c[k] = written.constraints[k]
              /\ k \in DOMAIN written.hints /\ k \notin DOMAIN written.constraints => c[k] = written.hints[k]
         /\ \A k \in {"denied_providers", "max_latency_ms"} :
              /\ k \in DOMAIN c <=> k \in DOMAIN written.constraints
              /\ k \in DOMAIN c => c[k] = written.constraints[k]
         /\ LET asked == ValuesAt(written.hints, {"require_capability"})
                           \cup UNION ValuesAt(written.constraints, {"require_capabilities"})
            IN  asked # {} => "require_capabilities" \in DOMAIN c /\ c.require_capabilities = asked
<1> DEFINE new == Normalized(written)
           c == new.constraints
           lists == HintedConstraints(written.hints)
           Joined(k) == lists[k] \cup UNION ValuesAt(written.constraints, {k})
           joined == [k \in {l \in DOMAIN lists : Joined(l) # {}} |-> Joined(k)]
           rest == Over(written.constraints, Part(written.hints, {"max_cost_usd", "retention"}))
<1>1. new.block = written.block /\ c = Over(joined, rest)
  BY DEF Normalized, Empty
<1>2. /\ DOMAIN lists = {"fallback_model_profiles", "require_capabilities"}
      /\ lists["require_capabilities"] = ValuesAt(written.hints, {"require_capability"})
  BY DEF HintedConstraints
<1>3. /\ DOMAIN joined \subseteq {"fallback_model_profiles", "require_capabilities"}
      /\ LET asked == ValuesAt(written.hints, {"require_capability"})
                        \cup UNION ValuesAt(written.constraints, {"require_capabilities"})
         IN  asked # {} => /\ "require_capabilities" \in DOMAIN joined
                           /\ joined["require_capabilities"] = asked
  BY <1>2
<1>4. /\ DOMAIN rest = DOMAIN written.constraints \cup
                         (DOMAIN written.hints \cap {"max_cost_usd", "retention"})
      /\ \A k \in DOMAIN written.constraints : rest[k] = written.constraints[k]
      /\ \A k \in DOMAIN rest \ DOMAIN written.constraints : rest[k] = written.hints[k]
  BY DEF Over, Part
<1> HIDE DEF new, joined, rest
<1>5. /\ DOMAIN c = DOMAIN joined \cup DOMAIN rest
      /\ \A k \in DOMAIN joined : c[k] = joined[k]
      /\ \A k \in DOMAIN rest \ DOMAIN joined : c[k] = rest[k]
  BY <1>1 DEF Over
<1> HIDE DEF lists
<1>6. ASSUME NEW k \in {"max_cost_usd", "retention"}
      PROVE  /\ k \in DOMAIN c <=> k \in DOMAIN written.constraints \/ k \in DOMAIN written.hints
             /\ k \in DOMAIN written.constraints => c[k] = written.constraints[k]
             /\ k \in DOMAIN written.hints /\ k \notin DOMAIN written.constraints => c[k] = written.hints[k]
  <2>1. k \notin DOMAIN joined
    BY <1>3
  <2> QED BY <1>4, <1>5, <2>1
<1>7. ASSUME NEW k \in {"denied_providers", "max_latency_ms"}
      PROVE  /\ k \in DOMAIN c <=> k \in DOMAIN written.constraints
             /\ k \in DOMAIN c => c[k] = written.constraints[k]
  <2>1. k \notin DOMAIN joined /\ k \notin {"max_cost_usd", "retention"}
    BY <1>3, <1>7
  <2> QED BY <1>4, <1>5, <2>1
<1> QED BY <1>1, <1>3, <1>5, <1>6, <1>7 DEF new

\* The amounts of a policy's rules are whole numbers, hints included.
LEMMA AmountsAreInt ==
  ASSUME NEW doc \in DOMAIN Written, NEW i \in DOMAIN RulesIn[doc]
  PROVE  Amounts(RulesIn[doc][i].route.constraints)
<1> DEFINE written == Written[doc][i].route
           c == RulesIn[doc][i].route.constraints
<1>1. /\ RulesIn[doc][i].route = Normalized(written) /\ i \in DOMAIN Written[doc]
      /\ DOMAIN written = DOMAIN Empty
  BY RulesAreInOrder
<1>2. /\ \A k \in {"max_cost_usd", "max_latency_ms"} :
           k \in DOMAIN written.constraints => written.constraints[k] \in Int
      /\ "max_cost_usd" \in DOMAIN written.hints => written.hints["max_cost_usd"] \in Int
  BY <1>1, StoreAssumption DEF StoreAssumption, ValuesAt
<1> HIDE DEF c, written
<1>3. ASSUME NEW k \in DOMAIN c, k = "max_cost_usd" PROVE c[k] \in Int
  <2>1. /\ k \in DOMAIN written.constraints \/ k \in DOMAIN written.hints
        /\ k \in DOMAIN written.constraints => c[k] = written.constraints[k]
        /\ k \in DOMAIN written.hints /\ k \notin DOMAIN written.constraints => c[k] = written.hints[k]
    BY <1>1, <1>3, NormalizedRoute DEF c
  <2> QED BY <1>2, <1>3, <2>1
<1>4. ASSUME NEW k \in DOMAIN c, k = "max_latency_ms" PROVE c[k] \in Int
  <2>1. k \in DOMAIN written.constraints /\ c[k] = written.constraints[k]
    BY <1>1, <1>4, NormalizedRoute DEF c
  <2> QED BY <1>2, <1>4, <2>1
<1> QED BY <1>3, <1>4 DEF Amounts, c

\* A rule that does not match leaves the answer as it is.
LEMMA EvalPasses ==
  ASSUME NEW doc \in DOMAIN Written, NEW input, NEW q, NEW next, EvalInv(q, doc, input),
         q.phase = "evaluating", q.at < Len(RulesIn[doc]), ~Hit(doc, input, q.at + 1),
         next.at = q.at + 1, next.matched = q.matched, next.route = q.route,
         next.phase = "evaluating"
  PROVE  EvalInv(next, doc, input)
<1>1. /\ Len(RulesIn[doc]) \in Nat /\ q.at \in Nat
      /\ \A j \in 1..q.at : Hit(doc, input, j) => ~Blocking(doc, j)
  BY RulesAreInOrder DEF EvalInv
<1>2. Heard(doc, input, next.at) = Heard(doc, input, q.at)
  BY <1>1, HeardGrows
<1>3. next.at \in 0..Len(RulesIn[doc])
  BY <1>1
<1>4. \A j \in 1..next.at : Hit(doc, input, j) => ~Blocking(doc, j)
  <2>1. \A j \in 1..next.at : j \in 1..q.at \/ j = q.at + 1
    BY <1>1
  <2> QED BY <1>1, <2>1
<1> QED BY <1>2, <1>3, <1>4 DEF EvalInv

\* A rule that matches is heard: the answer names it and gives up nothing it asks for.
LEMMA EvalHears ==
  ASSUME NEW doc \in DOMAIN Written, NEW input, NEW q, NEW next, EvalInv(q, doc, input),
         q.phase = "evaluating", q.at < Len(RulesIn[doc]), Hit(doc, input, q.at + 1),
         next.at = q.at + 1, next.matched = Append(q.matched, RulesIn[doc][q.at + 1].id),
         next.route = Merge(q.route, RulesIn[doc][q.at + 1].route),
         next.phase = IF Blocking(doc, q.at + 1) THEN "done" ELSE "evaluating"
  PROVE  EvalInv(next, doc, input)
<1> DEFINE R == RulesIn[doc]
           h == q.at + 1
           heard == Heard(doc, input, q.at)
           now == Heard(doc, input, h)
           ids == {R[i].id : i \in DOMAIN R}
<1>1. /\ Len(R) \in Nat /\ DOMAIN R = 1..Len(R) /\ q.at \in Nat /\ h \in DOMAIN R
      /\ \A j \in 1..q.at : Hit(doc, input, j) => ~Blocking(doc, j)
  BY RulesAreInOrder DEF EvalInv
<1>2. /\ h \notin heard /\ now = heard \cup {h} /\ IsFiniteSet(heard)
      /\ Blocking(doc, h) => now = Speaking(doc, input)
      /\ heard \subseteq DOMAIN R
  <2>1. IsFiniteSet(heard) /\ heard \subseteq DOMAIN R
    BY HeardEnds
  <2>2. h \notin heard
    BY <1>1, HeardGrows
  <2>3. now = heard \cup {h}
    BY <1>1, HeardGrows
  <2>4. Blocking(doc, h) => Speaking(doc, input) \subseteq now
    BY <1>1, HeardGrows
  <2>5. now \subseteq Speaking(doc, input)
    BY DEF Heard
  <2> QED BY <2>1, <2>2, <2>3, <2>4, <2>5
<1>3. next.at \in 0..Len(R)
  BY <1>1
<1>4. /\ q.matched \in Seq(ids) /\ Len(q.matched) = Cardinality(heard)
      /\ {q.matched[k] : k \in DOMAIN q.matched} = {R[i].id : i \in heard}
      /\ q.route.block <=> \E i \in heard : Blocking(doc, i)
      /\ Amounts(q.route.constraints)
      /\ \A i \in heard : Kept(R[i].route.constraints, q.route.constraints)
  BY DEF EvalInv
<1>5. R[h].id \in ids
  BY <1>1
<1>6. /\ next.route.block <=> q.route.block \/ Blocking(doc, h)
      /\ next.route.constraints = MergeConstraints(q.route.constraints, R[h].route.constraints)
  <2>1. next.route.constraints = MergeConstraints(q.route.constraints, R[h].route.constraints)
    BY DEF Merge
  <2>2. next.route.block = (q.route.block \/ R[h].route.block)
    BY DEF Merge
  <2> QED BY <2>1, <2>2 DEF Blocking
<1> HIDE DEF R, h, heard, now, ids
<1>7. next.matched \in Seq(ids) /\ Len(next.matched) = Cardinality(now)
  <2>1. /\ next.matched = Append(q.matched, R[h].id)
        /\ next.matched \in Seq(ids) /\ Len(next.matched) = Len(q.matched) + 1
    BY <1>4, <1>5, AppendProperties DEF R, h
  <2>2. Cardinality(now) = Cardinality(heard) + 1
    BY <1>2, FS_AddElement
  <2> QED BY <1>4, <2>1, <2>2
<1>8. {next.matched[k] : k \in DOMAIN next.matched} = {R[i].id : i \in now}
  <2> DEFINE s == q.matched
             t == next.matched
  <2>1. /\ t = Append(s, R[h].id) /\ s \in Seq(ids) /\ Len(s) \in Nat
        /\ DOMAIN s = 1..Len(s) /\ DOMAIN t = 1..(Len(s) + 1)
        /\ t[Len(s) + 1] = R[h].id /\ \A k \in DOMAIN s : t[k] = s[k]
    BY <1>4, <1>5, AppendProperties, LenProperties DEF R, h
  <2>2. DOMAIN t = DOMAIN s \cup {Len(s) + 1}
    BY <2>1
  <2> HIDE DEF s, t
  <2>3. {t[k] : k \in DOMAIN t} = {s[k] : k \in DOMAIN s} \cup {R[h].id}
    BY <2>1, <2>2
  <2>4. {R[i].id : i \in now} = {R[i].id : i \in heard} \cup {R[h].id}
    BY <1>2
  <2>5. {s[k] : k \in DOMAIN s} = {R[i].id : i \in heard}
    BY <1>4 DEF s
  <2> QED BY <2>3, <2>4, <2>5 DEF t
<1>9. next.route.block <=> \E i \in now : Blocking(doc, i)
  BY <1>2, <1>4, <1>6
<1>10. next.phase = "evaluating" =>
         \A j \in 1..next.at : Hit(doc, input, j) => ~Blocking(doc, j)
  <2>1. \A j \in 1..next.at : j \in 1..q.at \/ j = h
    BY <1>1 DEF h
  <2> QED BY <1>1, <2>1 DEF h
<1>11. next.phase = "done" => now = Speaking(doc, input)
  BY <1>2 DEF h
<1>12. /\ Amounts(next.route.constraints)
       /\ \A i \in now : Kept(R[i].route.constraints, next.route.constraints)
  <2>1. \A i \in DOMAIN R : Amounts(R[i].route.constraints)
    BY AmountsAreInt DEF R
  <2>2. /\ Amounts(next.route.constraints)
        /\ Kept(q.route.constraints, next.route.constraints)
        /\ Kept(R[h].route.constraints, next.route.constraints)
    BY <1>1, <1>4, <1>6, <2>1, MergeKeeps
  <2>3. \A i \in heard : Kept(R[i].route.constraints, next.route.constraints)
    BY <1>2, <1>4, <2>1, <2>2, KeptIsTransitive
  <2> QED BY <1>2, <2>2, <2>3
<1>13. next.at = h /\ now = Heard(doc, input, next.at)
  BY DEF h, now
<1> QED BY <1>3, <1>7, <1>8, <1>9, <1>10, <1>11, <1>12, <1>13 DEF EvalInv, R, ids

\* After the last rule everybody who speaks was heard.
LEMMA EvalEnds ==
  ASSUME NEW doc \in DOMAIN Written, NEW input, NEW q, NEW next, EvalInv(q, doc, input),
         q.at = Len(RulesIn[doc]), next.at = q.at, next.matched = q.matched,
         next.route = q.route, next.phase = "done"
  PROVE  EvalInv(next, doc, input)
<1>1. Heard(doc, input, q.at) = Speaking(doc, input)
  BY HeardEnds
<1> QED BY <1>1 DEF EvalInv

\* What a request does keeps its invariant; what the loader does leaves it alone.
LEMMA RequestStep ==
  ASSUME StoreInv, [StoreNext]_storeVars
  PROVE  ReqInv'
<1>1. CASE UNCHANGED req
  BY <1>1 DEF StoreInv, ReqInv
<1>2. ASSUME NEW r \in Request, RequestInv(req'[r]), DOMAIN req' = DOMAIN req,
             \A p \in Request \ {r} : req'[p] = req[p]
      PROVE  ReqInv'
  BY <1>2 DEF StoreInv, ReqInv
<1>3. ASSUME NEW r \in Request, Ask(r) PROVE ReqInv'
  <2>1. PICK i \in DOMAIN Inputs : LET held == Governing(active, Inputs[i]) IN
          req' = [req EXCEPT ![r] = [Idle EXCEPT !.phase = IF held = NoPolicy THEN "done" ELSE "evaluating",
                                                 !.input = i, !.held = held, !.under = inForce]]
    BY <1>3 DEF Ask
  <2> DEFINE held == Governing(active, Inputs[i])
             q == req'[r]
  <2>2. /\ DOMAIN req' = DOMAIN req /\ \A p \in Request \ {r} : req'[p] = req[p]
        /\ q = [Idle EXCEPT !.phase = IF held = NoPolicy THEN "done" ELSE "evaluating",
                            !.input = i, !.held = held, !.under = inForce]
    BY <2>1 DEF StoreInv, ReqInv
  <2>3. \/ held = NoPolicy /\ Documented(inForce, Inputs[i]) = {}
        \/ /\ held # NoPolicy /\ held.doc \in DOMAIN Written
           /\ Documented(inForce, Inputs[i]) = {held.doc}
    BY GoverningIsDocumented DEF StoreInv, ActiveInv
  <2> HIDE DEF held, q
  <2>4. /\ DOMAIN q = DOMAIN Idle /\ q.phase = IF held = NoPolicy THEN "done" ELSE "evaluating"
        /\ q.input = i /\ q.held = held /\ q.under = inForce
        /\ q.at = 0 /\ q.matched = <<>> /\ q.route = Empty
    BY <2>2 DEF Idle
  <2>5. RequestInv(q)
    <3>1. CASE held = NoPolicy
      BY <2>3, <2>4, <3>1 DEF RequestInv
    <3>2. CASE held # NoPolicy
      <4>1. EvalInv(q, held.doc, Inputs[i])
        BY <2>3, <2>4, <3>2, EvalBegins
      <4> QED BY <2>3, <2>4, <3>2, <4>1 DEF RequestInv
    <3> QED BY <3>1, <3>2
  <2> QED BY <1>2, <2>2, <2>5 DEF q
<1>4. ASSUME NEW r \in Request, EvaluateRule(r) \/ Evaluated(r) PROVE ReqInv'
  <2> DEFINE q == req[r]
             next == req'[r]
             doc == q.held.doc
             input == Inputs[q.input]
             rule == RulesIn[doc][q.at + 1]
  <2>1. DOMAIN req = Request /\ RequestInv(q) /\ q.phase = "evaluating"
    BY <1>4 DEF StoreInv, ReqInv, EvaluateRule, Evaluated
  <2>2. /\ DOMAIN q = DOMAIN Idle /\ q.held # NoPolicy /\ doc \in DOMAIN Written
        /\ Documented(q.under, input) = {doc} /\ EvalInv(q, doc, input)
    BY <2>1 DEF RequestInv
  <2>3. ASSUME DOMAIN next = DOMAIN Idle, next.phase \in {"evaluating", "done"},
               next.held = q.held, next.under = q.under, next.input = q.input,
               EvalInv(next, doc, input)
        PROVE  RequestInv(next)
    BY <2>2, <2>3 DEF RequestInv
  <2>4. CASE EvaluateRule(r)
    <3> DEFINE new == AfterRule(q, rule, input)
    <3>1. q.at < Len(RulesIn[doc]) /\ req' = [req EXCEPT ![r] = new]
      BY <2>4 DEF EvaluateRule, RulesOf, InputOf
    <3> HIDE DEF new
    <3>2. /\ DOMAIN req' = DOMAIN req /\ \A p \in Request \ {r} : req'[p] = req[p]
          /\ next = new
      BY <2>1, <3>1
    <3> HIDE DEF next, rule, doc, input, q
    <3>3. CASE Matches(rule.when, input)
      <4>1. /\ DOMAIN next = DOMAIN Idle /\ next.at = q.at + 1
            /\ next.matched = Append(q.matched, rule.id) /\ next.route = Merge(q.route, rule.route)
            /\ next.phase = IF rule.route.block THEN "done" ELSE "evaluating"
            /\ next.held = q.held /\ next.under = q.under /\ next.input = q.input
        BY <2>1, <2>2, <3>2, <3>3 DEF Idle, new, AfterRule
      <4>2. EvalInv(next, doc, input)
        BY <2>1, <2>2, <3>1, <3>3, <4>1, EvalHears DEF Hit, Blocking, rule
      <4>3. RequestInv(next)
        BY <2>3, <4>1, <4>2
      <4> QED BY <1>2, <3>2, <4>3 DEF next
    <3>4. CASE ~Matches(rule.when, input)
      <4>1. /\ DOMAIN next = DOMAIN Idle /\ next.at = q.at + 1
            /\ next.matched = q.matched /\ next.route = q.route /\ next.phase = "evaluating"
            /\ next.held = q.held /\ next.under = q.under /\ next.input = q.input
        BY <2>1, <2>2, <3>2, <3>4 DEF Idle, new, AfterRule
      <4>2. EvalInv(next, doc, input)
        BY <2>1, <2>2, <3>1, <3>4, <4>1, EvalPasses DEF Hit, rule
      <4>3. RequestInv(next)
        BY <2>3, <4>1, <4>2
      <4> QED BY <1>2, <3>2, <4>3 DEF next
    <3> QED BY <3>3, <3>4
  <2>5. CASE Evaluated(r)
    <3>1. q.at = Len(RulesIn[doc]) /\ req' = [req EXCEPT ![r].phase = "done"]
      BY <2>5 DEF Evaluated, RulesOf
    <3>2. /\ DOMAIN req' = DOMAIN req /\ \A p \in Request \ {r} : req'[p] = req[p]
          /\ next = [q EXCEPT !.phase = "done"]
      BY <2>1, <3>1
    <3> HIDE DEF next, rule, doc, input, q
    <3>3. /\ DOMAIN next = DOMAIN Idle /\ next.at = q.at
          /\ next.matched = q.matched /\ next.route = q.route /\ next.phase = "done"
          /\ next.held = q.held /\ next.under = q.under /\ next.input = q.input
      BY <2>2, <3>2 DEF Idle
    <3>4. EvalInv(next, doc, input)
      BY <2>2, <3>1, <3>3, EvalEnds
    <3>5. RequestInv(next)
      BY <2>3, <3>3, <3>4
    <3> QED BY <1>2, <3>2, <3>5 DEF next
  <2> QED BY <1>4, <2>4, <2>5
<1> QED
  BY <1>1, <1>3, <1>4
     DEF StoreNext, storeVars, SwapRegistry, BeginReload, CompileSource, RejectReload, Install,
         RecordInstalled

\* A hint becomes a forced model or provider only where the section names none.
LEMMA NormalizedForce ==
  ASSUME NEW written, DOMAIN written = DOMAIN Empty, NEW k \in {"model", "provider"}
  PROVE  ValuesAt(Normalized(written).force, {k})
           \subseteq ValuesAt(written.force, {k}) \cup ValuesAt(written.hints, {k})
<1> DEFINE new == Normalized(written)
           h == written.hints
           forced == Part(h, {"model", "provider", "verifier"})
           timeout == Part(h, {"timeout_ms"})
           isForced == "force" \in written.sections \/ DOMAIN forced # {}
           hinted == IF isForced THEN Over(forced, timeout) ELSE NoFields
<1>1. new.force = Over(written.force, hinted)
  BY DEF Normalized, Empty
<1>2. k \in DOMAIN hinted => k \in DOMAIN h /\ hinted[k] = h[k]
  <2>1. /\ DOMAIN forced \subseteq DOMAIN h /\ \A j \in DOMAIN forced : forced[j] = h[j]
        /\ DOMAIN timeout \subseteq DOMAIN h /\ \A j \in DOMAIN timeout : timeout[j] = h[j]
    BY DEF Part
  <2> HIDE DEF forced, timeout
  <2>2. /\ DOMAIN Over(forced, timeout) = DOMAIN forced \cup DOMAIN timeout
        /\ \A j \in DOMAIN Over(forced, timeout) :
             Over(forced, timeout)[j] = IF j \in DOMAIN forced THEN forced[j] ELSE timeout[j]
    BY DEF Over
  <2>3. DOMAIN NoFields = {}
    BY DEF NoFields
  <2> QED BY <2>1, <2>2, <2>3
<1> HIDE DEF new, hinted
<1>3. /\ DOMAIN new.force = DOMAIN written.force \cup DOMAIN hinted
      /\ \A j \in DOMAIN new.force :
           new.force[j] = IF j \in DOMAIN written.force THEN written.force[j] ELSE hinted[j]
  BY <1>1 DEF Over
<1> QED BY <1>2, <1>3 DEF ValuesAt, new

\* The loader's maps and the requests' evaluations are in order from the start.
LEMMA StoreInitInv == StoreInit => StoreInv
<1> SUFFICES ASSUME StoreInit PROVE StoreInv
  OBVIOUS
<1>1. ActiveInv
  <2>1. StartOffer \in Seq(Sources)
    BY StoreAssumption DEF StoreAssumption
  <2> QED BY <2>1, BuiltMakes DEF StoreInit, ActiveInv
<1>2. LoaderInv
  BY DEF StoreInit, LoaderInv
<1>3. ReqInv
  BY DEF StoreInit, ReqInv, RequestInv, Idle
<1> QED BY <1>1, <1>2, <1>3 DEF StoreInv

\* The invariant of the policy store: the map in force and the map being compiled are made
\* of the sources of one offer each, and every evaluation has heard the rules up to its own
\* position of the policy it took when it asked.
THEOREM StoreInvHolds == StoreSpec => []StoreInv
<1>1. StoreInv /\ [StoreNext]_storeVars => StoreInv'
  BY ReloadInv, RequestStep DEF StoreInv
<1> QED BY StoreInitInv, <1>1, PTL DEF StoreSpec

\* A request is answered by the one policy that the offer in force when it asked holds for
\* its most specific scope, in all its rules and no other's.
THEOREM AnswerOfOneOfferHolds == StoreSpec => []AnswerOfOneOffer
<1>1. StoreInv => AnswerOfOneOffer
  <2> SUFFICES ASSUME StoreInv, NEW r \in Request, Done(r)
               PROVE  LET docs == Documented(req[r].under, InputOf(r)) IN
                        /\ docs = {} => req[r].matched = <<>>
                        /\ \A d \in docs : LET speaking == Speaking(d, InputOf(r)) IN
                             /\ Len(req[r].matched) = Cardinality(speaking)
                             /\ {req[r].matched[k] : k \in DOMAIN req[r].matched}
                                  = {RulesIn[d][i].id : i \in speaking}
                             /\ req[r].route.block <=> \E i \in speaking : RulesIn[d][i].route.block
    BY DEF AnswerOfOneOffer
  <2> DEFINE q == req[r]
             input == Inputs[q.input]
  <2>1. RequestInv(q) /\ q.phase = "done" /\ InputOf(r) = input
    BY DEF StoreInv, ReqInv, Done, InputOf
  <2> HIDE DEF q
  <2>2. CASE q.held = NoPolicy /\ Documented(q.under, input) = {} /\ q.matched = <<>>
    BY <2>1, <2>2 DEF q
  <2>3. CASE Documented(q.under, input) = {q.held.doc} /\ EvalInv(q, q.held.doc, input)
    <3>1. Heard(q.held.doc, input, q.at) = Speaking(q.held.doc, input)
      BY <2>1, <2>3 DEF EvalInv
    <3> DEFINE d == q.held.doc
               speaking == Speaking(d, input)
    <3>2. /\ Len(q.matched) = Cardinality(speaking)
          /\ {q.matched[k] : k \in DOMAIN q.matched} = {RulesIn[d][n].id : n \in speaking}
          /\ q.route.block <=> \E n \in speaking : RulesIn[d][n].route.block
      BY <2>3, <3>1 DEF EvalInv, Blocking
    <3>3. \A e \in Documented(q.under, input) : e = d
      BY <2>3
    <3>4. Documented(q.under, input) # {}
      BY <2>3
    <3> HIDE DEF d
    <3> QED BY <2>1, <3>2, <3>3, <3>4 DEF q
  <2> QED BY <2>1, <2>2, <2>3 DEF RequestInv
<1> QED BY <1>1, StoreInvHolds, PTL

\* No restriction of a rule that spoke is weakened or lost in the route.
THEOREM RestrictionsSurviveHolds == StoreSpec => []RestrictionsSurvive
<1>1. StoreInv => RestrictionsSurvive
  <2> SUFFICES ASSUME StoreInv, NEW r \in Request, Done(r), req[r].held # NoPolicy,
                      NEW i \in Speaking(req[r].held.doc, InputOf(r))
               PROVE  LET doc == req[r].held.doc c == req[r].route.constraints IN
                      /\ \A n \in Asked(doc, i, "constraints", "max_cost_usd", "max_cost_usd") :
                           "max_cost_usd" \in DOMAIN c /\ c.max_cost_usd <= n
                      /\ "none" \in Asked(doc, i, "constraints", "retention", "retention") =>
                           "retention" \in DOMAIN c /\ c.retention = "none"
                      /\ UNION Asked(doc, i, "constraints", "denied_providers", "none")
                           \subseteq UNION ValuesAt(c, {"denied_providers"})
                      /\ LET written == Written[doc][i].route IN
                           ValuesAt(written.hints, {"require_capability"})
                             \cup UNION ValuesAt(written.constraints, {"require_capabilities"})
                             \subseteq UNION ValuesAt(c, {"require_capabilities"})
    BY DEF RestrictionsSurvive
  <2> DEFINE q == req[r]
             doc == q.held.doc
             c == q.route.constraints
             written == Written[doc][i].route
             s == Normalized(written).constraints
  <2>1. doc \in DOMAIN Written /\ EvalInv(q, doc, InputOf(r)) /\ q.phase = "done"
    <3>1. RequestInv(q) /\ q.phase = "done" /\ InputOf(r) = Inputs[q.input]
      BY DEF StoreInv, ReqInv, Done, InputOf
    <3> QED BY <3>1 DEF RequestInv
  <2>2. i \in DOMAIN RulesIn[doc] /\ Kept(RulesIn[doc][i].route.constraints, c)
    <3>1. i \in Heard(doc, InputOf(r), q.at)
      BY <2>1 DEF EvalInv
    <3>2. Heard(doc, InputOf(r), q.at) \subseteq DOMAIN RulesIn[doc]
      BY <2>1, HeardEnds
    <3> QED BY <2>1, <3>1, <3>2 DEF EvalInv
  <2>3. /\ Kept(s, c) /\ DOMAIN written = DOMAIN Empty
        /\ DOMAIN written.hints \subseteq DOMAIN HintTypes
    BY <2>1, <2>2, RulesAreInOrder
  <2> HIDE DEF q, doc, c, written, s
  <2>4. /\ \A k \in {"max_cost_usd", "retention"} :
             /\ k \in DOMAIN s <=> k \in DOMAIN written.constraints \/ k \in DOMAIN written.hints
             /\ k \in DOMAIN written.constraints => s[k] = written.constraints[k]
             /\ k \in DOMAIN written.hints /\ k \notin DOMAIN written.constraints => s[k] = written.hints[k]
        /\ \A k \in {"denied_providers", "max_latency_ms"} :
             /\ k \in DOMAIN s <=> k \in DOMAIN written.constraints
             /\ k \in DOMAIN s => s[k] = written.constraints[k]
        /\ LET asked == ValuesAt(written.hints, {"require_capability"})
                          \cup UNION ValuesAt(written.constraints, {"require_capabilities"})
           IN  asked # {} => "require_capabilities" \in DOMAIN s /\ s.require_capabilities = asked
    BY <2>3, NormalizedRoute DEF s
  <2>5. ASSUME NEW k \in {"max_cost_usd", "retention"}, NEW n \in Asked(doc, i, "constraints", k, k)
        PROVE  k \in DOMAIN s /\ s[k] = n
    <3>1. n \in IF k \in DOMAIN written.constraints THEN {written.constraints[k]}
                ELSE ValuesAt(written.hints, {k})
      BY DEF Asked, written
    <3> QED BY <2>4, <3>1 DEF ValuesAt
  <2>6. \A n \in Asked(doc, i, "constraints", "max_cost_usd", "max_cost_usd") :
          "max_cost_usd" \in DOMAIN c /\ c.max_cost_usd <= n
    BY <2>3, <2>5 DEF Kept
  <2>7. "none" \in Asked(doc, i, "constraints", "retention", "retention") =>
          "retention" \in DOMAIN c /\ c.retention = "none"
    BY <2>3, <2>5 DEF Kept
  <2>8. UNION Asked(doc, i, "constraints", "denied_providers", "none")
          \subseteq UNION ValuesAt(c, {"denied_providers"})
    <3>1. "none" \notin DOMAIN HintTypes
      BY DEF HintTypes
    <3>2. ASSUME NEW A \in Asked(doc, i, "constraints", "denied_providers", "none")
          PROVE  /\ "denied_providers" \in DOMAIN written.constraints
                 /\ A = written.constraints.denied_providers
      BY <2>3, <3>1 DEF Asked, ValuesAt, written
    <3>3. ASSUME "denied_providers" \in DOMAIN written.constraints
          PROVE  /\ "denied_providers" \in DOMAIN c
                 /\ written.constraints.denied_providers \subseteq c.denied_providers
      BY <2>3, <2>4, <3>3 DEF Kept
    <3> QED BY <3>2, <3>3 DEF ValuesAt
  <2>9. ValuesAt(written.hints, {"require_capability"})
          \cup UNION ValuesAt(written.constraints, {"require_capabilities"})
          \subseteq UNION ValuesAt(c, {"require_capabilities"})
    <3> DEFINE asked == ValuesAt(written.hints, {"require_capability"})
                          \cup UNION ValuesAt(written.constraints, {"require_capabilities"})
    <3>1. asked # {} => "require_capabilities" \in DOMAIN s /\ s.require_capabilities = asked
      BY <2>4
    <3> HIDE DEF asked
    <3>2. asked # {} => "require_capabilities" \in DOMAIN c /\ asked \subseteq c.require_capabilities
      BY <2>3, <3>1 DEF Kept
    <3>3. asked \subseteq UNION ValuesAt(c, {"require_capabilities"})
      BY <3>2 DEF ValuesAt
    <3> QED BY <3>3 DEF asked
  <2> QED BY <2>6, <2>7, <2>8, <2>9 DEF c, written, doc, q
<1> QED BY <1>1, StoreInvHolds, PTL

\* Whatever a policy in force can make a route name is in the snapshot it was compiled
\* against, whether a section or a hint names it.
THEOREM ReferencesResolveHolds == StoreSpec => []ReferencesResolve
<1>1. StoreInv => ReferencesResolve
  <2> SUFFICES ASSUME StoreInv, NEW t \in DOMAIN active, NEW i \in DOMAIN RulesIn[active[t].doc]
               PROVE  LET compiled == RulesIn[active[t].doc][i].route
                          snapshot == Snapshot(active[t].registry)
                      IN  /\ ValuesAt(compiled.force, {"model"}) \ {""} \subseteq snapshot.models
                          /\ ValuesAt(compiled.force, {"provider"}) \ {""} \subseteq snapshot.providers
                          /\ (UNION ValuesAt(compiled.constraints, {"denied_providers"})) \ {""}
                               \subseteq snapshot.providers
    BY DEF ReferencesResolve
  <2> DEFINE doc == active[t].doc
             snapshot == Snapshot(active[t].registry)
             written == Written[doc][i].route
             compiled == RulesIn[doc][i].route
  <2>1. doc \in DOMAIN Written /\ CompileOK(Written[doc], snapshot)
    <3>1. PICK n \in 1..Len(inForce) : inForce[n].scope = t
      BY DEF StoreInv, ActiveInv, MadeOf
    <3> QED BY <3>1 DEF StoreInv, ActiveInv, MadeOf
  <2>2. /\ i \in DOMAIN Written[doc] /\ DOMAIN written = DOMAIN Empty
        /\ compiled = Normalized(written)
    BY <2>1, RulesAreInOrder
  <2>3. /\ ProvidersNamed(written) \ {""} \subseteq snapshot.providers
        /\ ModelsNamed(written) \ {""} \subseteq snapshot.models
    BY <2>1, <2>2 DEF CompileOK, Validate
  <2> HIDE DEF doc, snapshot, written, compiled
  <2>4. ValuesAt(compiled.force, {"model"}) \ {""} \subseteq snapshot.models
    <3>1. ValuesAt(compiled.force, {"model"})
            \subseteq ValuesAt(written.force, {"model"}) \cup ValuesAt(written.hints, {"model"})
      BY <2>2, NormalizedForce
    <3>2. ValuesAt(written.force, {"model"}) \cup ValuesAt(written.hints, {"model"})
            \subseteq ModelsNamed(written)
      BY DEF ModelsNamed, ValuesAt
    <3> QED BY <2>3, <3>1, <3>2
  <2>5. ValuesAt(compiled.force, {"provider"}) \ {""} \subseteq snapshot.providers
    <3>1. ValuesAt(compiled.force, {"provider"})
            \subseteq ValuesAt(written.force, {"provider"}) \cup ValuesAt(written.hints, {"provider"})
      BY <2>2, NormalizedForce
    <3>2. ValuesAt(written.force, {"provider"}) \cup ValuesAt(written.hints, {"provider"})
            \subseteq ProvidersNamed(written)
      BY DEF ProvidersNamed
    <3> QED BY <2>3, <3>1, <3>2
  <2>6. (UNION ValuesAt(compiled.constraints, {"denied_providers"})) \ {""} \subseteq snapshot.providers
    <3>1. UNION ValuesAt(compiled.constraints, {"denied_providers"})
            \subseteq UNION ValuesAt(written.constraints, {"denied_providers"})
      BY <2>2, NormalizedRoute DEF ValuesAt
    <3>2. UNION ValuesAt(written.constraints, {"denied_providers"}) \subseteq ProvidersNamed(written)
      BY DEF ProvidersNamed, ValuesAt
    <3> DEFINE denied == UNION ValuesAt(compiled.constraints, {"denied_providers"})
    <3>3. denied \subseteq ProvidersNamed(written)
      BY <3>1, <3>2
    <3> HIDE DEF denied
    <3>4. denied \ {""} \subseteq snapshot.providers
      BY <2>3, <3>3
    <3> QED BY <3>4 DEF denied
  <2> QED BY <2>4, <2>5, <2>6 DEF compiled, snapshot, doc
<1> QED BY <1>1, StoreInvHolds, PTL

-------------------------------------------------------------------------------
(* Routing. *)

\* A rule's denials are in the route as soon as it has been merged.
DenialsKept ==
  \A i \in DOMAIN matched :
    matched[i].denyP \subseteq route.denyP /\ matched[i].denyM \subseteq route.denyM

\* So are its requirements and denied capabilities, and the route's ceiling is under
\* its own.
ConstraintsKept ==
  /\ AtMostOneNumber(route.maxLatency)
  /\ \A i \in DOMAIN matched :
       /\ matched[i].require \subseteq route.require
       /\ matched[i].denyCap \subseteq route.denyCap
       /\ \A max \in matched[i].maxLatency : \E low \in route.maxLatency : low <= max

\* What a finished decision guarantees, in terms of the accumulated route.
DecisionSound ==
  Routed =>
    /\ dec.model \in Nat
    /\ dec.provider \in Provider \cup {NoProvider}
    /\ dec.fallbacks \in Seq(Model) /\ Len(dec.fallbacks) <= 2
    /\ \A ref \in Attempts : ListsAdmit(KnownProvider(ref), ref, route)
    /\ Risky(job) => \A m \in Fallbacks : TierOf[m] >= TierOf[dec.model]
    /\ Scored => \A m \in Attempts :
         /\ TierOf[m] \in Tier /\ TierOf[m] >= MinimumTier(job, route, Cautious(switch, job))
         /\ m \in Model /\ route.require \subseteq CapsOf[m] /\ FastEnough(m, route)
         /\ route.denyCap \cap CapsOf[m] \subseteq {"chat", "json_schema"}

\* The inductive invariant.
Inv ==
  /\ pc \in {"evaluate", "decided"}
  /\ job \in Jobs
  /\ switch \in BOOLEAN
  /\ matched \in Seq(Rule)
  /\ DOMAIN route = DOMAIN NoRoute
  /\ route.fProfile \subseteq Tier
  /\ dec.kind \in Kinds
  /\ pc = "decided" <=> dec.kind # "pending"
  /\ DenialsKept
  /\ ConstraintsKept
  /\ DecisionSound

\* Nothing is merged and nothing decided at first.
LEMMA InitInv == Init => Inv
<1> SUFFICES ASSUME Init PROVE Inv
  OBVIOUS
<1>1. job \in Jobs
  BY RuleAssumption DEF Init, RuleAssumption
<1>2. matched \in Seq(Rule) /\ DOMAIN matched = {}
  BY DEF Init
<1>3. dec.kind = "pending"
  BY DEF Init, Pending
<1>4. route.fProfile \subseteq Tier /\ AtMostOneNumber(route.maxLatency)
  BY DEF Init, NoRoute, AtMostOneNumber
<1> QED
  BY <1>1, <1>2, <1>3, <1>4
     DEF Init, Inv, Kinds, DenialsKept, ConstraintsKept, DecisionSound, Routed

\* The ceiling that Stricter leaves is one of the two, and below both.
LEMMA StricterIsLowest ==
  ASSUME NEW old, NEW new, AtMostOneNumber(old), AtMostOneNumber(new)
  PROVE  /\ AtMostOneNumber(Stricter(old, new))
         /\ \A n \in old \cup new : \E low \in Stricter(old, new) : low <= n
BY DEF AtMostOneNumber, Stricter

\* Merging one more rule keeps the denials of the earlier ones and adds its own.
LEMMA MergeInv == ASSUME Inv, NEW r \in Rule, MergeRule(r)
                  PROVE  Inv'
<1>1. /\ route'.denyP = route.denyP \cup r.denyP
      /\ route'.denyM = route.denyM \cup r.denyM
      /\ route'.fProfile = KeepFirst(route.fProfile, r.fProfile)
      /\ route'.require = route.require \cup r.require
      /\ route'.denyCap = route.denyCap \cup r.denyCap
      /\ route'.maxLatency = Stricter(route.maxLatency, r.maxLatency)
      /\ DOMAIN route' = DOMAIN NoRoute
  BY DEF MergeRule, MergeRoute, NoRoute
<1>2. route'.fProfile \subseteq Tier
  BY <1>1, RuleAssumption DEF KeepFirst, RuleAssumption, Inv
<1>3. matched' \in Seq(Rule)
  BY DEF MergeRule, Inv
<1>4. DenialsKept'
  <2> SUFFICES ASSUME NEW i \in DOMAIN matched'
               PROVE  /\ matched'[i].denyP \subseteq route'.denyP
                      /\ matched'[i].denyM \subseteq route'.denyM
    BY DEF DenialsKept
  <2>1. (i \in DOMAIN matched /\ matched'[i] = matched[i]) \/ matched'[i] = r
    BY DEF MergeRule, Inv
  <2> QED
    BY <1>1, <2>1 DEF DenialsKept, Inv
<1>5. ConstraintsKept'
  <2>1. /\ AtMostOneNumber(route'.maxLatency)
        /\ \A n \in route.maxLatency \cup r.maxLatency : \E low \in route'.maxLatency : low <= n
    BY <1>1, StricterIsLowest, RuleAssumption DEF RuleAssumption, Inv, ConstraintsKept
  <2>2. ASSUME NEW i \in DOMAIN matched'
        PROVE  /\ matched'[i].require \subseteq route'.require
               /\ matched'[i].denyCap \subseteq route'.denyCap
               /\ \A max \in matched'[i].maxLatency : \E low \in route'.maxLatency : low <= max
    <3>1. CASE matched'[i] = r
      BY <1>1, <2>1, <3>1
    <3>2. CASE i \in DOMAIN matched /\ matched'[i] = matched[i]
      <4>1. matched[i].require \subseteq route'.require /\ matched[i].denyCap \subseteq route'.denyCap
        BY <1>1, <3>2 DEF Inv, ConstraintsKept
      <4>2. ASSUME NEW max \in matched[i].maxLatency
            PROVE  \E low \in route'.maxLatency : low <= max
        <5>1. PICK mid \in route.maxLatency : mid <= max
          BY <3>2 DEF Inv, ConstraintsKept
        <5>2. PICK low \in route'.maxLatency : low <= mid
          BY <2>1
        <5>3. matched[i] \in Rule
          BY <3>2 DEF Inv
        <5>4. low \in Int /\ mid \in Int /\ max \in Int
          BY <2>1, <5>3, RuleAssumption
             DEF Inv, ConstraintsKept, RuleAssumption, AtMostOneNumber
        <5> QED BY <5>1, <5>2, <5>4
      <4> QED BY <3>2, <4>1, <4>2
    <3>3. (i \in DOMAIN matched /\ matched'[i] = matched[i]) \/ matched'[i] = r
      BY DEF MergeRule, Inv
    <3> QED BY <3>1, <3>2, <3>3
  <2> QED BY <2>1, <2>2 DEF ConstraintsKept
<1>6. dec.kind = "pending" /\ dec' = dec
  BY DEF MergeRule, Inv
<1> QED
  BY <1>1, <1>2, <1>3, <1>4, <1>5, <1>6
     DEF MergeRule, Inv, Kinds, DecisionSound, Routed

\* A decision leaves the evaluation alone, so only its own soundness is left to show.
LEMMA DecidedInv == ASSUME Inv, NEW d, Decided(d), d.kind \in Kinds \ {"pending"},
                           DecisionSound'
                    PROVE  Inv'
BY DEF Decided, Inv, DenialsKept, ConstraintsKept

\* A decision that routes nowhere is sound.
LEMMA FailedSound == ASSUME Inv, NEW k \in Kinds \ {"pending", "routed"}, Decided(Failed(k))
                     PROVE  Inv'
<1>1. Failed(k).kind = k
  BY DEF Failed, Pending
<1>2. DecisionSound'
  BY <1>1 DEF Decided, DecisionSound, Routed
<1> QED BY <1>1, <1>2, DecidedInv

\* A decision for one model without a chain is sound when the lists admit it and it
\* was not scored.
LEMMA SingleSound == ASSUME Inv, NEW m \in Nat, NEW p \in Provider \cup {NoProvider},
                            Decided([kind |-> "routed", model |-> m, provider |-> p,
                                     fallbacks |-> <<>>]),
                            ListsAdmit(KnownProvider(m), m, route),
                            ~(job.mode # "disabled" /\ PinnedRef = {})
                     PROVE  Inv'
<1>1. dec'.model = m /\ dec'.provider = p /\ dec'.fallbacks = <<>> /\ dec'.kind = "routed"
  BY DEF Decided
<1>2. Attempts' = {m} /\ Fallbacks' = {}
  BY <1>1 DEF Attempts, Fallbacks
<1>3. ~Scored'
  BY DEF Scored, Decided, PinnedRef
<1>4. \A k \in Attempts' : ListsAdmit(KnownProvider(k), k, route)'
  BY <1>2 DEF Decided, ListsAdmit
<1>5. DecisionSound'
  BY <1>1, <1>2, <1>3, <1>4 DEF DecisionSound
<1> QED BY <1>5, DecidedInv DEF Kinds

\* Models named by the client or by policy.
LEMMA PinnedInv == ASSUME Inv, DecidePinned
                   PROVE  Inv'
<1>1. PICK ref \in PinnedRef :
        \/ Resolve(ref) = {} /\ Decided(Failed("not_found"))
        \/ \E m \in Resolve(ref) :
             Decided(IF ListsAdmit(ProviderOf[m], m, route)
                     THEN RouteTo(m, <<>>) ELSE Failed("blocked"))
  BY DEF DecidePinned
<1>2. CASE Decided(Failed("not_found"))
  BY <1>2, FailedSound DEF Kinds
<1>3. ASSUME NEW m \in Resolve(ref),
             Decided(IF ListsAdmit(ProviderOf[m], m, route)
                     THEN RouteTo(m, <<>>) ELSE Failed("blocked"))
      PROVE  Inv'
  <2>1. m \in Model /\ m \in Nat /\ ProviderOf[m] \in Provider
    BY RegistryAssumption DEF Resolve, RegistryAssumption
  <2>2. CASE ~ListsAdmit(ProviderOf[m], m, route)
    BY <1>3, <2>2, FailedSound DEF Kinds
  <2>3. CASE ListsAdmit(ProviderOf[m], m, route)
    <3>1. Decided(RouteTo(m, <<>>))
      BY <1>3, <2>3
    <3>2. KnownProvider(m) = ProviderOf[m]
      BY <2>1 DEF KnownProvider
    <3> QED BY <1>1, <2>1, <2>3, <3>1, <3>2, SingleSound DEF RouteTo
  <2> QED BY <2>2, <2>3
<1> QED BY <1>1, <1>2, <1>3

\* Router mode "disabled": a known ID is checked with its provider, a bare name is
\* no model of the registry.
LEMMA DisabledInv == ASSUME Inv, DecideDisabled
                     PROVE  Inv'
<1>1. CASE Decided(Failed("disabled"))
  BY <1>1, FailedSound DEF Kinds
<1>2. ASSUME NEW ref \in job.explicit,
             Decided(IF ListsAdmit(KnownProvider(ref), ref, route)
                     THEN AsIs(ref) ELSE Failed("blocked"))
      PROVE  Inv'
  <2>1. ref \in Nat
    BY DEF Inv, Jobs
  <2>2. CASE ~ListsAdmit(KnownProvider(ref), ref, route)
    BY <1>2, <2>2, FailedSound DEF Kinds
  <2>3. CASE ListsAdmit(KnownProvider(ref), ref, route)
    <3>1. Decided(AsIs(ref))
      BY <1>2, <2>3
    <3> QED BY <2>1, <2>3, <3>1, SingleSound DEF DecideDisabled, AsIs
  <2> QED BY <2>2, <2>3
<1> QED BY <1>1, <1>2 DEF DecideDisabled

\* What a chain cut from a ranking of S contains.
LEMMA ChainFromRanking ==
  ASSUME NEW S \in SUBSET Model, S # {}, NEW ranked \in Rankings(S), NEW j \in Jobs, NEW r,
         NEW chain \in UNION {[1..n -> S] : n \in 0..2}, IsChain(chain, ranked, j, r)
  PROVE  /\ chain \in Seq(Model) /\ Len(chain) <= 2
         /\ \A i \in DOMAIN chain :
              /\ chain[i] \in S
              /\ ValidFallback(ranked[1], chain[i], j, r)
<1>1. PICK n \in 0..2 : chain \in [1..n -> S]
  OBVIOUS
<1>2. chain \in Seq(Model) /\ Len(chain) = n /\ DOMAIN chain = 1..n
  BY <1>1
<1>3. ASSUME NEW i \in FallbackPlaces(ranked, j, r)
      PROVE  ValidFallback(ranked[1], ranked[i], j, r)
  BY <1>3 DEF FallbackPlaces
<1>4. CASE chain = <<>>
  BY <1>2, <1>4
<1>5. ASSUME NEW i \in FallbackPlaces(ranked, j, r), chain = <<ranked[i]>>
      PROVE  \A k \in DOMAIN chain : ValidFallback(ranked[1], chain[k], j, r)
  BY <1>3, <1>5
<1>6. ASSUME NEW i \in FallbackPlaces(ranked, j, r), NEW k \in FallbackPlaces(ranked, j, r),
             chain = <<ranked[i], ranked[k]>>
      PROVE  \A l \in DOMAIN chain : ValidFallback(ranked[1], chain[l], j, r)
  BY <1>3, <1>6
<1>7. \A k \in DOMAIN chain : ValidFallback(ranked[1], chain[k], j, r)
  BY <1>4, <1>5, <1>6 DEF IsChain, IsFirst
<1> QED BY <1>1, <1>2, <1>7

\* The scored path: everything in the ranking passed the hard filter.
LEMMA ScoredInv == ASSUME Inv, DecideScored
                   PROVE  Inv'
<1>1. PICK seen \in SUBSET Model :
        LET S == Candidates(job, route, Cautious(switch, job), seen)
        IN  \/ S = {} /\ Decided(Failed("no_route"))
            \/ \E ranked \in Rankings(S) :
                 /\ S # {}
                 /\ \E chain \in UNION {[1..n -> S] : n \in 0..2} :
                      /\ IsChain(chain, ranked, job, route)
                      /\ Decided(RouteTo(ranked[1], chain))
  BY DEF DecideScored
<1> DEFINE S == Candidates(job, route, Cautious(switch, job), seen)
<1>2. CASE Decided(Failed("no_route"))
  BY <1>2, FailedSound DEF Kinds
<1>3. ASSUME NEW ranked \in Rankings(S), S # {},
             NEW chain \in UNION {[1..n -> S] : n \in 0..2},
             IsChain(chain, ranked, job, route),
             Decided(RouteTo(ranked[1], chain))
      PROVE  Inv'
  <2>1. S \in SUBSET Model
    BY RegistryAssumption DEF Candidates, RegistryAssumption
  <2>2. ranked[1] \in S
    <3>1. IsFiniteSet(S)
      BY <2>1, RegistryAssumption, FS_Subset DEF RegistryAssumption
    <3>2. Cardinality(S) \in Nat /\ Cardinality(S) # 0
      BY <1>3, <3>1, FS_CardinalityType, FS_EmptySet
    <3>3. ranked \in [1..Cardinality(S) -> S]
      BY <1>3 DEF Rankings
    <3> QED BY <3>2, <3>3
  <2>3. /\ chain \in Seq(Model) /\ Len(chain) <= 2
        /\ \A i \in DOMAIN chain :
             chain[i] \in S /\ ValidFallback(ranked[1], chain[i], job, route)
    <3> HIDE DEF S
    <3> QED BY <1>3, <2>1, ChainFromRanking DEF Inv
  <2>4. \A m \in S : /\ m \in Model /\ m \in Nat /\ TierOf[m] \in Tier
                     /\ ProviderOf[m] \in Provider
                     /\ TierOf[m] >= MinimumTier(job, route, Cautious(switch, job))
                     /\ ListsAdmit(ProviderOf[m], m, route)
                     /\ route.require \subseteq CapsOf[m] /\ FastEnough(m, route)
                     /\ route.denyCap \cap CapsOf[m] \subseteq {"chat", "json_schema"}
    BY <2>1, RegistryAssumption DEF Candidates, PassesHardFilter, RegistryAssumption
  <2> HIDE DEF S
  <2>5. /\ dec'.kind = "routed" /\ dec'.model = ranked[1] /\ dec'.fallbacks = chain
        /\ dec'.provider = ProviderOf[ranked[1]]
    BY <1>3 DEF Decided, RouteTo
  <2>6. /\ Fallbacks' = {chain[i] : i \in DOMAIN chain}
        /\ Attempts' = {ranked[1]} \cup {chain[i] : i \in DOMAIN chain}
    BY <2>5 DEF Attempts, Fallbacks
  <2>7. \A m \in Attempts' : m \in S
    BY <2>2, <2>3, <2>6
  <2>8. Risky(job)' => \A m \in Fallbacks' : TierOf[m] >= TierOf[dec'.model]
    BY <1>3, <2>3, <2>5, <2>6 DEF Decided, Risky, ValidFallback
  <2>9. job' = job /\ route' = route /\ switch' = switch
    BY <1>3 DEF Decided
  <2>10. DecisionSound'
    <3>1. \A m \in Attempts' : ListsAdmit(KnownProvider(m), m, route')
      BY <2>4, <2>7, <2>9 DEF KnownProvider
    <3>2. \A m \in Attempts' : TierOf[m] \in Tier
             /\ TierOf[m] >= MinimumTier(job', route', Cautious(switch', job'))
             /\ m \in Model /\ route'.require \subseteq CapsOf[m] /\ FastEnough(m, route')
             /\ route'.denyCap \cap CapsOf[m] \subseteq {"chat", "json_schema"}
      BY <2>4, <2>7, <2>9
    <3> QED BY <2>2, <2>3, <2>4, <2>5, <2>8, <3>1, <3>2 DEF DecisionSound
  <2>11. RouteTo(ranked[1], chain).kind \in Kinds \ {"pending"}
    BY DEF RouteTo, Kinds
  <2> QED BY <1>3, <2>10, <2>11, DecidedInv
<1> QED BY <1>1, <1>2, <1>3

\* Every step keeps the invariant.
LEMMA NextInv == Inv /\ [Next]_vars => Inv'
<1>1. ASSUME Inv, DecideBlocked PROVE Inv'
  BY <1>1, FailedSound DEF DecideBlocked, Kinds
<1>2. ASSUME Inv, UNCHANGED vars PROVE Inv'
  BY <1>2 DEF vars, Inv, DenialsKept, ConstraintsKept, DecisionSound, Routed, Scored, Attempts, Fallbacks,
              PinnedRef, ListsAdmit, Risky
<1> QED
  BY <1>1, <1>2, MergeInv, DisabledInv, PinnedInv, ScoredInv DEF Next, Decide

\* The invariant holds in every reachable state.
THEOREM InvHolds == Spec => []Inv
BY InitInv, NextInv, PTL DEF Spec

\* Type correctness.
THEOREM TypeCorrect == Spec => []TypeOK
<1>1. Inv => TypeOK
  BY DEF Inv, TypeOK, DecisionSound, Routed
<1> QED BY <1>1, InvHolds, PTL

\* No denied model, and no registered model of a denied provider, is ever attempted by
\* the reference it is listed under, for any policy and registry.
THEOREM DenyListsHoldHolds == Spec => []DenyListsHold
<1>1. Inv => DenyListsHold
  BY DEF Inv, DenyListsHold, DenialsKept, DecisionSound, ListsAdmit, KnownProvider
<1> QED BY <1>1, InvHolds, PTL

\* A risky request never falls back to a less capable model.
THEOREM RiskyNeverDownwardHolds == Spec => []RiskyNeverDownward
<1>1. Inv => RiskyNeverDownward
  BY DEF Inv, RiskyNeverDownward, DecisionSound
<1> QED BY <1>1, InvHolds, PTL

\* Every attempt of a scored decision meets the requirements, the latency ceiling and
\* the denied capabilities but json_schema of every rule that matched.
THEOREM ScoredWithinConstraintsHolds == Spec => []ScoredWithinConstraints
<1>1. Inv => ScoredWithinConstraints
  <2> SUFFICES ASSUME Inv, Scored, NEW m \in Attempts, NEW i \in DOMAIN matched
               PROVE  /\ matched[i].require \subseteq CapsOf[m]
                      /\ matched[i].denyCap \cap CapsOf[m] \subseteq {"chat", "json_schema"}
                      /\ FastEnough(m, matched[i])
    BY DEF ScoredWithinConstraints
  <2>1. /\ m \in Model /\ route.require \subseteq CapsOf[m] /\ FastEnough(m, route)
        /\ route.denyCap \cap CapsOf[m] \subseteq {"chat", "json_schema"}
    BY DEF Inv, DecisionSound, Scored
  <2>2. /\ matched[i].require \subseteq CapsOf[m]
        /\ matched[i].denyCap \cap CapsOf[m] \subseteq {"chat", "json_schema"}
    BY <2>1 DEF Inv, ConstraintsKept
  <2>3. ASSUME NEW max \in matched[i].maxLatency, LatencyOf[m] > 0
        PROVE  LatencyOf[m] <= max
    <3>1. PICK low \in route.maxLatency : low <= max
      BY DEF Inv, ConstraintsKept
    <3>2. LatencyOf[m] <= low
      BY <2>1, <2>3 DEF FastEnough
    <3>3. matched[i] \in Rule
      BY DEF Inv
    <3>4. LatencyOf[m] \in Nat /\ low \in Int /\ max \in Int
      BY <2>1, <3>3, RegistryAssumption, RuleAssumption
         DEF Inv, ConstraintsKept, RegistryAssumption, RuleAssumption, AtMostOneNumber
    <3> QED BY <3>1, <3>2, <3>4
  <2> QED BY <2>2, <2>3 DEF FastEnough
<1> QED BY <1>1, InvHolds, PTL

\* Conservative mode keeps uncertain requests off the cheap tier, whatever a rule forces.
THEOREM UncertainNeverCheapHolds == Spec => []UncertainNeverCheap
<1>1. Inv => UncertainNeverCheap
  <2> SUFFICES ASSUME Inv, Scored, Cautious(switch, job), NEW m \in Attempts
               PROVE  TierOf[m] >= 1
    BY DEF UncertainNeverCheap
  <2>1. TierOf[m] \in Tier /\ TierOf[m] >= MinimumTier(job, route, Cautious(switch, job))
    BY DEF Inv, DecisionSound, Scored
  <2>2. BaseFloor(job, route) \in Tier
    BY DEF Inv, BaseFloor, TaskFloor, Tier
  <2> QED BY <2>1, <2>2 DEF MinimumTier, Tier
<1> QED BY <1>1, InvHolds, PTL

-------------------------------------------------------------------------------
(* Between the two. *)

\* What a section sets a key to: the set of that value, or of nothing; for a list, the
\* list, empty where it is missing.
ValueAt(f, k) == ValuesAt(f, {k})
ListAt(f, k) == UNION ValueAt(f, k)

\* What the engine sees of a route of the policy language, the tiers given by rank.
Seen(r, rank) ==
  [block      |-> r.block,
   fModel     |-> ValueAt(r.force, "model"),
   fProvider  |-> ValueAt(r.force, "provider"),
   fProfile   |-> {rank[t] : t \in ValueAt(r.force, "model_profile")},
   allowP     |-> ListAt(r.constraints, "allowed_providers"),
   denyP      |-> ListAt(r.constraints, "denied_providers"),
   allowM     |-> ListAt(r.constraints, "allowed_models"),
   denyM      |-> ListAt(r.constraints, "denied_models"),
   require    |-> ListAt(r.constraints, "require_capabilities"),
   denyCap    |-> ListAt(r.constraints, "deny_capabilities"),
   maxLatency |-> ValueAt(r.constraints, "max_latency_ms"),
   fallbackProfiles |-> {rank[t] : t \in ListAt(r.constraints, "fallback_model_profiles")}]

\* A section without a key has no value there, one with it has one.
LEMMA ValueOrNothing ==
  ASSUME NEW f, NEW k
  PROVE  /\ k \in DOMAIN f => ValueAt(f, k) = {f[k]}
         /\ k \notin DOMAIN f => ValueAt(f, k) = {}
BY DEF ValuesAt, ValueAt

\* Force keeps the first value.
LEMMA OverKeepsFirst ==
  ASSUME NEW f, NEW g, NEW k
  PROVE  ValueAt(Over(f, g), k) = KeepFirst(ValueAt(f, k), ValueAt(g, k))
<1>1. /\ DOMAIN Over(f, g) = DOMAIN f \cup DOMAIN g
      /\ k \in DOMAIN f => Over(f, g)[k] = f[k]
      /\ k \in DOMAIN g \ DOMAIN f => Over(f, g)[k] = g[k]
  BY DEF Over
<1>2. CASE k \in DOMAIN f
  <2>1. ValueAt(Over(f, g), k) = {f[k]} /\ ValueAt(f, k) = {f[k]}
    BY <1>1, <1>2, ValueOrNothing
  <2>2. KeepFirst({f[k]}, ValueAt(g, k)) = {f[k]}
    BY DEF KeepFirst
  <2> QED BY <2>1, <2>2
<1>3. CASE k \notin DOMAIN f /\ k \in DOMAIN g
  BY <1>1, <1>3, ValueOrNothing DEF KeepFirst
<1>4. CASE k \notin DOMAIN f /\ k \notin DOMAIN g
  BY <1>1, <1>4, ValueOrNothing DEF KeepFirst
<1> QED BY <1>2, <1>3, <1>4

\* Lists that deny or require add up, lists that allow are intersected, and the latency
\* ceiling is the smaller one, whichever of the two routes sets them.
LEMMA MergedLists ==
  ASSUME NEW old, NEW new
  PROVE  LET m == MergeConstraints(old, new) IN
         /\ \A k \in {"denied_providers", "denied_models", "require_capabilities",
                      "deny_capabilities", "fallback_model_profiles"} :
              ListAt(m, k) = ListAt(old, k) \cup ListAt(new, k)
         /\ \A k \in {"allowed_providers", "allowed_models"} :
              ListAt(m, k) = IntersectIfBoth(ListAt(old, k), ListAt(new, k))
<1> DEFINE m == MergeConstraints(old, new)
<1>1. /\ DOMAIN m = DOMAIN old \cup DOMAIN new
      /\ \A k \in DOMAIN old \cap DOMAIN new : m[k] = BothSet(k, old[k], new[k])
      /\ \A k \in DOMAIN old \ DOMAIN new : m[k] = old[k]
      /\ \A k \in DOMAIN new \ DOMAIN old : m[k] = new[k]
  BY DEF MergeConstraints, Over
<1>2. \A f, k : /\ k \in DOMAIN f => ListAt(f, k) = f[k]
                /\ k \notin DOMAIN f => ListAt(f, k) = {}
  <2>1. ASSUME NEW f, NEW k, k \in DOMAIN f PROVE ListAt(f, k) = f[k]
    <3>1. ValueAt(f, k) = {f[k]}
      BY <2>1, ValueOrNothing
    <3>2. UNION {f[k]} = f[k]
      OBVIOUS
    <3> QED BY <3>1, <3>2 DEF ListAt
  <2>2. ASSUME NEW f, NEW k, k \notin DOMAIN f PROVE ListAt(f, k) = {}
    BY <2>2, ValueOrNothing DEF ListAt
  <2> QED BY <2>1, <2>2
<1> HIDE DEF m
<1>3. ASSUME NEW k \in {"denied_providers", "denied_models", "require_capabilities",
                        "deny_capabilities", "fallback_model_profiles"}
      PROVE  ListAt(m, k) = ListAt(old, k) \cup ListAt(new, k)
  <2>1. k \in DOMAIN old \cap DOMAIN new => m[k] = old[k] \cup new[k]
    BY <1>1, <1>3 DEF BothSet
  <2>2. CASE k \in DOMAIN old /\ k \in DOMAIN new
    BY <1>1, <1>2, <2>1, <2>2
  <2>3. CASE k \in DOMAIN old /\ k \notin DOMAIN new
    BY <1>1, <1>2, <2>3
  <2>4. CASE k \notin DOMAIN old /\ k \in DOMAIN new
    BY <1>1, <1>2, <2>4
  <2>5. CASE k \notin DOMAIN old /\ k \notin DOMAIN new
    BY <1>1, <1>2, <2>5
  <2> QED BY <2>2, <2>3, <2>4, <2>5
<1>4. ASSUME NEW k \in {"allowed_providers", "allowed_models"}
      PROVE  ListAt(m, k) = IntersectIfBoth(ListAt(old, k), ListAt(new, k))
  <2>1. k \in DOMAIN old \cap DOMAIN new => m[k] = IntersectIfBoth(old[k], new[k])
    BY <1>1, <1>4 DEF BothSet
  <2>2. \A S : IntersectIfBoth(S, {}) = S /\ IntersectIfBoth({}, S) = S
    BY DEF IntersectIfBoth
  <2>3. CASE k \in DOMAIN old /\ k \in DOMAIN new
    BY <1>1, <1>2, <2>1, <2>3
  <2>4. CASE k \in DOMAIN old /\ k \notin DOMAIN new
    BY <1>1, <1>2, <2>2, <2>4
  <2>5. CASE k \notin DOMAIN old /\ k \in DOMAIN new
    BY <1>1, <1>2, <2>2, <2>5
  <2>6. CASE k \notin DOMAIN old /\ k \notin DOMAIN new
    BY <1>1, <1>2, <2>2, <2>6
  <2> QED BY <2>3, <2>4, <2>5, <2>6
<1> QED BY <1>3, <1>4 DEF m

\* The same for the ceiling.
LEMMA MergedCeiling ==
  ASSUME NEW old, NEW new, Amounts(old), Amounts(new)
  PROVE  ValueAt(MergeConstraints(old, new), "max_latency_ms")
           = Stricter(ValueAt(old, "max_latency_ms"), ValueAt(new, "max_latency_ms"))
<1> DEFINE m == MergeConstraints(old, new)
<1>1. ASSUME NEW k, k = "max_latency_ms"
      PROVE  ValueAt(m, k) = Stricter(ValueAt(old, k), ValueAt(new, k))
  <2>1. /\ DOMAIN m = DOMAIN old \cup DOMAIN new
        /\ k \in DOMAIN old \cap DOMAIN new => m[k] = IF new[k] < old[k] THEN new[k] ELSE old[k]
        /\ k \in DOMAIN old \ DOMAIN new => m[k] = old[k]
        /\ k \in DOMAIN new \ DOMAIN old => m[k] = new[k]
    BY <1>1 DEF MergeConstraints, Over, BothSet
  <2>2. /\ k \in DOMAIN old => old[k] \in Int
        /\ k \in DOMAIN new => new[k] \in Int
    BY <1>1 DEF Amounts
  <2> HIDE DEF m
  <2>3. CASE k \in DOMAIN old /\ k \in DOMAIN new
    <3>1. ValueAt(m, k) = {m[k]} /\ ValueAt(old, k) = {old[k]} /\ ValueAt(new, k) = {new[k]}
      BY <2>1, <2>3, ValueOrNothing
    <3>2. Stricter({old[k]}, {new[k]}) = IF new[k] < old[k] THEN {new[k]} ELSE {old[k]}
      BY DEF Stricter
    <3> QED BY <2>1, <2>3, <3>1, <3>2
  <2>4. CASE k \in DOMAIN old /\ k \notin DOMAIN new
    BY <2>1, <2>4, ValueOrNothing DEF Stricter
  <2>5. CASE k \notin DOMAIN old /\ k \in DOMAIN new
    BY <2>1, <2>5, ValueOrNothing DEF Stricter
  <2>6. CASE k \notin DOMAIN old /\ k \notin DOMAIN new
    BY <2>1, <2>6, ValueOrNothing DEF Stricter
  <2> QED BY <2>3, <2>4, <2>5, <2>6
<1> QED BY <1>1 DEF m

\* Merging two routes of the policy language is, for the engine, merging what it sees of
\* each: mergeRoute as the routing model takes it is mergeRoute as the language defines it.
THEOREM MergeIsSeen ==
  ASSUME NEW rank, NEW dst, NEW src, Amounts(dst.constraints), Amounts(src.constraints)
  PROVE  /\ Seen(Merge(dst, src), rank) = MergeRoute(Seen(dst, rank), Seen(src, rank))
         /\ Seen(Empty, rank) = NoRoute
<1> DEFINE Ranked(S) == {rank[t] : t \in S}
           m == Merge(dst, src)
<1>1. /\ m.block = (dst.block \/ src.block) /\ m.force = Over(dst.force, src.force)
      /\ m.constraints = MergeConstraints(dst.constraints, src.constraints)
  BY DEF Merge
<1>2. \A S, T : /\ Ranked(KeepFirst(S, T)) = KeepFirst(Ranked(S), Ranked(T))
                /\ Ranked(S \cup T) = Ranked(S) \cup Ranked(T)
  BY DEF KeepFirst
<1> HIDE DEF m, Ranked
<1>3. ASSUME NEW k
      PROVE  ValueAt(m.force, k) = KeepFirst(ValueAt(dst.force, k), ValueAt(src.force, k))
  <2>1. m.force = Over(dst.force, src.force)
    BY <1>1
  <2>2. ValueAt(Over(dst.force, src.force), k)
          = KeepFirst(ValueAt(dst.force, k), ValueAt(src.force, k))
    <3> DEFINE f == dst.force
               g == src.force
    <3> HIDE DEF f, g
    <3>1. ValueAt(Over(f, g), k) = KeepFirst(ValueAt(f, k), ValueAt(g, k))
      BY OverKeepsFirst
    <3> QED BY <3>1 DEF f, g
  <2> QED BY <2>1, <2>2
<1>4. /\ \A k \in {"denied_providers", "denied_models", "require_capabilities",
                   "deny_capabilities", "fallback_model_profiles"} :
           ListAt(m.constraints, k) = ListAt(dst.constraints, k) \cup ListAt(src.constraints, k)
      /\ \A k \in {"allowed_providers", "allowed_models"} :
           ListAt(m.constraints, k) = IntersectIfBoth(ListAt(dst.constraints, k), ListAt(src.constraints, k))
  BY <1>1, MergedLists
<1>5. ValueAt(m.constraints, "max_latency_ms")
        = Stricter(ValueAt(dst.constraints, "max_latency_ms"),
                   ValueAt(src.constraints, "max_latency_ms"))
  BY <1>1, MergedCeiling
<1>6. \A r : Seen(r, rank) =
  [block      |-> r.block,
   fModel     |-> ValueAt(r.force, "model"),
   fProvider  |-> ValueAt(r.force, "provider"),
   fProfile   |-> Ranked(ValueAt(r.force, "model_profile")),
   allowP     |-> ListAt(r.constraints, "allowed_providers"),
   denyP      |-> ListAt(r.constraints, "denied_providers"),
   allowM     |-> ListAt(r.constraints, "allowed_models"),
   denyM      |-> ListAt(r.constraints, "denied_models"),
   require    |-> ListAt(r.constraints, "require_capabilities"),
   denyCap    |-> ListAt(r.constraints, "deny_capabilities"),
   maxLatency |-> ValueAt(r.constraints, "max_latency_ms"),
   fallbackProfiles |-> Ranked(ListAt(r.constraints, "fallback_model_profiles"))]
  BY DEF Seen, Ranked
<1>7. Seen(m, rank) = MergeRoute(Seen(dst, rank), Seen(src, rank))
  <2>1. Ranked(ValueAt(m.force, "model_profile"))
          = KeepFirst(Ranked(ValueAt(dst.force, "model_profile")),
                      Ranked(ValueAt(src.force, "model_profile")))
    BY <1>2, <1>3
  <2>2. Ranked(ListAt(m.constraints, "fallback_model_profiles"))
          = Ranked(ListAt(dst.constraints, "fallback_model_profiles"))
              \cup Ranked(ListAt(src.constraints, "fallback_model_profiles"))
    BY <1>2, <1>4
  <2>3. /\ ListAt(m.constraints, "denied_providers")
             = ListAt(dst.constraints, "denied_providers") \cup ListAt(src.constraints, "denied_providers")
        /\ ListAt(m.constraints, "denied_models")
             = ListAt(dst.constraints, "denied_models") \cup ListAt(src.constraints, "denied_models")
        /\ ListAt(m.constraints, "require_capabilities")
             = ListAt(dst.constraints, "require_capabilities")
                 \cup ListAt(src.constraints, "require_capabilities")
        /\ ListAt(m.constraints, "deny_capabilities")
             = ListAt(dst.constraints, "deny_capabilities") \cup ListAt(src.constraints, "deny_capabilities")
    BY <1>4
  <2>4. /\ ListAt(m.constraints, "allowed_providers")
             = IntersectIfBoth(ListAt(dst.constraints, "allowed_providers"),
                               ListAt(src.constraints, "allowed_providers"))
        /\ ListAt(m.constraints, "allowed_models")
             = IntersectIfBoth(ListAt(dst.constraints, "allowed_models"),
                               ListAt(src.constraints, "allowed_models"))
    BY <1>4
  <2>5. /\ ValueAt(m.force, "model") = KeepFirst(ValueAt(dst.force, "model"), ValueAt(src.force, "model"))
        /\ ValueAt(m.force, "provider")
             = KeepFirst(ValueAt(dst.force, "provider"), ValueAt(src.force, "provider"))
    BY <1>3
  <2> QED BY <1>1, <1>5, <1>6, <2>1, <2>2, <2>3, <2>4, <2>5 DEF MergeRoute
<1>8. Seen(Empty, rank) = NoRoute
  BY DEF Seen, Empty, NoRoute, NoFields, ValuesAt, ValueAt, ListAt
<1> QED BY <1>7, <1>8 DEF m

\* Every step of an evaluation is one of the routing model's: the rule leaves the engine's
\* view of the route alone, or is merged into it as MergeRule merges it, and never after a
\* block.  Such a rule has the fields of the routing model's, and one latency ceiling at most
\* (that its profiles are tiers is the parser's vocabulary, which the theorem leaves open).
THEOREM EvaluationIsRouting ==
  ASSUME NEW rank
  PROVE  StoreSpec => [][\A r \in Request :
           req[r].phase = "evaluating" =>
             LET before == Seen(req[r].route, rank) after == Seen(req'[r].route, rank) IN
             \/ after = before
             \/ \E i \in DOMAIN RulesOf(r) : LET rule == Seen(RulesOf(r)[i].route, rank) IN
                  /\ ~before.block /\ after = MergeRoute(before, rule)
                  /\ DOMAIN rule = DOMAIN NoRoute /\ AtMostOneNumber(rule.maxLatency)]_storeVars
<1> DEFINE Step == \A r \in Request :
             req[r].phase = "evaluating" =>
               LET before == Seen(req[r].route, rank) after == Seen(req'[r].route, rank) IN
               \/ after = before
               \/ \E i \in DOMAIN RulesOf(r) : LET rule == Seen(RulesOf(r)[i].route, rank) IN
                    /\ ~before.block /\ after = MergeRoute(before, rule)
                    /\ DOMAIN rule = DOMAIN NoRoute /\ AtMostOneNumber(rule.maxLatency)
<1>1. ASSUME StoreInv, [StoreNext]_storeVars, NEW r \in Request, req[r].phase = "evaluating"
      PROVE  \/ Seen(req'[r].route, rank) = Seen(req[r].route, rank)
             \/ \E i \in DOMAIN RulesOf(r) : LET rule == Seen(RulesOf(r)[i].route, rank) IN
                  /\ ~Seen(req[r].route, rank).block
                  /\ Seen(req'[r].route, rank) = MergeRoute(Seen(req[r].route, rank), rule)
                  /\ DOMAIN rule = DOMAIN NoRoute /\ AtMostOneNumber(rule.maxLatency)
  <2>1. CASE req'[r] = req[r]
    BY <2>1
  <2>2. /\ DOMAIN req = Request /\ DOMAIN req[r] = DOMAIN Idle
        /\ req[r].held.doc \in DOMAIN Written
        /\ EvalInv(req[r], req[r].held.doc, InputOf(r))
    BY <1>1 DEF StoreInv, ReqInv, RequestInv, InputOf
  <2>3. CASE EvaluateRule(r)
    <3> DEFINE doc == req[r].held.doc
               i == req[r].at + 1
               rule == RulesOf(r)[i]
    <3>1. req[r].at < Len(RulesOf(r)) /\ req'[r] = AfterRule(req[r], rule, InputOf(r))
      BY <2>2, <2>3 DEF EvaluateRule
    <3>2. i \in DOMAIN RulesOf(r) /\ RulesOf(r) = RulesIn[doc]
      <4>1. RulesOf(r) = RulesIn[doc]
        BY DEF RulesOf
      <4>2. DOMAIN RulesIn[doc] = 1..Len(RulesIn[doc]) /\ Len(RulesIn[doc]) \in Nat
        BY <2>2, RulesAreInOrder
      <4>3. req[r].at \in 0..Len(RulesIn[doc])
        BY <2>2 DEF EvalInv
      <4> QED BY <3>1, <4>1, <4>2, <4>3
    <3>3. Amounts(req[r].route.constraints) /\ Amounts(rule.route.constraints)
      BY <2>2, <3>2, AmountsAreInt DEF EvalInv
    <3>4. ~req[r].route.block
      <4>1. \A j \in Heard(doc, InputOf(r), req[r].at) : Hit(doc, InputOf(r), j) /\ j \in 1..req[r].at
        <5>1. req[r].at \in Nat
          <6>1. req[r].at \in 0..Len(RulesIn[doc])
            BY <2>2 DEF EvalInv
          <6> QED BY <6>1
        <5>2. DOMAIN RulesIn[doc] = 1..Len(RulesIn[doc]) /\ Len(RulesIn[doc]) \in Nat
          BY <2>2, RulesAreInOrder
        <5>3. \A j \in Speaking(doc, InputOf(r)) :
                j \in DOMAIN RulesIn[doc] /\ Hit(doc, InputOf(r), j)
          BY DEF Speaking, Hit
        <5> QED BY <5>1, <5>2, <5>3 DEF Heard
      <4> QED BY <1>1, <2>2, <4>1 DEF EvalInv
    <3> HIDE DEF i, rule
    <3>5. CASE Matches(rule.when, InputOf(r))
      <4>1. req'[r].route = Merge(req[r].route, rule.route)
        BY <2>2, <3>1, <3>5 DEF AfterRule, Idle
      <4>2. Seen(req'[r].route, rank) = MergeRoute(Seen(req[r].route, rank), Seen(rule.route, rank))
        BY <3>3, <4>1, MergeIsSeen
      <4>3. ~Seen(req[r].route, rank).block /\ DOMAIN Seen(rule.route, rank) = DOMAIN NoRoute
        BY <3>4 DEF Seen, NoRoute
      <4>4. AtMostOneNumber(Seen(rule.route, rank).maxLatency)
        <5>1. Seen(rule.route, rank).maxLatency = ValuesAt(rule.route.constraints, {"max_latency_ms"})
          BY DEF Seen, ValueAt
        <5>2. \A k : k = "max_latency_ms" => AtMostOneNumber(ValuesAt(rule.route.constraints, {k}))
          BY <3>3 DEF Amounts, ValuesAt, AtMostOneNumber
        <5> QED BY <5>1, <5>2
      <4> QED BY <3>2, <4>2, <4>3, <4>4 DEF rule
    <3>6. CASE ~Matches(rule.when, InputOf(r))
      <4>1. req'[r].route = req[r].route
        BY <2>2, <3>1, <3>6 DEF AfterRule, Idle
      <4> QED BY <4>1
    <3> QED BY <3>5, <3>6
  <2>4. CASE Evaluated(r)
    <3>1. req'[r] = [req[r] EXCEPT !.phase = "done"]
      BY <2>2, <2>4 DEF Evaluated
    <3>2. req'[r].route = req[r].route
      BY <2>2, <3>1 DEF Idle
    <3> QED BY <3>2
  <2>5. CASE Ask(r)
    BY <1>1, <2>5 DEF Ask
  <2>6. ASSUME NEW p \in Request \ {r}, Ask(p) \/ EvaluateRule(p) \/ Evaluated(p)
        PROVE  req'[r] = req[r]
    BY <2>2, <2>6 DEF Ask, EvaluateRule, Evaluated
  <2> QED
    BY <1>1, <2>1, <2>3, <2>4, <2>5, <2>6
       DEF StoreNext, storeVars, SwapRegistry, BeginReload, CompileSource, RejectReload, Install,
           RecordInstalled
<1>2. StoreInv /\ [StoreNext]_storeVars => [Step]_storeVars
  BY <1>1
<1> HIDE DEF Step
<1> QED BY <1>2, StoreInvHolds, PTL DEF StoreSpec, Step
===============================================================================
