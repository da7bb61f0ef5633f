----------------------------- MODULE Authorizer -----------------------------
(***************************************************************************)
(* The authorization engines of security/authz behind one interface:       *)
(* decisions about one item (IsAuthorized) and about a list of them        *)
(* (ProjectsAuthorized, FilterAuthorizedPairs, FilterAuthorizedProjects),  *)
(* while SetPolicies replaces the policies, or the service an engine asks  *)
(* changes its own.  ACL, RBAC and AWS IAM decide under a read lock, OPA   *)
(* on a snapshot; Casbin, Cedar and Cerbos decide item by item; Keto and   *)
(* OpenFGA (zanzibar) only decide about one item.  An item stands for a    *)
(* (resource, action) pair or a project; a pattern for the set of the      *)
(* values it matches.  ACL, RBAC, IAM, Cedar and Cerbos have no projects:  *)
(* their ProjectsAuthorized asks about the one pair for every project.     *)
(*                                                                         *)
(* Definitions named Mutant... are faulty variants of the one after them.  *)
(***************************************************************************)
EXTENDS Naturals, Sequences, SequencesExt, FiniteSets, TLC

CONSTANTS Writers, MaxChanges, MaxFaults

VARIABLES engine, opts, policies,  \* the engine; its options; version -> policy
          inForce,                 \* the versions decisions are made on
          adapter, projects,       \* Casbin: version in the adapter, of the project list
          discovery,               \* OpenFGA: the one search for a store
          call, writer,            \* the reader's call; writer -> its SetPolicies
          changes, faults

authzVars == <<engine, opts, policies, inForce, adapter, projects, discovery, call, writer,
               changes, faults>>

Subjects == <<"alice", "bob">>
Items == <<"x", "y">>
Versions == 0..2

-----------------------------------------------------------------------------
(* Deciding about one subject and one item, on given policies.             *)

Rule(who, what, effect) == [who |-> who, what |-> what, effect |-> effect, system |-> FALSE]
System(rule) == [rule EXCEPT !.system = TRUE]       \* of an OPA policy of type "system"
Both == {"x", "y"}
All == {"alice", "bob"}

\* A pattern matches by "*", by equality, by prefix or by suffix.
matchValue(pattern, value) == value \in pattern
Matching(rules, s, i) == {r \in Range(rules) : matchValue(r.who, s) /\ matchValue(r.what, i)}

MutantAclCheck(rules, s, i) ==
  LET hits == Matching(rules, s, i) IN
  IF \E r \in hits : r.effect # "deny" THEN TRUE
  ELSE IF opts.denyOverrides /\ \E r \in hits : r.effect = "deny" THEN FALSE
  ELSE ~opts.defaultDeny
AclCheck(rules, s, i) ==
  LET hits == Matching(rules, s, i)
      denied == \E r \in hits : r.effect = "deny"
      allowed == \E r \in hits : r.effect # "deny"
  IN IF opts.denyOverrides /\ denied THEN FALSE
     ELSE IF allowed THEN TRUE ELSE ~opts.defaultDeny

\* Any effect but Deny and Allow counts for nothing.
IamEvaluate(statements, s, i) ==
  LET hits == Matching(statements, s, i)
      denied == \E r \in hits : r.effect = "deny"
      allowed == \E r \in hits : r.effect = "allow"
  IN IF denied THEN FALSE ELSE IF allowed THEN TRUE ELSE ~opts.defaultDeny

\* The roles of a subject, the roles of those roles included; visited stops a cycle.
RECURSIVE resolveRoles(_, _, _)
resolveRoles(userRoles, subjects, visited) ==
  IF subjects \subseteq visited THEN {}
  ELSE LET roles == UNION {userRoles[s] : s \in subjects \ visited}
       IN roles \cup resolveRoles(userRoles, roles, visited \cup subjects)
matchPerm(perm, i) == matchValue(perm, i)
RbacCheck(perms, userRoles, s, i) ==
  \E role \in resolveRoles(userRoles, {s}, {}) : matchPerm(perms[role], i)

\* OPA, by the modules it ships: the statements whose policy has one of the subjects as a
\* member match, and a deny among them withdraws the item from all the subjects at once.
Members(rules, subs) == {r \in Range(rules) : \E s \in subs : matchValue(r.who, s)}
MutantOpaAuthorized(rules, subs, i) ==
  \E s \in subs :
     LET effects == {r.effect : r \in Matching(rules, s, i)} IN "allow" \in effects /\ "deny" \notin effects
OpaAuthorized(rules, subs, i) ==
  LET effects == {r.effect : r \in {m \in Members(rules, subs) : matchValue(m.what, i)}}
  IN "allow" \in effects /\ "deny" \notin effects
\* The projects its allow statements name, whatever is denied; system policies apart.
OpaProjects(rules, subs) ==
  UNION {r.what : r \in {m \in Members(rules, subs) : m.effect = "allow" /\ ~m.system}}

\* The local engines' policies, by version.  Version 0 is what NewEngine starts with.
RulePool ==
  {<<>>, <<Rule(All, {"x"}, "allow")>>,
   <<Rule({"alice"}, Both, "allow"), Rule(All, {"y"}, "deny")>>,
   <<Rule({"bob"}, {"y"}, "unknown")>>}
OpaPool == {<<Rule(All, {"x"}, "allow"), System(Rule({"bob"}, {"y"}, "allow"))>>,
            <<Rule({"alice"}, Both, "allow"), Rule({"bob"}, {"x"}, "deny")>>,
            <<Rule({"bob"}, {"y"}, "unknown"), Rule(All, {"y"}, "allow")>>}
Names == {"alice", "bob", "admin", "editor"}
RolePool ==
  {[perms |-> [n \in Names |-> IF n = "editor" THEN {"x"} ELSE IF n = "admin" THEN {"y"} ELSE {}],
    roles |-> [n \in Names |-> CASE n = "alice" -> {"admin"} [] n = "admin" -> {"editor"}
                                 [] n = "editor" -> {"admin"} [] OTHER -> {}]],
   [perms |-> [n \in Names |-> IF n = "editor" THEN Both ELSE {}],
    roles |-> [n \in Names |-> IF n = "bob" THEN {"editor"} ELSE {}]]}
NoRoles == [perms |-> [n \in Names |-> {}], roles |-> [n \in Names |-> {}]]
\* Casbin models and remote policies are their author's: any decision.
GrantPool == {{}, {<<"alice", "x">>}, {<<"alice", "y">>, <<"bob", "x">>, <<"bob", "y">>}}

Decide(v, s, i) ==
  CASE engine.kind = "acl"  -> AclCheck(policies[v.a], s, i)
    [] engine.kind = "iam"  -> IamEvaluate(policies[v.a], s, i)
    [] engine.kind = "rbac" -> RbacCheck(policies[v.a].perms, policies[v.b].roles, s, i)
    [] OTHER -> <<s, i>> \in policies[v.a]

-----------------------------------------------------------------------------
(* The methods.  reads: "lock" the whole call holds the read lock, "snap"  *)
(* it uses one snapshot, "each" every decision is its own, "none" nothing  *)
(* is decided and the answer is empty.  again: an item is listed once per  *)
(* subject that may.  fails: a decision may end in an error.  built: does  *)
(* it need policies that were set.  blind: the project is not looked at.   *)

How(reads, again, fails, built) ==
  [reads |-> reads, again |-> again, fails |-> fails, built |-> built, blind |-> FALSE]
Blind(how) == [how EXCEPT !.blind = TRUE]
Locked == How("lock", FALSE, FALSE, {FALSE})
Remote == How("each", FALSE, TRUE, {FALSE})
Empty == How("none", FALSE, FALSE, {FALSE})

AclIsAuthorized == Locked
AclProjectsAuthorized == Blind(Locked)
AclFilterAuthorizedPairs == Locked
RbacIsAuthorized == Locked
RbacProjectsAuthorized == Blind(Locked)
MutantRbacFilterAuthorizedPairs == How("each", FALSE, FALSE, {FALSE})
RbacFilterAuthorizedPairs == Locked
IamIsAuthorized == Locked
IamProjectsAuthorized == Blind(Locked)
IamFilterAuthorizedPairs == Locked

\* OPA: the store and the query prepared on it are loaded as one snapshot.
\* IsAuthorized needs that query when it is given a project.
OpaProjectsAuthorized == How("snap", FALSE, TRUE, {TRUE})
OpaFilterAuthorizedPairs == How("snap", FALSE, TRUE, {FALSE})
OpaFilterAuthorizedProjects == How("snap", FALSE, TRUE, {FALSE})
OpaIsAuthorized == How("snap", FALSE, TRUE, {TRUE, FALSE})

\* Casbin asks its enforcer for every project and every subject, and does not stop at
\* the first subject that may.
CasbinProjectsAuthorized == How("each", TRUE, TRUE, {FALSE})
CasbinFilterAuthorizedPairs == How("each", TRUE, TRUE, {FALSE})
CasbinFilterAuthorizedProjects == How("each", TRUE, TRUE, {FALSE})
CasbinIsAuthorized == How("each", FALSE, TRUE, {FALSE})

\* Cedar and Cerbos ask a service (or a local function) per decision.
callAVP == Remote
callCerbos == Remote
CedarProjectsAuthorized == Blind(callAVP)
CedarFilterAuthorizedPairs == callAVP
CerbosProjectsAuthorized == Blind(callCerbos)
CerbosFilterAuthorizedPairs == callCerbos

\* Keto and OpenFGA decide about one item; the list methods of the engine are empty.
KetoCheck == Remote
OpenfgaCheck == Remote
ZanzibarIsAuthorized == [keto |-> KetoCheck, openfga |-> OpenfgaCheck]

Engine(kind, projectsM, pairsM, mineM, oneM, set) ==
  [kind |-> kind, projects |-> projectsM, pairs |-> pairsM, mine |-> mineM, one |-> oneM, set |-> set]

\* What SetPolicies does: "swap" under the lock, each part if it is given; "build" and
\* publish; "load" through the adapter; "none".
AclSetPolicies == "swap"
RbacSetPolicies == "swap"
IamSetPolicies == "swap"
OpaSetPolicies == "build"
CasbinSetPolicies == "load"

AllEngines == {
  Engine("acl", AclProjectsAuthorized, AclFilterAuthorizedPairs, Empty, AclIsAuthorized, AclSetPolicies),
  Engine("rbac", RbacProjectsAuthorized, RbacFilterAuthorizedPairs, Empty, RbacIsAuthorized, RbacSetPolicies),
  Engine("iam", IamProjectsAuthorized, IamFilterAuthorizedPairs, Empty, IamIsAuthorized, IamSetPolicies),
  Engine("opa", OpaProjectsAuthorized, OpaFilterAuthorizedPairs, OpaFilterAuthorizedProjects,
         OpaIsAuthorized, OpaSetPolicies),
  Engine("casbin", CasbinProjectsAuthorized, CasbinFilterAuthorizedPairs,
         CasbinFilterAuthorizedProjects, CasbinIsAuthorized, CasbinSetPolicies),
  Engine("cedar", CedarProjectsAuthorized, CedarFilterAuthorizedPairs, Empty, callAVP, "none"),
  Engine("cerbos", CerbosProjectsAuthorized, CerbosFilterAuthorizedPairs, Empty, callCerbos, "none"),
  Engine("keto", Empty, Empty, Empty, ZanzibarIsAuthorized.keto, "none"),
  Engine("openfga", Empty, Empty, Empty, ZanzibarIsAuthorized.openfga, "none")}
Methods == {"projects", "pairs", "mine", "one"}

-----------------------------------------------------------------------------
NoCall == [method |-> "projects", status |-> "idle", item |-> 1, subject |-> 1,
           asked |-> <<>>, during |-> {}, answer |-> <<>>, bound |-> FALSE]
NoWriter == [at |-> "idle", a |-> 0, b |-> 0, told |-> "none"]

AuthzInit ==
  /\ engine \in AllEngines
  /\ opts \in [defaultDeny : BOOLEAN, denyOverrides : BOOLEAN]
  /\ engine.kind \notin {"acl", "iam"} => opts.defaultDeny
  /\ engine.kind # "acl" => opts.denyOverrides
  /\ CASE engine.kind \in {"acl", "iam"} ->
            \E p, q \in RulePool : policies = <<p, q>> @@ (0 :> <<>>)
       [] engine.kind = "rbac" ->
            \E p, q \in RolePool : policies = <<p, q>> @@ (0 :> NoRoles)
       [] engine.kind = "opa" ->
            \E p, q \in OpaPool : policies = <<p, q>> @@ (0 :> <<>>)
       [] OTHER -> \E p, q \in GrantPool : policies = <<p, q>> @@ (0 :> {})
  /\ inForce = [a |-> 0, b |-> 0] /\ adapter = 0 /\ projects = 0
  /\ discovery = "no"
  /\ call = NoCall /\ writer = [w \in Writers |-> NoWriter]
  /\ changes = 0 /\ faults = 0

\* Every change of the versions in force is seen by the call that is running.
InForce(v) ==
  /\ inForce' = v
  /\ call' = IF call.status = "running" THEN [call EXCEPT !.during = @ \cup {v}] ELSE call

\* What a call goes through: Casbin's FilterAuthorizedProjects the project list it was
\* given last, IsAuthorized one item.
Asks(method) == IF method = "one" THEN <<"x">>
                ELSE IF engine.kind = "casbin" /\ method = "mine" /\ projects = 0 THEN <<>>
                ELSE Items
Asked == call.asked
Who == IF call.method = "one" THEN <<"alice">> ELSE Subjects
M == engine[call.method]

Ask(method) ==
  /\ call.status = "idle"
  /\ call' = [NoCall EXCEPT !.method = method, !.status = "running",
                            !.asked = Asks(method), !.during = {inForce}]
  /\ UNCHANGED <<engine, opts, policies, inForce, adapter, projects, discovery, writer,
                 changes, faults>>

ReaderUnchanged == UNCHANGED <<engine, opts, policies, inForce, adapter, projects, writer, changes>>

\* What is decided about for an item of the list.
Target(i) == IF M.blind THEN "x" ELSE i

\* The answers a call that decides at once may give: OPA's come in the order of its sets.
Answers(v) ==
  CASE M.reads = "none" -> {<<>>}
    [] engine.kind = "opa" /\ call.method = "mine" -> SetToSeqs(OpaProjects(policies[v.a], Range(Who)))
    [] engine.kind = "opa" ->
         SetToSeqs({i \in Range(Asked) : OpaAuthorized(policies[v.a], Range(Who), i)})
    [] OTHER -> {SelectSeq(Asked, LAMBDA i : \E s \in Range(Who) : Decide(v, s, Target(i)))}

\* The whole call is one step: nothing to decide, the lock, or the snapshot it loads.
AnswerAtOnce ==
  /\ call.status = "running" /\ M.reads \in {"none", "lock", "snap"}
  /\ \/ /\ TRUE \in M.built /\ inForce.a = 0
        /\ call' = [call EXCEPT !.status = "error"]
     \/ /\ FALSE \in M.built \/ inForce.a # 0
        /\ \E answer \in Answers(inForce) : call' = [call EXCEPT !.status = "nil", !.answer = answer]
  /\ ReaderUnchanged /\ UNCHANGED <<discovery, faults>>

\* OpenFGA looks for its store once; the outcome is kept.
ensureStoreOnce(ok) ==
  /\ call.status = "running" /\ engine.kind = "openfga" /\ call.method = "one" /\ discovery = "no"
  /\ discovery' = IF ok THEN "ok" ELSE "failed"
  /\ IF ok THEN UNCHANGED faults ELSE faults < MaxFaults /\ faults' = faults + 1
  /\ ReaderUnchanged /\ UNCHANGED call

Ready == engine.kind = "openfga" => discovery # "no"

\* One decision of the nested loops over the items and the subjects.
DecideOne ==
  /\ call.status = "running" /\ M.reads = "each" /\ Ready
  /\ call.item <= Len(Asked)
  /\ discovery # "failed"
  /\ LET yes == Decide(inForce, Who[call.subject], Target(Asked[call.item]))
         onward == (yes /\ ~M.again) \/ call.subject = Len(Who)
     IN call' = [call EXCEPT !.answer = IF yes THEN Append(@, Asked[call.item]) ELSE @,
                             !.item = IF onward THEN @ + 1 ELSE @,
                             !.subject = IF onward THEN 1 ELSE @ + 1]
  /\ ReaderUnchanged /\ UNCHANGED <<discovery, faults>>
AllDecided ==
  /\ call.status = "running" /\ M.reads = "each" /\ call.item > Len(Asked)
  /\ call' = [call EXCEPT !.status = "nil"]
  /\ ReaderUnchanged /\ UNCHANGED <<discovery, faults>>
\* A decision that fails ends the call without an answer.
DecisionFails ==
  /\ call.status = "running" /\ M.fails /\ Ready
  /\ \/ discovery = "failed" /\ UNCHANGED faults
     \/ faults < MaxFaults /\ faults' = faults + 1
  /\ call' = [call EXCEPT !.status = "error", !.answer = <<>>]
  /\ ReaderUnchanged /\ UNCHANGED discovery

Again ==
  /\ call.status \in {"nil", "error"} /\ engine.kind = "openfga" /\ ~call.bound
  /\ call' = [NoCall EXCEPT !.method = "one", !.status = "running",
                            !.asked = Asks("one"), !.during = {inForce}, !.bound = TRUE]
  /\ ReaderUnchanged /\ UNCHANGED <<discovery, faults>>

-----------------------------------------------------------------------------
WriterUnchanged == UNCHANGED <<engine, opts, policies, discovery>>
Moves(w, rec) == writer' = [writer EXCEPT ![w] = rec]

\* SetPolicies is called with version v; a map that lacks a part (or has it under another
\* type) leaves that part as it is, and the answer is nil all the same.
SetPolicies(w, v, a, b) ==
  /\ writer[w].at = "idle" /\ changes < MaxChanges /\ v \in Versions \ {0}
  /\ engine.set # "none"
  /\ (engine.kind # "rbac" => a = b) /\ (engine.set # "swap" => a)
  /\ changes' = changes + 1
  /\ LET given == [a |-> IF a THEN v ELSE inForce.a, b |-> IF b THEN v ELSE inForce.b] IN
     IF engine.set = "swap"
     THEN /\ InForce(given)
          /\ Moves(w, [NoWriter EXCEPT !.at = "done", !.a = given.a, !.b = given.b, !.told = "nil"])
          /\ UNCHANGED adapter
     ELSE /\ Moves(w, [NoWriter EXCEPT !.at = engine.set, !.a = v, !.b = v])
          /\ adapter' = IF engine.set = "load" THEN v ELSE adapter
          /\ UNCHANGED <<inForce, call>>
  /\ WriterUnchanged /\ UNCHANGED <<projects, faults>>

\* Preparing the query on the new store: the modules are compiled, the query is partly
\* evaluated, compiled again and prepared; each of these may fail.
makeAuthorizedProjectPreparedQuery == {TRUE, FALSE}
\* OPA: the query is prepared on the new store; then both are published together.
publishPolicies(w, ok) ==
  /\ writer[w].at = "build"
  /\ IF ok
     THEN /\ InForce([a |-> writer[w].a, b |-> writer[w].b])
          /\ Moves(w, [writer[w] EXCEPT !.at = "done", !.told = "nil"]) /\ UNCHANGED faults
     ELSE /\ faults < MaxFaults /\ faults' = faults + 1
          /\ Moves(w, [writer[w] EXCEPT !.at = "done", !.told = "error"])
          /\ UNCHANGED <<inForce, call>>
  /\ WriterUnchanged /\ UNCHANGED <<adapter, projects, changes>>

\* Casbin: the enforcer loads what the adapter holds by then; the project list follows.
LoadPolicy(w, ok) ==
  /\ writer[w].at = "load"
  /\ IF ok
     THEN /\ InForce([a |-> adapter, b |-> adapter])
          /\ Moves(w, [writer[w] EXCEPT !.at = "projects"]) /\ UNCHANGED faults
     ELSE /\ faults < MaxFaults /\ faults' = faults + 1
          /\ Moves(w, [writer[w] EXCEPT !.at = "done", !.told = "error"])
          /\ UNCHANGED <<inForce, call>>
  /\ WriterUnchanged /\ UNCHANGED <<adapter, projects, changes>>
SetProjects(w) ==
  /\ writer[w].at = "projects"
  /\ \E given \in BOOLEAN : projects' = IF given THEN writer[w].a ELSE projects
  /\ Moves(w, [writer[w] EXCEPT !.at = "done", !.told = "nil"])
  /\ WriterUnchanged /\ UNCHANGED <<inForce, adapter, call, changes, faults>>

\* The policies of a service change under the engine.
ServiceChanges(v) ==
  /\ engine.kind \in {"cedar", "cerbos", "keto", "openfga"} /\ changes < MaxChanges
  /\ changes' = changes + 1 /\ InForce([a |-> v, b |-> v])
  /\ UNCHANGED <<engine, opts, policies, adapter, projects, discovery, writer, faults>>

AuthzNext ==
  \/ \E m \in Methods : Ask(m)
  \/ AnswerAtOnce \/ DecideOne \/ AllDecided \/ DecisionFails \/ Again
  \/ \E ok \in BOOLEAN : ensureStoreOnce(ok)
  \/ \E w \in Writers :
       \/ \E v \in Versions, a, b \in BOOLEAN : SetPolicies(w, v, a, b)
       \/ \E ok \in makeAuthorizedProjectPreparedQuery : publishPolicies(w, ok)
       \/ \E ok \in BOOLEAN : LoadPolicy(w, ok)
       \/ SetProjects(w)
  \/ \E v \in Versions : ServiceChanges(v)

AuthzSpec == AuthzInit /\ [][AuthzNext]_authzVars

TypeOK ==
  /\ engine \in AllEngines /\ inForce \in [a : Versions, b : Versions]
  /\ adapter \in Versions /\ projects \in Versions
  /\ discovery \in {"no", "ok", "failed"}
  /\ call.status \in {"idle", "running", "nil", "error"}
  /\ \A w \in Writers : writer[w].at \in {"idle", "build", "load", "projects", "done"}

-----------------------------------------------------------------------------
\* The decision the documentation gives a policy, stated without the engines' code:
\* an explicit deny wins (unless ACL is told otherwise), then an allow, then the default;
\* RBAC grants what a role reachable from the subject grants (a path visits the subject
\* and, here, at most two roles).
Reaches(roles, s, r) ==
  \E path \in UNION {[1..n -> Names] : n \in 2..Cardinality(Names) - 1} :
     /\ path[1] = s /\ path[Len(path)] = r
     /\ \A k \in 1..Len(path) - 1 : path[k + 1] \in roles[path[k]]
Meant(v, s, i) ==
  CASE engine.kind \in {"acl", "iam"} ->
         LET effects == {r.effect : r \in {r \in Range(policies[v.a]) : s \in r.who /\ i \in r.what}}
         IN /\ ~("deny" \in effects /\ (opts.denyOverrides \/ engine.kind = "iam"))
            /\ \/ "allow" \in effects \/ ("unknown" \in effects /\ engine.kind = "acl")
               \/ ~opts.defaultDeny
    [] engine.kind = "rbac" ->
         \E r \in Names : Reaches(policies[v.b].roles, s, r) /\ i \in policies[v.a].perms[r]
    [] OTHER -> <<s, i>> \in policies[v.a]
\* What the subjects of a call may use together: with OPA an allow for one of them counts
\* only while no deny is for any of them, except that FilterAuthorizedProjects names what
\* is allowed outside the system policies, denied or not.
Says(v, i, effect) ==
  \E r \in Range(policies[v.a]) : /\ r.effect = effect /\ i \in r.what
                                  /\ r.who \cap Range(Who) # {}
                                  /\ call.method = "mine" => ~r.system
Granted(v) ==
  IF engine.kind = "opa"
  THEN {i \in Range(Asked) : /\ Says(v, i, "allow")
                             /\ call.method = "mine" \/ ~Says(v, i, "deny")}
  ELSE {i \in Range(Asked) : \E s \in Range(Who) : Meant(v, s, Target(i))}

\* A list that is answered names exactly the items the subjects may use.  ACL, RBAC, IAM
\* and OPA answer by the policies of one moment of the call, however SetPolicies
\* interleaves (security/authz/opa/opa.go:44-47 "readers always observe a consistent
\* snapshot", security/authz/acl/acl.go:64-94); with OPA a deny for one of the subjects
\* withdraws the item from all of them (policy/authz.rego:89-102, introspection.rego:51).
\* The others decide one by one: every listed item was granted to a subject, and every
\* item left out was refused to each, by policies in force during the call.  An engine
\* without projects answers all the projects or, at one moment, none (acl.go:69-76).
\* Items keep the order they were asked in, except OPA's, and appear once, except that
\* Casbin repeats one for every subject that may use it.  An error comes without an
\* answer.  A SetPolicies of OPA that fails leaves the policies in force (opa.go:304-306):
\* these are always the ones of a call that answered nil, or the first.  After a failed
\* search for its store OpenFGA answers every call with an error
\* (security/authz/zanzibar/openfga/openfga.go:50-63).
DecisionsAreConsistent ==
  LET listed == Range(call.answer)
      AtOneMoment == engine.kind \in {"acl", "rbac", "iam", "opa"}
  IN /\ call.status = "nil" /\ M.reads # "none" =>
          /\ AtOneMoment => \E v \in call.during : listed = Granted(v)
          /\ ~AtOneMoment => /\ listed \subseteq UNION {Granted(v) : v \in call.during}
                             /\ \A i \in Range(Asked) \ listed, s \in Range(Who) :
                                  \E v \in call.during : ~Meant(v, s, Target(i))
          /\ M.blind /\ (AtOneMoment \/ Cardinality(call.during) = 1) =>
               listed \in {{}, Range(Asked)}
          /\ engine.kind # "casbin" => Cardinality(listed) = Len(call.answer)
          /\ engine.kind # "opa" => \A j, k \in DOMAIN call.answer : j < k =>
               \E p, q \in DOMAIN Asked : p <= q /\ Asked[p] = call.answer[j] /\ Asked[q] = call.answer[k]
     /\ call.status = "error" => call.answer = <<>>
     /\ engine.kind = "opa" /\ inForce.a # 0 =>
          \E w \in Writers : writer[w].told = "nil" /\ writer[w].a = inForce.a
     /\ engine.kind = "openfga" /\ discovery = "failed" /\ call.method = "one" => call.status # "nil"
=============================================================================
