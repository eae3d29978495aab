--------------------------- MODULE InstallerProofs ---------------------------
(***************************************************************************)
(* The installer and the runs of entrypoint.py, proved for any workspaces, *)
(* providers, answers and number of processes.                             *)
(***************************************************************************)
EXTENDS Installer, FiniteSetTheorems, WellFoundedInduction, TLAPS

-----------------------------------------------------------------------------
(* Types *)

Values == {None} \union Bases \union Tokens \union Models \union Protocols
            \union {"LLM_API_BASE", "OPENAI_API_KEY", "ANTHROPIC_API_KEY"}
            \union UNION {{p.apiBase, p.apiEnv, p.tokenEnv, p.protocol, p.model} :
                            p \in Range(Providers)}
Selections == [Fields -> Values]
Entries == [apiEnv : Values, tokenEnv : Values, protocol : Values, model : Values,
            tokenField : {"anthropic_api_key", "openai_api_key"}]

Early == {"workspace", "policy", "provider", "protocol", "base", "token", "model", "host",
          "port", "write", "fails"}
Stages == Early \union Initializing \union {"idle", "generate", "done"}
Sessions == [stage : Stages, mode : {None, "basic", "advanced"},
             workspace : Workspaces \union {None}, preserve : BOOLEAN, created : BOOLEAN,
             sel : Selections]

Owning == Starting \union {"build", "checking", "waiting", "stopping", "unwinding", "release"}
Phases == Owning \union {"off", "acquire"}

TypeOK ==
  /\ env \in [Workspaces -> [EnvNames -> Values]]
  /\ entry \in [Workspaces -> {None} \union Entries]
  /\ dir \in [Workspaces -> BOOLEAN]
  /\ admin \in [Workspaces -> {None, "installer", "program"}]
  /\ shortcut \in Workspaces \union {None}
  /\ session \in Sessions
  /\ installs \in Nat
  /\ phase \in [Runtimes -> Phases]
  /\ place \in [Runtimes -> Workspaces \union {None}]
  /\ mutex \in [Workspaces -> Runtimes \union {None}]
  /\ command \in [Runtimes -> {None, "restart", "close"}]
  /\ chosen \in [Workspaces -> {None} \union Selections]
  /\ torn \in [Workspaces -> BOOLEAN]
  /\ known \in [Workspaces -> BOOLEAN]
  /\ failed \in [Workspaces -> BOOLEAN]
  /\ replaced \in [Workspaces -> BOOLEAN]

-----------------------------------------------------------------------------
(* The inductive invariant *)

\* A process is somewhere exactly while it runs, and holds the mutex of its
\* workspace from its acquisition to its release.
OwnersHold ==
  \A p \in Runtimes :
    /\ phase[p] # "off" <=> place[p] \in Workspaces
    /\ phase[p] \in Owning => mutex[place[p]] = p

\* What the answers given so far have filled in.
Filled(s) ==
  {f \in Fields :
     \/ s.stage = "base" /\ f \in {"apiEnv", "tokenEnv", "protocol"}
     \/ s.stage = "token" /\ f # "token" /\ (s.mode = "basic" \/ f # "model")
     \/ s.stage = "model" /\ f # "model"
     \/ s.stage \in {"host", "port", "write", "generate"}}

\* Only the advanced mode asks for more than the token.
Prompts == {"workspace", "provider", "protocol", "base", "model", "host", "port"}

Answering(s) ==
  /\ \A f \in Filled(s) : s.sel[f] # None
  /\ Filled(s) # {} => /\ s.sel.apiEnv \in EnvNames
                       /\ s.sel.tokenEnv \in EnvNames
                       /\ s.sel.apiEnv # s.sel.tokenEnv
  /\ s.stage = "idle" <=> s.workspace = None /\ s.stage # "workspace"
  /\ s.mode = "basic" => Defaults # {} /\ s.stage \notin Prompts

\* .env of a workspace gives a selection its base and its token.
Serves(values, sel) ==
  values[sel.apiEnv] = sel.apiBase /\ values[sel.tokenEnv] = sel.token

FilesAgree ==
  /\ session.stage = "generate" => Serves(env[session.workspace], session.sel)
  /\ \A w \in Workspaces : entry[w] # None /\ ~torn[w] =>
       /\ \A f \in Fields : chosen[w][f] # None
       /\ entry[w] = Rendered(chosen[w])
       /\ Serves(env[w], chosen[w])

\* Once true of a workspace, this stays true: what clears one clears the data, or
\* sets another.
Accounted(w) == known[w] \/ failed[w] \/ replaced[w]

Accounts ==
  /\ \A w \in Workspaces :
       /\ session.workspace # w \/ session.stage \in Early \union {"generate"} =>
            (admin[w] # None \/ entry[w] # None => Accounted(w))
       /\ session.workspace # w \/ session.stage \in Early =>
            (dir[w] => Accounted(w))
       /\ session.workspace = w /\ session.stage \in {"policy", "done"} => Accounted(w)
       /\ session.workspace = w /\ session.preserve => Accounted(w)
       /\ session.workspace = w /\ session.stage = "stop" /\ session.created =>
            admin[w] = "installer" \/ replaced[w]
       /\ session.workspace = w /\ session.stage = "done" /\ ~session.preserve =>
            known[w] \/ replaced[w]
  /\ \A p \in Runtimes : place[p] \in Workspaces =>
       \/ Accounted(place[p])
       \/ session.workspace = place[p] /\ session.stage \in Initializing

IInv ==
  /\ TypeOK
  /\ OwnersHold
  /\ Answering(session)
  /\ FilesAgree
  /\ Accounts

-----------------------------------------------------------------------------
(* What a dialog finds and asks *)

\* A provider the program offers is complete, and its base and its token have
\* two names.
LEMMA ProviderFacts ==
  ASSUME NEW i \in DOMAIN Providers
  PROVE  /\ Providers[i] \in Range(Providers)
         /\ Complete(Providers[i])
         /\ Providers[i].apiEnv # Providers[i].tokenEnv
BY InstallerAssumption DEF Providers, Restrict, Range

LEMMA OfferedFacts ==
  ASSUME NEW p \in Range(Providers)
  PROVE  /\ p.apiEnv \in EnvNames /\ p.tokenEnv \in EnvNames /\ p.apiEnv # p.tokenEnv
         /\ None \notin {p.apiBase, p.apiEnv, p.tokenEnv, p.protocol}
         /\ {p.apiBase, p.apiEnv, p.tokenEnv, p.protocol, p.model} \subseteq Values
<1>1. PICK i \in DOMAIN Providers : p = Providers[i]
  BY DEF Range
<1>2. /\ p.apiEnv # p.tokenEnv
      /\ Complete(p)
  BY <1>1, ProviderFacts
<1>3. None \notin {p.apiBase, p.apiEnv, p.tokenEnv, p.protocol}
  BY <1>2 DEF Complete
<1>4. {p.apiEnv, p.tokenEnv} \in {{q.apiEnv, q.tokenEnv} : q \in Range(Providers)}
  OBVIOUS
<1>5. {p.apiBase, p.apiEnv, p.tokenEnv, p.protocol, p.model} \in
        {{q.apiBase, q.apiEnv, q.tokenEnv, q.protocol, q.model} : q \in Range(Providers)}
  OBVIOUS
<1> QED
  BY <1>2, <1>3, <1>4, <1>5 DEF EnvNames, Values

\* What .env of a workspace holds for a selection: a base, and the names of two
\* variables.
Found(saved) ==
  /\ saved.apiBase # None /\ saved.apiBase \in Values /\ saved.token \in Values
  /\ saved.apiEnv \in EnvNames /\ saved.tokenEnv \in EnvNames
  /\ saved.apiEnv # saved.tokenEnv
  /\ saved.provider # None => saved.provider \in Range(Providers)

\* The variables of a custom provider are names .env can hold.
LEMMA CustomFacts ==
  /\ "LLM_API_BASE" \in EnvNames
  /\ "OPENAI_API_KEY" \in EnvNames /\ "ANTHROPIC_API_KEY" \in EnvNames
  /\ None \notin {"LLM_API_BASE", "OPENAI_API_KEY", "ANTHROPIC_API_KEY"}
  /\ DOMAIN CustomTokenEnvs = 1 .. 2
  /\ CustomTokenEnvs[1] = "OPENAI_API_KEY" /\ CustomTokenEnvs[2] = "ANTHROPIC_API_KEY"
<1>1. DOMAIN CustomTokenEnvs = 1 .. 2
      /\ CustomTokenEnvs[1] = "OPENAI_API_KEY" /\ CustomTokenEnvs[2] = "ANTHROPIC_API_KEY"
  BY DEF CustomTokenEnvs
<1>2. CustomTokenEnvs[1] \in Range(CustomTokenEnvs) /\ CustomTokenEnvs[2] \in Range(CustomTokenEnvs)
  BY <1>1 DEF Range
<1> QED
  BY <1>1, <1>2, NamesAssumption DEF EnvNames

\* The names of variables are proper values.
LEMMA NamesFacts == EnvNames \subseteq Values \ {None}
<1> SUFFICES ASSUME NEW n \in EnvNames PROVE n \in Values /\ n # None
  OBVIOUS
<1>1. CASE n \in {"LLM_API_BASE"} \union Range(CustomTokenEnvs)
  <2>1. n \in {"LLM_API_BASE", "OPENAI_API_KEY", "ANTHROPIC_API_KEY"}
    <3>1. \A i \in 1 .. 2 : i = 1 \/ i = 2
      OBVIOUS
    <3> QED
      BY <1>1, <3>1, CustomFacts DEF Range
  <2> QED
    BY <2>1, CustomFacts DEF Values
<1>2. CASE \E p \in Range(Providers) : n \in {p.apiEnv, p.tokenEnv}
  BY <1>2, OfferedFacts
<1> QED
  BY <1>1, <1>2 DEF EnvNames

Earlier == {ij \in Nat \X Nat : ij[1] < ij[2]}

\* A non-empty set of indices has a least one.
LEMMA LeastFacts ==
  ASSUME NEW S \in SUBSET Nat, S # {}
  PROVE  (CHOOSE i \in S : \A j \in S : i <= j) \in S
<1>1. OpToRel(<, Nat) = Earlier
  BY Zenon DEF OpToRel, Earlier
<1>2. IsWellFoundedOn(Earlier, Nat)
  BY <1>1, NatLessThanWellFounded, Zenon
<1>3. PICK i \in S : \A j \in S : <<j, i>> \notin Earlier
  BY <1>2, WFMin, Zenon
<1>4. \A j \in S : i <= j
  <2>1. SUFFICES ASSUME NEW j \in S, ~ (i <= j) PROVE FALSE
    OBVIOUS
  <2>2. i \in Nat /\ j \in Nat /\ j < i
    BY <2>1
  <2>3. <<j, i>> \in Earlier
    BY <2>2 DEF Earlier
  <2> QED
    BY <1>3, <2>3
<1> QED
  BY <1>4

\* What is read from .env serves as the base and the token of a selection.
LEMMA SavedFacts ==
  ASSUME NEW values \in [EnvNames -> Values], SavedIn(values) # None
  PROVE  Found(SavedIn(values))
<1> DEFINE fits == {i \in DOMAIN Providers : values[Providers[i].apiEnv] # None}
           keys == {i \in DOMAIN CustomTokenEnvs : values[CustomTokenEnvs[i]] # None}
           least(S) == CHOOSE i \in S : \A j \in S : i <= j
<1>1. fits \subseteq Nat /\ keys \subseteq Nat
  BY CustomFacts, InstallerAssumption DEF Providers, Restrict
<1>2. CASE fits # {}
  <2> DEFINE p == Providers[least(fits)]
  <2>1. least(fits) \in fits
    BY <1>1, <1>2, LeastFacts
  <2>2. p \in Range(Providers) /\ values[p.apiEnv] # None
    BY <2>1, ProviderFacts
  <2>3. SavedIn(values) = [apiBase |-> values[p.apiEnv], apiEnv |-> p.apiEnv,
          tokenEnv |-> p.tokenEnv, token |-> values[p.tokenEnv], provider |-> p]
    BY <1>2 DEF SavedIn
  <2> HIDE DEF p
  <2> QED
    BY <2>2, <2>3, OfferedFacts DEF Found
<1>3. CASE fits = {}
  <2> DEFINE t == CustomTokenEnvs[least(keys)]
  <2>1. /\ values["LLM_API_BASE"] # None /\ keys # {}
        /\ SavedIn(values) = [apiBase |-> values["LLM_API_BASE"], apiEnv |-> "LLM_API_BASE",
             tokenEnv |-> t, token |-> values[t], provider |-> None]
    BY <1>3 DEF SavedIn
  <2>2. least(keys) \in keys
    BY <1>1, <2>1, LeastFacts
  <2>3. least(keys) = 1 \/ least(keys) = 2
    <3> HIDE DEF least
    <3> QED
      BY <2>2, CustomFacts
  <2>4. t \in EnvNames /\ t # "LLM_API_BASE"
    BY <2>3, CustomFacts
  <2> HIDE DEF t
  <2> QED
    BY <2>1, <2>4, CustomFacts DEF Found
<1> QED
  BY <1>2, <1>3

\* A dialog that has settled the workspace and its data goes on with what they
\* leave open.
LEMMA SettledFacts ==
  ASSUME NEW s \in Sessions, NEW w \in Workspaces, NEW keep \in BOOLEAN, NEW saved,
         saved = None \/ Found(saved), s.mode = "basic" => Defaults # {},
         NEW t, t = Settled(s, w, saved, keep)
  PROVE  /\ t \in Sessions /\ Answering(t)
         /\ t.stage \in Early \ {"policy", "workspace"}
         /\ t.workspace = w /\ t.preserve = keep
<1>0. /\ s.sel \in Selections /\ s.created \in BOOLEAN /\ s.mode \in {None, "basic", "advanced"}
      /\ s = [stage |-> s.stage, mode |-> s.mode, workspace |-> s.workspace,
              preserve |-> s.preserve, created |-> s.created, sel |-> s.sel]
  BY DEF Sessions
<1>1. CASE s.mode = "basic"
  <2> DEFINE sel == BasicSelection(saved)
             default == Providers[CHOOSE i \in Defaults : TRUE]
             provider == IF saved # None /\ saved.provider # None THEN saved.provider ELSE default
  <2>1. default \in Range(Providers) /\ provider \in Range(Providers)
    BY <1>1, ProviderFacts DEF Defaults, Found
  <2>2. /\ sel \in Selections
        /\ \A f \in {"apiBase", "apiEnv", "tokenEnv", "protocol"} : sel[f] # None
        /\ sel.apiEnv \in EnvNames /\ sel.tokenEnv \in EnvNames /\ sel.apiEnv # sel.tokenEnv
    <3>1. CASE saved = None
      <4>1. sel = [apiBase |-> provider.apiBase, apiEnv |-> provider.apiEnv,
              tokenEnv |-> provider.tokenEnv, token |-> None, protocol |-> provider.protocol,
              model |-> IF provider.model # None THEN provider.model ELSE default.model]
        BY <3>1 DEF BasicSelection
      <4> HIDE DEF sel, provider, default
      <4> QED
        BY <2>1, <4>1, OfferedFacts DEF Selections, Fields, Values
    <3>2. CASE saved # None
      <4>1. sel = [apiBase |-> saved.apiBase, apiEnv |-> saved.apiEnv,
              tokenEnv |-> saved.tokenEnv, token |-> saved.token, protocol |-> provider.protocol,
              model |-> IF provider.model # None THEN provider.model ELSE default.model]
        BY <3>2 DEF BasicSelection
      <4> HIDE DEF sel, provider, default
      <4> QED
        BY <2>1, <3>2, <4>1, OfferedFacts, NamesFacts DEF Selections, Fields, Found
    <3> QED
      BY <3>1, <3>2
  <2> DEFINE stage == CASE sel.model = None -> "fails"
                        [] sel.model # None /\ sel.token = None -> "token"
                        [] OTHER -> "write"
  <2>3. t = [stage |-> stage, mode |-> "basic", workspace |-> w, preserve |-> keep,
             created |-> s.created, sel |-> sel]
    BY <1>1, <1>0 DEF Settled
  <2>4. /\ stage \in {"fails", "token", "write"}
        /\ stage # "fails" => sel.model # None
        /\ stage = "write" => sel.token # None
    OBVIOUS
  <2>5. w # None
    BY InstallerAssumption
  <2> HIDE DEF sel, stage
  <2>6. t \in Sessions
    BY <1>0, <2>2, <2>3, <2>4 DEF Sessions, Stages, Early
  <2>7. Answering(t)
    BY <1>1, <2>2, <2>3, <2>4, <2>5 DEF Answering, Prompts, Filled, Fields
  <2> QED
    BY <2>3, <2>4, <2>6, <2>7 DEF Early
<1>2. CASE s.mode # "basic" /\ saved = None
  <2>1. t = [stage |-> "provider", mode |-> s.mode, workspace |-> w, preserve |-> keep,
             created |-> s.created, sel |-> s.sel]
    BY <1>0, <1>2 DEF Settled
  <2>2. t \in Sessions
    BY <1>0, <2>1 DEF Sessions, Stages, Early
  <2>3. Answering(t)
    BY <1>2, <2>1, InstallerAssumption DEF Answering, Prompts, Filled
  <2> QED
    BY <2>1, <2>2, <2>3 DEF Early
<1>3. CASE s.mode # "basic" /\ saved # None
  <2> DEFINE sel == AdvancedFrom(saved)
             stage == IF saved.token = None THEN "token" ELSE "model"
  <2>1. t = [stage |-> stage, mode |-> s.mode, workspace |-> w, preserve |-> keep,
             created |-> s.created, sel |-> sel]
    BY <1>0, <1>3 DEF Settled, AdvancedFrom
  <2>2. /\ sel \in Selections
        /\ \A f \in {"apiBase", "apiEnv", "tokenEnv", "protocol"} : sel[f] # None
        /\ sel.token = saved.token
        /\ sel.apiEnv \in EnvNames /\ sel.tokenEnv \in EnvNames /\ sel.apiEnv # sel.tokenEnv
    <3>1. "chat_completions" \in Values \ {None} /\ None \in Values
      BY NamesAssumption DEF Values, Protocols
    <3> QED
      BY <1>3, <3>1, OfferedFacts, NamesFacts DEF AdvancedFrom, Selections, Fields, Found
  <2> HIDE DEF sel
  <2>3. t \in Sessions
    BY <1>0, <2>1, <2>2 DEF Sessions, Stages, Early
  <2>4. Answering(t)
    BY <1>3, <2>1, <2>2, InstallerAssumption DEF Answering, Prompts, Filled, Fields
  <2> QED
    BY <2>1, <2>3, <2>4 DEF Early
<1> QED
  BY <1>1, <1>2, <1>3

\* A workspace without data goes straight on; for one with data the person is
\* asked what becomes of it.
LEMMA ArriveFacts ==
  ASSUME NEW s \in Sessions, NEW w \in Workspaces, s.mode = "basic" => Defaults # {},
         NEW t, t = Arrive(s, w)
  PROVE  /\ t \in Sessions /\ Answering(t) /\ t.workspace = w
         /\ t.stage \in Early \ {"workspace"}
         /\ t.stage = "policy" => dir[w]
         /\ t.stage # "policy" => ~ t.preserve
<1>1. CASE dir[w]
  <2>1. t = [stage |-> "policy", mode |-> s.mode, workspace |-> w, preserve |-> s.preserve,
             created |-> s.created, sel |-> s.sel]
    BY <1>1 DEF Arrive, Sessions
  <2>2. t \in Sessions
    BY <2>1 DEF Sessions, Stages, Early
  <2>3. Answering(t)
    BY <2>1, InstallerAssumption DEF Answering, Prompts, Filled
  <2> QED
    BY <1>1, <2>1, <2>2, <2>3 DEF Early
<1>2. CASE ~ dir[w]
  <2>1. t = Settled(s, w, None, FALSE)
    BY <1>2 DEF Arrive
  <2>2. \A keep \in BOOLEAN : t = Settled(s, w, None, keep) =>
          /\ t \in Sessions /\ Answering(t)
          /\ t.stage \in Early \ {"policy", "workspace"}
          /\ t.workspace = w /\ t.preserve = keep
    BY SettledFacts
  <2>3. /\ t \in Sessions /\ Answering(t)
        /\ t.stage \in Early \ {"policy", "workspace"}
        /\ t.workspace = w /\ t.preserve = FALSE
    BY <2>1, <2>2
  <2> QED
    BY <2>3
<1> QED
  BY <1>1, <1>2

-----------------------------------------------------------------------------
(* The initial states, and the steps of the dialog *)

LEMMA InitIInv == Init => IInv
<1> SUFFICES ASSUME Init PROVE IInv
  OBVIOUS
<1>1. /\ NoFields \in Selections
      /\ NoEnv \in [EnvNames -> Values]
  BY DEF NoFields, NoEnv, Selections, Values
<1>2. NoSession \in Sessions
  BY <1>1 DEF NoSession, Sessions, Stages
<1>3. TypeOK
  BY <1>1, <1>2 DEF Init, TypeOK, Phases
<1>4. OwnersHold
  BY InstallerAssumption DEF Init, OwnersHold, Owning, Starting
<1>5. Answering(session)
  BY NamesAssumption DEF Init, NoSession, Answering, Prompts, Filled
<1>6. FilesAgree
  BY DEF Init, FilesAgree, NoSession
<1>7. Accounts
  BY InstallerAssumption DEF Init, Accounts, NoSession
<1> QED
  BY <1>3, <1>4, <1>5, <1>6, <1>7 DEF IInv

\* A step that only changes the session leaves all of the invariant that does not
\* speak of it.
LEMMA DialogKeeps ==
  ASSUME IInv, Dialog, session' \in Sessions, Answering(session'), Accounts',
         session'.stage # "generate"
  PROVE  IInv'
<1>1. UNCHANGED <<env, entry, dir, admin, shortcut, installs, phase, place, mutex, command,
                  chosen, torn, known, failed, replaced>>
  BY DEF Dialog, disk, runs, history
<1>2. TypeOK'
  BY <1>1 DEF IInv, TypeOK
<1>3. OwnersHold'
  BY <1>1 DEF IInv, OwnersHold
<1>4. FilesAgree'
  BY <1>1 DEF IInv, FilesAgree, Serves
<1> QED
  BY <1>2, <1>3, <1>4 DEF IInv, Answering, Prompts, Filled

\* An answer moves the dialog on within one workspace.
LEMMA AnswerIInv ==
  ASSUME IInv, Dialog, session' \in Sessions, Answering(session'),
         session.stage \in Early, session'.stage \in Early \ {"policy"},
         session'.workspace = session.workspace,
         session'.preserve => session.preserve \/ session.stage = "policy"
  PROVE  IInv'
<1>1. UNCHANGED <<env, entry, dir, admin, phase, place, known, failed, replaced>>
  BY DEF Dialog, disk, runs, history
<1>2. Accounts'
  BY <1>1 DEF IInv, Accounts, Accounted, Early, Initializing
<1> QED
  BY <1>2, DialogKeeps DEF Early

\* What an answer changes of the session.
LEMMA AnsweredFacts ==
  ASSUME session \in Sessions, NEW stage \in Stages, NEW answers,
         DOMAIN answers \subseteq Fields, \A f \in DOMAIN answers : answers[f] \in Values,
         NEW t, t = Answered(stage, answers)
  PROVE  /\ t \in Sessions
         /\ t.stage = stage /\ t.mode = session.mode
         /\ t.workspace = session.workspace /\ t.preserve = session.preserve
         /\ \A f \in Fields :
              t.sel[f] = IF f \in DOMAIN answers THEN answers[f] ELSE session.sel[f]
<1> DEFINE sel == [f \in Fields |-> IF f \in DOMAIN answers THEN answers[f] ELSE session.sel[f]]
<1>1. t = [session EXCEPT !.stage = stage, !.sel = sel]
  BY DEF Answered
<1>2. sel \in Selections /\ \A f \in Fields :
        sel[f] = IF f \in DOMAIN answers THEN answers[f] ELSE session.sel[f]
  BY DEF Selections, Sessions
<1> HIDE DEF sel
<1> QED
  BY <1>1, <1>2 DEF Sessions

\* What a step to another prompt changes of it.
LEMMA MovedFacts ==
  ASSUME session \in Sessions, NEW stage \in Stages,
         NEW t, t = [session EXCEPT !.stage = stage]
  PROVE  /\ t \in Sessions
         /\ t.stage = stage /\ t.sel = session.sel /\ t.mode = session.mode
         /\ t.workspace = session.workspace /\ t.preserve = session.preserve
BY DEF Sessions

\* What the invariant says of a dialog in progress.
LEMMA Progress ==
  ASSUME IInv, session.stage \in Early
  PROVE  /\ session \in Sessions
         /\ session.mode = "basic" => Defaults # {} /\ session.stage \notin Prompts
         /\ session.stage # "workspace" => session.workspace # None
         /\ \A f \in Fields : session.sel[f] \in Values
BY DEF IInv, TypeOK, Answering, Prompts, Sessions, Selections, Early

LEMMA ChooseProviderIInv ==
  ASSUME IInv, NEW i \in DOMAIN Providers, ChooseProvider(i)
  PROVE  IInv'
<1> DEFINE p == Providers[i]
           answers == [apiBase |-> p.apiBase, apiEnv |-> p.apiEnv, tokenEnv |-> p.tokenEnv,
                       protocol |-> p.protocol, model |-> p.model]
<1>1. session.stage = "provider" /\ Dialog /\ session' = Answered("token", answers)
  BY DEF ChooseProvider, Asked
<1>2. p \in Range(Providers)
  BY ProviderFacts
<1> HIDE DEF p
<1>3. DOMAIN answers = Fields \ {"token"} /\ \A f \in DOMAIN answers : answers[f] \in Values
  BY <1>2, OfferedFacts DEF Fields
<1>4. /\ answers.apiBase = p.apiBase /\ answers.apiEnv = p.apiEnv
      /\ answers.tokenEnv = p.tokenEnv /\ answers.protocol = p.protocol
  OBVIOUS
<1> HIDE DEF answers
<1>5. /\ session' \in Sessions
      /\ session'.stage = "token" /\ session'.mode = session.mode
      /\ session'.workspace = session.workspace /\ session'.preserve = session.preserve
      /\ \A f \in Fields \ {"token"} : session'.sel[f] = answers[f]
  BY <1>1, <1>3, Progress, AnsweredFacts DEF Stages, Early
<1>6. Answering(session')
  BY <1>1, <1>2, <1>4, <1>5, Progress, OfferedFacts DEF Answering, Prompts, Filled, Fields, Early
<1> QED
  BY <1>1, <1>5, <1>6, AnswerIInv DEF Early

LEMMA ChooseCustomIInv == ASSUME IInv, ChooseCustom PROVE IInv'
<1>1. session.stage = "provider" /\ Dialog
      /\ session' = [session EXCEPT !.stage = "protocol"]
  BY DEF ChooseCustom, Asked
<1>2. /\ session' \in Sessions
      /\ session'.stage = "protocol" /\ session'.mode = session.mode
      /\ session'.workspace = session.workspace /\ session'.preserve = session.preserve
  BY <1>1, Progress, MovedFacts DEF Stages, Early
<1>3. Answering(session')
  BY <1>1, <1>2, Progress DEF Answering, Filled, Prompts, Early
<1> QED
  BY <1>1, <1>2, <1>3, AnswerIInv DEF Early

LEMMA ChooseProtocolIInv ==
  ASSUME IInv, NEW protocol \in Protocols, ChooseProtocol(protocol)
  PROVE  IInv'
<1> DEFINE tokenEnv == IF protocol = "anthropic_messages" THEN "ANTHROPIC_API_KEY"
                                                          ELSE "OPENAI_API_KEY"
           answers == [apiEnv |-> "LLM_API_BASE", protocol |-> protocol, tokenEnv |-> tokenEnv]
<1>1. session.stage = "protocol" /\ Dialog /\ session' = Answered("base", answers)
  BY DEF ChooseProtocol, Asked
<1>2. /\ DOMAIN answers = {"apiEnv", "protocol", "tokenEnv"}
      /\ answers.apiEnv = "LLM_API_BASE" /\ answers.protocol = protocol
      /\ answers.tokenEnv = tokenEnv
  OBVIOUS
<1>3. /\ protocol \in Values \ {None}
      /\ tokenEnv \in Values \ {None} /\ tokenEnv \in EnvNames /\ tokenEnv # "LLM_API_BASE"
      /\ "LLM_API_BASE" \in Values \ {None} /\ "LLM_API_BASE" \in EnvNames
  BY CustomFacts, NamesAssumption DEF Values
<1> HIDE DEF answers, tokenEnv
<1>4. /\ session' \in Sessions
      /\ session'.stage = "base" /\ session'.mode = session.mode
      /\ session'.workspace = session.workspace /\ session'.preserve = session.preserve
      /\ \A f \in {"apiEnv", "protocol", "tokenEnv"} : session'.sel[f] = answers[f]
  BY <1>1, <1>2, <1>3, Progress, AnsweredFacts DEF Stages, Early, Fields
<1>5. Answering(session')
  BY <1>1, <1>2, <1>3, <1>4, Progress DEF Answering, Filled, Prompts, Fields, Early
<1> QED
  BY <1>1, <1>4, <1>5, AnswerIInv DEF Early

LEMMA TypeBaseIInv == ASSUME IInv, NEW b \in Bases, TypeBase(b) PROVE IInv'
<1>1. session.stage = "base" /\ Dialog /\ session' = Answered("token", [apiBase |-> b])
  BY DEF TypeBase, Asked
<1>2. b \in Values /\ b # None
  BY InstallerAssumption DEF Values
<1>3. /\ session' \in Sessions
      /\ session'.stage = "token" /\ session'.mode = session.mode
      /\ session'.workspace = session.workspace /\ session'.preserve = session.preserve
      /\ session'.sel.apiBase = b
      /\ \A f \in Fields \ {"apiBase"} : session'.sel[f] = session.sel[f]
  BY <1>1, <1>2, Progress, AnsweredFacts DEF Stages, Early, Fields
<1>4. Answering(session')
  BY <1>1, <1>2, <1>3, Progress DEF IInv, Answering, Filled, Prompts, Fields, Early
<1> QED
  BY <1>1, <1>3, <1>4, AnswerIInv DEF Early

LEMMA TypeTokenIInv == ASSUME IInv, NEW t \in Tokens, TypeToken(t) PROVE IInv'
<1> DEFINE stage == IF session.mode = "basic" THEN "write" ELSE "model"
<1>1. session.stage = "token" /\ Dialog /\ session' = Answered(stage, [token |-> t])
  BY DEF TypeToken, Asked
<1>2. t \in Values /\ t # None
  BY InstallerAssumption DEF Values
<1>3. stage \in {"write", "model"} /\ (stage = "write" <=> session.mode = "basic")
  OBVIOUS
<1> HIDE DEF stage
<1>4. /\ session' \in Sessions
      /\ session'.stage = stage /\ session'.mode = session.mode
      /\ session'.workspace = session.workspace /\ session'.preserve = session.preserve
      /\ session'.sel.token = t
      /\ \A f \in Fields \ {"token"} : session'.sel[f] = session.sel[f]
  BY <1>1, <1>2, <1>3, Progress, AnsweredFacts DEF Stages, Early, Fields
<1>5. Answering(session')
  BY <1>1, <1>2, <1>3, <1>4, Progress DEF IInv, Answering, Filled, Prompts, Fields, Early
<1> QED
  BY <1>1, <1>3, <1>4, <1>5, AnswerIInv DEF Early

LEMMA TypeModelIInv ==
  ASSUME IInv, NEW m \in Typed(Models, session.sel.model), TypeModel(m)
  PROVE  IInv'
<1>1. session.stage = "model" /\ Dialog /\ session' = Answered("host", [model |-> m])
  BY DEF TypeModel, Asked
<1>2. m \in Values /\ m # None
  BY <1>1, Progress, InstallerAssumption DEF Typed, Values, Early, Fields
<1>3. /\ session' \in Sessions
      /\ session'.stage = "host" /\ session'.mode = session.mode
      /\ session'.workspace = session.workspace /\ session'.preserve = session.preserve
      /\ session'.sel.model = m
      /\ \A f \in Fields \ {"model"} : session'.sel[f] = session.sel[f]
  BY <1>1, <1>2, Progress, AnsweredFacts DEF Stages, Early, Fields
<1>4. Answering(session')
  BY <1>1, <1>2, <1>3, Progress DEF IInv, Answering, Filled, Prompts, Fields, Early
<1> QED
  BY <1>1, <1>3, <1>4, AnswerIInv DEF Early

LEMMA ChooseHostIInv == ASSUME IInv, ChooseHost PROVE IInv'
<1>1. session.stage = "host" /\ Dialog /\ session' = [session EXCEPT !.stage = "port"]
  BY DEF ChooseHost, Asked
<1>2. /\ session' \in Sessions
      /\ session'.stage = "port" /\ session'.mode = session.mode /\ session'.sel = session.sel
      /\ session'.workspace = session.workspace /\ session'.preserve = session.preserve
  BY <1>1, Progress, MovedFacts DEF Stages, Early
<1>3. Answering(session')
  BY <1>1, <1>2, Progress DEF IInv, Answering, Filled, Prompts, Fields, Early
<1> QED
  BY <1>1, <1>2, <1>3, AnswerIInv DEF Early

LEMMA ChoosePortIInv == ASSUME IInv, ChoosePort PROVE IInv'
<1>1. session.stage = "port" /\ Dialog /\ session' = [session EXCEPT !.stage = "write"]
  BY DEF ChoosePort, Asked
<1>2. /\ session' \in Sessions
      /\ session'.stage = "write" /\ session'.mode = session.mode /\ session'.sel = session.sel
      /\ session'.workspace = session.workspace /\ session'.preserve = session.preserve
  BY <1>1, Progress, MovedFacts DEF Stages, Early
<1>3. Answering(session')
  BY <1>1, <1>2, Progress DEF IInv, Answering, Filled, Prompts, Fields, Early
<1> QED
  BY <1>1, <1>2, <1>3, AnswerIInv DEF Early

\* A step back never reaches a prompt whose earlier answers are missing.
LEMMA BackIInv == ASSUME IInv, Back PROVE IInv'
<1> DEFINE stage == Previous[session.stage]
<1>1. /\ session.stage \in {"provider", "protocol", "base", "model", "host", "port"}
      /\ Dialog /\ session' = [session EXCEPT !.stage = stage]
  BY DEF Back, Previous
<1>2. /\ session.stage = "provider" => stage = "workspace"
      /\ session.stage = "protocol" => stage = "provider"
      /\ session.stage = "base" => stage = "protocol"
      /\ session.stage = "model" => stage = "token"
      /\ session.stage = "host" => stage = "model"
      /\ session.stage = "port" => stage = "host"
  BY DEF Previous
<1> HIDE DEF stage
<1>3. stage \in {"workspace", "provider", "protocol", "token", "model", "host"}
  BY <1>1, <1>2
<1>4. /\ session' \in Sessions
      /\ session'.stage = stage /\ session'.mode = session.mode /\ session'.sel = session.sel
      /\ session'.workspace = session.workspace /\ session'.preserve = session.preserve
  BY <1>1, <1>3, Progress, MovedFacts DEF Stages, Early
<1>5. Answering(session')
  BY <1>1, <1>2, <1>4, Progress DEF IInv, Answering, Filled, Prompts, Fields, Early
<1> QED
  BY <1>1, <1>3, <1>4, <1>5, AnswerIInv DEF Early

\* The dialog comes to a workspace it was not at: what is there is accounted for.
LEMMA BeginIInv ==
  ASSUME IInv, NEW mode \in {"basic", "advanced"}, Begin(mode)
  PROVE  IInv'
<1> DEFINE s == [NoSession EXCEPT !.mode = mode]
<1>1. /\ session.stage = "idle" /\ session.workspace = None
      /\ UNCHANGED <<env, entry, dir, admin, shortcut, phase, place, mutex, command, chosen, torn,
                      known, failed, replaced>>
      /\ installs \in Nat /\ installs' = installs + 1
  BY DEF Begin, Asked, disk, runs, history, IInv, TypeOK, Answering
<1>2. /\ NoSession \in Sessions
      /\ NoSession.workspace = None /\ NoSession.preserve = FALSE
  <2>1. NoFields \in Selections
    BY DEF NoFields, Selections, Values
  <2> QED
    BY <2>1 DEF NoSession, Sessions, Stages
<1>3. s \in Sessions /\ s.mode = mode /\ s.workspace = None /\ s.preserve = FALSE
  BY <1>2 DEF Sessions
<1> HIDE DEF s
<1>5. /\ session' \in Sessions /\ Answering(session')
      /\ session'.stage \in Early
      /\ session'.stage = "policy" => dir[session'.workspace]
      /\ session'.stage # "policy" => ~ session'.preserve
  <2>1. CASE mode = "basic"
    <3>1. Defaults # {}
      BY <2>1, FS_EmptySet DEF Begin
    <3>2. session' = Arrive(s, DefaultWorkspace)
      BY <2>1 DEF Begin, s
    <3> QED
      BY <1>3, <3>1, <3>2, ArriveFacts, InstallerAssumption
  <2>2. CASE mode = "advanced"
    <3>1. session' = [s EXCEPT !.stage = "workspace"]
      BY <2>2 DEF Begin, s
    <3>2. /\ session' \in Sessions /\ session'.stage = "workspace" /\ session'.mode = mode
          /\ session'.workspace = None /\ session'.preserve = FALSE
      BY <1>3, <3>1 DEF Sessions, Stages, Early
    <3>3. Answering(session')
      BY <2>2, <3>2 DEF Answering, Filled
    <3> QED
      BY <3>2, <3>3 DEF Early
  <2> QED
    BY <2>1, <2>2
<1>6. Accounts'
  BY <1>1, <1>5, InstallerAssumption DEF IInv, Accounts, Accounted, Early, Initializing
<1>7. TypeOK'
  BY <1>1, <1>5 DEF IInv, TypeOK
<1>8. OwnersHold'
  BY <1>1 DEF IInv, OwnersHold
<1>9. FilesAgree'
  BY <1>1, <1>5 DEF IInv, FilesAgree, Serves, Early
<1> QED
  BY <1>5, <1>6, <1>7, <1>8, <1>9 DEF IInv

LEMMA ChooseWorkspaceIInv ==
  ASSUME IInv, NEW w \in Workspaces, ChooseWorkspace(w)
  PROVE  IInv'
<1>1. /\ session.stage = "workspace" /\ Dialog /\ session' = Arrive(session, w)
      /\ UNCHANGED <<env, entry, dir, admin, place, known, failed, replaced>>
  BY DEF ChooseWorkspace, Asked, Dialog, disk, runs, history
<1>2. /\ session' \in Sessions /\ Answering(session') /\ session'.workspace = w
      /\ session'.stage \in Early \ {"workspace"}
      /\ session'.stage = "policy" => dir[w]
      /\ session'.stage # "policy" => ~ session'.preserve
  BY <1>1, Progress, ArriveFacts DEF Early
<1>3. Accounts'
  BY <1>1, <1>2 DEF IInv, Accounts, Accounted, Early, Initializing
<1> QED
  BY <1>1, <1>2, <1>3, DialogKeeps DEF Early

LEMMA KeepDataIInv == ASSUME IInv, KeepData PROVE IInv'
<1> DEFINE w == session.workspace
<1>1. /\ session.stage = "policy" /\ Dialog
      /\ session' = Settled(session, w, SavedIn(env[w]), TRUE)
  BY DEF KeepData, Asked, Saved
<1>2. w \in Workspaces
  BY <1>1, Progress DEF Sessions, Early
<1>3. SavedIn(env[w]) = None \/ Found(SavedIn(env[w]))
  BY <1>2, SavedFacts DEF IInv, TypeOK
<1> DEFINE saved == SavedIn(env[w])
<1> HIDE DEF saved
<1>4. \A keep \in BOOLEAN : session' = Settled(session, w, saved, keep) =>
        /\ session' \in Sessions /\ Answering(session')
        /\ session'.stage \in Early \ {"policy", "workspace"}
        /\ session'.workspace = w
  <2>1. saved = None \/ Found(saved)
    BY <1>3 DEF saved
  <2>2. /\ session \in Sessions /\ w \in Workspaces
        /\ session.mode = "basic" => Defaults # {}
    BY <1>1, <1>2, Progress DEF Early
  <2> SUFFICES ASSUME NEW keep \in BOOLEAN, session' = Settled(session, w, saved, keep)
               PROVE  /\ session' \in Sessions /\ Answering(session')
                      /\ session'.stage \in Early \ {"policy", "workspace"}
                      /\ session'.workspace = w
    OBVIOUS
  <2> HIDE DEF w
  <2> QED
    BY <2>1, <2>2, SettledFacts
<1>5. /\ session' \in Sessions /\ Answering(session')
      /\ session'.stage \in Early \ {"policy", "workspace"}
      /\ session'.workspace = w
  BY <1>1, <1>4 DEF saved
<1> QED
  BY <1>1, <1>5, AnswerIInv DEF Early

-----------------------------------------------------------------------------
(* The files and the first start *)

\* What the invariant says when no installation is in progress.
LEMMA NoSessionFacts ==
  /\ NoSession \in Sessions /\ Answering(NoSession)
  /\ NoSession.stage = "idle" /\ NoSession.workspace = None /\ NoSession.preserve = FALSE
<1>1. NoFields \in Selections
  BY DEF NoFields, Selections, Values
<1> QED
  BY <1>1, NamesAssumption DEF NoSession, Sessions, Stages, Answering, Filled

\* Clearing takes the data and the account of it away together.
LEMMA ClearDataIInv == ASSUME IInv, ClearData PROVE IInv'
<1> DEFINE w == session.workspace
<1>1. /\ session.stage = "policy" /\ session' = Settled(session, w, None, FALSE)
      /\ env' = [env EXCEPT ![w] = NoEnv]
      /\ dir' = [dir EXCEPT ![w] = FALSE]
      /\ admin' = [admin EXCEPT ![w] = None]
      /\ torn' = [torn EXCEPT ![w] = TRUE]
      /\ known' = [known EXCEPT ![w] = FALSE]
      /\ failed' = [failed EXCEPT ![w] = TRUE]
      /\ UNCHANGED <<entry, shortcut, installs, phase, place, mutex, command, chosen, replaced>>
  BY DEF ClearData, Asked, runs
<1>2. w \in Workspaces /\ TypeOK
  BY <1>1, Progress DEF Sessions, Early, IInv
<1>3. \A keep \in BOOLEAN : session' = Settled(session, w, None, keep) =>
        /\ session' \in Sessions /\ Answering(session')
        /\ session'.stage \in Early \ {"policy", "workspace"}
        /\ session'.workspace = w
  <2>1. /\ session \in Sessions
        /\ session.mode = "basic" => Defaults # {}
    BY <1>1, Progress DEF Early
  <2> SUFFICES ASSUME NEW keep \in BOOLEAN, session' = Settled(session, w, None, keep)
               PROVE  /\ session' \in Sessions /\ Answering(session')
                      /\ session'.stage \in Early \ {"policy", "workspace"}
                      /\ session'.workspace = w
    OBVIOUS
  <2> HIDE DEF w
  <2> QED
    BY <1>2, <2>1, SettledFacts
<1>4. /\ session' \in Sessions /\ Answering(session')
      /\ session'.stage \in Early \ {"policy", "workspace"}
      /\ session'.workspace = w
  BY <1>1, <1>3
<1>5. NoEnv \in [EnvNames -> Values]
  BY DEF NoEnv, Values
<1>6. TypeOK'
  BY <1>1, <1>2, <1>4, <1>5 DEF TypeOK
<1>7. OwnersHold'
  BY <1>1 DEF IInv, OwnersHold
<1>8. FilesAgree'
  BY <1>1, <1>2, <1>4 DEF IInv, TypeOK, FilesAgree, Serves, Early
<1>9. Accounts'
  BY <1>1, <1>2, <1>4 DEF IInv, TypeOK, Accounts, Accounted, Early, Initializing
<1> QED
  BY <1>4, <1>6, <1>7, <1>8, <1>9 DEF IInv

\* A removal that breaks off is accounted for, whatever it has left.
LEMMA ClearPartlyIInv == ASSUME IInv, ClearPartly PROVE IInv'
<1> DEFINE w == session.workspace
<1>1. PICK values \in {env[w], NoEnv}, who \in {admin[w], None} :
        /\ session.stage = "policy" /\ session' = NoSession
        /\ env' = [env EXCEPT ![w] = values]
        /\ admin' = [admin EXCEPT ![w] = who]
        /\ torn' = [torn EXCEPT ![w] = @ \/ values # env[w]]
        /\ known' = [known EXCEPT ![w] = @ /\ who = admin[w]]
        /\ failed' = [failed EXCEPT ![w] = TRUE]
        /\ UNCHANGED <<entry, dir, shortcut, installs, phase, place, mutex, command, chosen,
                       replaced>>
  BY DEF ClearPartly, Asked, runs
<1>2. w \in Workspaces /\ TypeOK
  BY <1>1, Progress DEF Sessions, Early, IInv
<1>3. values \in [EnvNames -> Values] /\ who \in {None, "installer", "program"}
  <2>1. NoEnv \in [EnvNames -> Values]
    BY DEF NoEnv, Values
  <2> QED
    BY <1>2, <2>1 DEF TypeOK
<1>4. TypeOK'
  BY <1>1, <1>2, <1>3, NoSessionFacts DEF TypeOK
<1>5. OwnersHold'
  BY <1>1 DEF IInv, OwnersHold
<1>6. FilesAgree'
  <2>1. \A x \in Workspaces : ~torn'[x] => env'[x] = env[x] /\ ~torn[x]
    BY <1>1, <1>2 DEF TypeOK
  <2> QED
    BY <1>1, <2>1, NoSessionFacts DEF IInv, FilesAgree, Serves
<1>7. /\ \A x \in Workspaces : x = w \/ Accounted(x) => Accounted(x)'
      /\ \A x \in Workspaces \ {w} : admin'[x] = admin[x]
  <2>1. failed'[w]
    BY <1>1, <1>2 DEF TypeOK
  <2>2. \A x \in Workspaces \ {w} :
          /\ known'[x] = known[x] /\ failed'[x] = failed[x] /\ replaced'[x] = replaced[x]
          /\ admin'[x] = admin[x]
    BY <1>1, <1>2 DEF TypeOK
  <2> QED
    BY <2>1, <2>2 DEF Accounted
<1>8. Accounts'
  BY <1>1, <1>2, <1>7, NoSessionFacts, InstallerAssumption
     DEF IInv, Accounts, Early, Initializing
<1> QED
  BY <1>1, <1>4, <1>5, <1>6, <1>8, NoSessionFacts DEF IInv

\* What is true of a selection that is written.
LEMMA Writing ==
  ASSUME IInv, session.stage \in {"write", "generate"}
  PROVE  /\ session \in Sessions /\ session.sel \in Selections
         /\ session.workspace \in Workspaces
         /\ \A f \in Fields : session.sel[f] # None
         /\ session.sel.apiEnv \in EnvNames /\ session.sel.tokenEnv \in EnvNames
         /\ session.sel.apiEnv # session.sel.tokenEnv
<1>1. session \in Sessions /\ Answering(session)
  BY DEF IInv, TypeOK
<1>2. Filled(session) = Fields
  BY DEF Filled
<1> QED
  BY <1>1, <1>2 DEF Answering, Sessions, Fields

\* Only what the file already says is left alone.
LEMMA WriteEnvIInv == ASSUME IInv, WriteEnv PROVE IInv'
<1> DEFINE w == session.workspace
           s == session.sel
<1>1. /\ session.stage = "write" /\ session' = [session EXCEPT !.stage = "generate"]
      /\ dir' = [dir EXCEPT ![w] = TRUE]
      /\ UNCHANGED <<entry, admin, shortcut, installs, phase, place, mutex, command, chosen,
                     known, failed, replaced>>
  BY DEF WriteEnv, Asked, runs
<1>2. /\ w \in Workspaces /\ s \in Selections /\ TypeOK
      /\ \A f \in Fields : s[f] # None
      /\ s.apiEnv \in EnvNames /\ s.tokenEnv \in EnvNames /\ s.apiEnv # s.tokenEnv
  BY <1>1, Writing DEF IInv
<1>3. /\ session' \in Sessions
      /\ session'.stage = "generate" /\ session'.mode = session.mode /\ session'.sel = s
      /\ session'.workspace = w /\ session'.preserve = session.preserve
  BY <1>1, <1>2, MovedFacts DEF Stages, TypeOK
<1>4. /\ env' \in [Workspaces -> [EnvNames -> Values]] /\ torn' \in [Workspaces -> BOOLEAN]
      /\ Serves(env'[w], s)
      /\ \A x \in Workspaces \ {w} : env'[x] = env[x] /\ torn'[x] = torn[x]
      /\ (env'[w] = env[w] /\ torn'[w] = torn[w]) \/ torn'[w]
  <2>1. CASE AlreadySaved(env[w], session)
    BY <1>2, <2>1 DEF WriteEnv, AlreadySaved, Serves, TypeOK
  <2>2. CASE ~ AlreadySaved(env[w], session)
    <3> DEFINE values == [n \in EnvNames |-> CASE n = s.tokenEnv -> s.token
                                               [] n = s.apiEnv -> s.apiBase
                                               [] OTHER -> None]
    <3>1. env' = [env EXCEPT ![w] = values] /\ torn' = [torn EXCEPT ![w] = TRUE]
      BY <2>2 DEF WriteEnv
    <3>2. values[s.tokenEnv] = s.token /\ values[s.apiEnv] = s.apiBase
      BY <1>2
    <3>3. values \in [EnvNames -> Values]
      BY <1>2 DEF Selections, Fields, Values
    <3> HIDE DEF values
    <3> QED
      BY <1>2, <3>1, <3>2, <3>3 DEF TypeOK, Serves
  <2> QED
    BY <2>1, <2>2
<1>5. TypeOK'
  BY <1>1, <1>2, <1>3, <1>4 DEF TypeOK
<1>6. OwnersHold'
  BY <1>1 DEF IInv, OwnersHold
<1>7. Answering(session')
  BY <1>1, <1>2, <1>3 DEF IInv, Answering, Prompts, Filled
<1>8. FilesAgree'
  BY <1>1, <1>2, <1>3, <1>4 DEF IInv, FilesAgree, Serves
<1>9. Accounts'
  BY <1>1, <1>2, <1>3, <1>4 DEF IInv, Accounts, Accounted, Early, Initializing
<1> QED
  BY <1>5, <1>6, <1>7, <1>8, <1>9 DEF IInv

LEMMA GenerateIInv == ASSUME IInv, GenerateEntrypoint PROVE IInv'
<1> DEFINE w == session.workspace
           s == session.sel
<1>1. /\ session.stage = "generate" /\ session' = [session EXCEPT !.stage = "initialize"]
      /\ entry' = [entry EXCEPT ![w] = Rendered(s)]
      /\ chosen' = [chosen EXCEPT ![w] = s]
      /\ torn' = [torn EXCEPT ![w] = FALSE]
      /\ UNCHANGED <<env, dir, admin, shortcut, installs, phase, place, mutex, command, known,
                     failed, replaced>>
  BY DEF GenerateEntrypoint, Asked, runs
<1>2. /\ w \in Workspaces /\ s \in Selections /\ TypeOK
      /\ \A f \in Fields : s[f] # None
      /\ Serves(env[w], s)
  BY <1>1, Writing DEF IInv, FilesAgree
<1>3. /\ session' \in Sessions
      /\ session'.stage = "initialize" /\ session'.mode = session.mode
      /\ session'.workspace = w /\ session'.preserve = session.preserve
  BY <1>1, <1>2, MovedFacts DEF Stages, Initializing, TypeOK
<1>4. Rendered(s) \in Entries
  BY <1>2 DEF Rendered, Entries, Selections, Fields
<1>5. TypeOK'
  BY <1>1, <1>2, <1>3, <1>4 DEF TypeOK
<1>6. OwnersHold'
  BY <1>1 DEF IInv, OwnersHold
<1>7. Answering(session')
  BY <1>1, <1>2, <1>3, InstallerAssumption DEF IInv, Answering, Prompts, Filled
<1>8. FilesAgree'
  BY <1>1, <1>2, <1>3 DEF IInv, TypeOK, FilesAgree, Serves
<1>9. Accounts'
  BY <1>1, <1>2, <1>3 DEF IInv, TypeOK, Accounts, Accounted, Early, Initializing
<1> QED
  BY <1>5, <1>6, <1>7, <1>8, <1>9 DEF IInv

\* A session past its files is at a workspace.
LEMMA Placed ==
  ASSUME IInv, session.stage \notin {"idle", "workspace"}
  PROVE  session \in Sessions /\ session.workspace \in Workspaces
BY DEF IInv, TypeOK, Answering, Sessions

\* The statements of init_db follow each other: it writes one administrator.
LEMMA InitDbFacts ==
  ASSUME TypeOK, NEW w \in Workspaces, NEW who \in {"installer", "program"}, NEW at,
         NEW next, next = InitDb(at, w), Stated(w, who, next)
  PROVE  /\ next \in {"looking", "inserting", "updating", "created", "found", "raises"}
         /\ admin' = [admin EXCEPT ![w] = IF next = "created" THEN who ELSE @]
         /\ admin' \in [Workspaces -> {None, "installer", "program"}]
         /\ dir' = [dir EXCEPT ![w] = TRUE]
         /\ dir' \in [Workspaces -> BOOLEAN]
<1>1. next \in {"looking", "inserting", "updating", "created", "found", "raises"}
  BY DEF InitDb
<1> QED
  BY <1>1 DEF Stated, TypeOK

LEMMA InitializeIInv == ASSUME IInv, Initialize PROVE IInv'
<1> DEFINE w == session.workspace
           next == InitDb(session.stage, w)
           stage == IF next \in {"found", "created"} THEN "stop" ELSE next
<1>1. /\ session.stage \in Initializing \ {"stop"}
      /\ next # "raises"
      /\ Stated(w, "installer", next)
      /\ session' = [session EXCEPT !.stage = stage, !.created = next = "created"]
      /\ UNCHANGED <<env, entry, shortcut, installs, phase, place, mutex, command, chosen, torn,
                     known, failed, replaced>>
  BY DEF Initialize, runs, history
<1>2. session \in Sessions /\ w \in Workspaces /\ TypeOK
  BY <1>1, Placed DEF IInv, Initializing
<1>3. /\ next \in {"looking", "inserting", "updating", "created", "found", "raises"}
      /\ admin' = [admin EXCEPT ![w] = IF next = "created" THEN "installer" ELSE @]
      /\ admin' \in [Workspaces -> {None, "installer", "program"}]
      /\ dir' = [dir EXCEPT ![w] = TRUE]
      /\ dir' \in [Workspaces -> BOOLEAN]
  <2> HIDE DEF w
  <2> QED
    BY <1>1, <1>2, InitDbFacts
<1>4. /\ session' \in Sessions
      /\ session'.stage \in Initializing \ {"initialize"} /\ session'.mode = session.mode
      /\ session'.stage = "stop" /\ session'.created => next = "created"
      /\ session'.workspace = w /\ session'.preserve = session.preserve
  <2>1. stage \in Initializing \ {"initialize"}
    BY <1>1, <1>3 DEF Initializing
  <2> HIDE DEF stage, next
  <2> QED
    BY <1>1, <1>2, <2>1 DEF Sessions, Stages
<1> HIDE DEF next, stage
<1>5. TypeOK'
  BY <1>1, <1>2, <1>3, <1>4 DEF TypeOK
<1>6. OwnersHold'
  BY <1>1 DEF IInv, OwnersHold
<1>7. Answering(session')
  BY <1>1, <1>2, <1>4, InstallerAssumption DEF IInv, Answering, Prompts, Filled, Initializing
<1>8. FilesAgree'
  BY <1>1, <1>2, <1>4 DEF IInv, FilesAgree, Serves, Initializing
<1>9. Accounts'
  <2>1. \A x \in Workspaces : Accounted(x)' <=> Accounted(x)
    BY <1>1 DEF Accounted
  <2> QED
    BY <1>1, <1>2, <1>3, <1>4, <2>1 DEF IInv, TypeOK, Accounts, Early, Initializing
<1> QED
  BY <1>5, <1>6, <1>7, <1>8, <1>9 DEF IInv

\* An installation that ends well either shows the password it created or kept
\* data that was accounted for.
LEMMA FinishIInv == ASSUME IInv, Finish PROVE IInv'
<1> DEFINE w == session.workspace
           serves == session.created /\ admin[w] = "installer"
<1>1. /\ session.stage = "stop" /\ session' = [session EXCEPT !.stage = "done"]
      /\ session.created \/ session.preserve
      /\ known' = [known EXCEPT ![w] = serves \/ (~session.created /\ @)]
      /\ failed' = [failed EXCEPT ![w] = @ /\ ~session.created]
      /\ replaced' = [replaced EXCEPT ![w] = @ /\ ~serves]
      /\ shortcut' = w
      /\ UNCHANGED <<env, entry, dir, admin, installs, phase, place, mutex, command, chosen, torn>>
  BY DEF Finish, Shows, Asked, runs
<1>2. session \in Sessions /\ w \in Workspaces /\ TypeOK
  BY <1>1, Placed DEF IInv
<1>3. /\ session' \in Sessions
      /\ session'.stage = "done" /\ session'.mode = session.mode
      /\ session'.workspace = w /\ session'.preserve = session.preserve
  BY <1>1, <1>2, MovedFacts DEF Stages
<1>4. /\ session.created => known'[w] \/ replaced'[w]
      /\ ~session.created =>
           known'[w] = known[w] /\ failed'[w] = failed[w] /\ replaced'[w] = replaced[w]
      /\ \A x \in Workspaces \ {w} :
           known'[x] = known[x] /\ failed'[x] = failed[x] /\ replaced'[x] = replaced[x]
      /\ known' \in [Workspaces -> BOOLEAN] /\ failed' \in [Workspaces -> BOOLEAN]
      /\ replaced' \in [Workspaces -> BOOLEAN]
  <2>1. /\ session.created \in BOOLEAN
        /\ session.created => admin[w] = "installer" \/ replaced[w]
    BY <1>1, <1>2 DEF Sessions, IInv, Accounts
  <2>2. serves \in BOOLEAN
    OBVIOUS
  <2> QED
    BY <1>1, <1>2, <2>1, <2>2 DEF TypeOK
<1>5. TypeOK'
  BY <1>1, <1>2, <1>3, <1>4 DEF TypeOK
<1>6. OwnersHold'
  BY <1>1 DEF IInv, OwnersHold
<1>7. Answering(session')
  BY <1>1, <1>2, <1>3, InstallerAssumption DEF IInv, Answering, Prompts, Filled
<1>8. FilesAgree'
  BY <1>1, <1>2, <1>3 DEF IInv, FilesAgree, Serves
<1>9. Accounted(w)' /\ \A x \in Workspaces : Accounted(x) => Accounted(x)'
  BY <1>1, <1>2, <1>4 DEF IInv, Accounts, Accounted
<1>10. Accounts'
  BY <1>1, <1>2, <1>3, <1>4, <1>9 DEF IInv, Accounts, Early
<1> QED
  BY <1>5, <1>6, <1>7, <1>8, <1>10 DEF IInv

LEMMA CloseIInv == ASSUME IInv, Close PROVE IInv'
<1>1. /\ session.stage = "done" /\ session' = NoSession /\ Dialog
      /\ UNCHANGED <<env, entry, dir, admin, place, known, failed, replaced>>
  BY DEF Close, Asked, Dialog, disk, runs, history
<1>2. Accounts'
  BY <1>1, NoSessionFacts, InstallerAssumption DEF IInv, Accounts, Accounted, Early, Initializing
<1> QED
  BY <1>1, <1>2, NoSessionFacts, DialogKeeps

LEMMA AbortIInv == ASSUME IInv, Abort PROVE IInv'
<1> DEFINE w == session.workspace
<1>1. /\ session' = NoSession
      /\ failed' = [x \in Workspaces |-> failed[x] \/ x = w]
      /\ UNCHANGED <<env, entry, dir, admin, shortcut, installs, phase, place, mutex, command, chosen,
                     torn, known, replaced>>
  BY DEF Abort, disk, runs
<1>2. /\ failed' \in [Workspaces -> BOOLEAN]
      /\ \A x \in Workspaces : x = w \/ Accounted(x) => Accounted(x)'
  BY <1>1 DEF IInv, TypeOK, Accounted
<1>3. TypeOK'
  BY <1>1, <1>2, NoSessionFacts DEF IInv, TypeOK
<1>4. OwnersHold'
  BY <1>1 DEF IInv, OwnersHold
<1>5. FilesAgree'
  BY <1>1, NoSessionFacts DEF IInv, FilesAgree, Serves
<1>6. Accounts'
  BY <1>1, <1>2, NoSessionFacts, InstallerAssumption DEF IInv, Accounts, Early
<1> QED
  BY <1>1, <1>3, <1>4, <1>5, <1>6, NoSessionFacts DEF IInv

-----------------------------------------------------------------------------
(* Runs of entrypoint.py *)

\* A run reads the files, and only starts where an installation has put them.
Kept ==
  /\ dir' \in [Workspaces -> BOOLEAN]
  /\ admin' \in [Workspaces -> {None, "installer", "program"}]
  /\ known' \in [Workspaces -> BOOLEAN] /\ replaced' \in [Workspaces -> BOOLEAN]
  /\ \A w \in Workspaces :
       /\ dir'[w] # dir[w] \/ admin'[w] # admin[w] => \E p \in Runtimes : place[p] = w
       /\ known[w] \/ replaced[w] => known'[w] \/ replaced'[w]
       /\ replaced[w] => replaced'[w]
       /\ admin[w] = "installer" => admin'[w] = "installer" \/ replaced'[w]

LEMMA QuietFacts == ASSUME TypeOK, Quiet PROVE Still /\ Kept
BY DEF Quiet, Kept, TypeOK

LEMMA RunKeeps ==
  ASSUME IInv, Still, Kept, OwnersHold',
         phase' \in [Runtimes -> Phases],
         place' \in [Runtimes -> Workspaces \union {None}],
         mutex' \in [Workspaces -> Runtimes \union {None}],
         command' \in [Runtimes -> {None, "restart", "close"}],
         \A p \in Runtimes : place'[p] \in Workspaces =>
           place'[p] = place[p] \/ entry[place'[p]] # None
  PROVE  IInv'
<1>1. UNCHANGED <<env, entry, shortcut, session, installs, chosen, torn, failed>> /\ TypeOK
  BY DEF Still, IInv
<1>2. TypeOK'
  BY <1>1 DEF TypeOK, Kept
<1>3. Answering(session') /\ FilesAgree'
  BY <1>1 DEF IInv, FilesAgree, Serves
<1>4. \A w \in Workspaces : Accounted(w) => Accounted(w)'
  BY <1>1 DEF Accounted, Kept
<1>5. \A w \in Workspaces : entry[w] # None =>
        Accounted(w) \/ (session.workspace = w /\ session.stage \in Initializing)
  BY <1>1, InstallerAssumption
     DEF IInv, TypeOK, Answering, Sessions, Stages, Accounts, Early, Initializing
<1>6. \A w \in Workspaces : dir'[w] # dir[w] \/ admin'[w] # admin[w] =>
        Accounted(w) \/ (session.workspace = w /\ session.stage \in Initializing)
  <2> SUFFICES ASSUME NEW w \in Workspaces, dir'[w] # dir[w] \/ admin'[w] # admin[w]
               PROVE  Accounted(w) \/ (session.workspace = w /\ session.stage \in Initializing)
    OBVIOUS
  <2>1. PICK p \in Runtimes : place[p] = w
    BY DEF Kept
  <2> QED
    BY <2>1 DEF IInv, Accounts
<1>7. ASSUME NEW w \in Workspaces
      PROVE  /\ session.workspace # w \/ session.stage \in Early \union {"generate"} =>
                  (admin'[w] # None \/ entry[w] # None => Accounted(w)')
             /\ session.workspace # w \/ session.stage \in Early => (dir'[w] => Accounted(w)')
  BY <1>4, <1>6 DEF IInv, Accounts, Early, Initializing
<1>8. ASSUME NEW w \in Workspaces
      PROVE  /\ session.workspace = w /\ session.stage \in {"policy", "done"} => Accounted(w)'
             /\ session.workspace = w /\ session.preserve => Accounted(w)'
             /\ session.workspace = w /\ session.stage = "stop" /\ session.created =>
                  admin'[w] = "installer" \/ replaced'[w]
             /\ session.workspace = w /\ session.stage = "done" /\ ~session.preserve =>
                  known'[w] \/ replaced'[w]
  BY <1>4 DEF IInv, Accounts, Kept
<1>9. ASSUME NEW p \in Runtimes, NEW w \in Workspaces, place'[p] = w
      PROVE  Accounted(w)' \/ (session.workspace = w /\ session.stage \in Initializing)
  BY <1>4, <1>5, <1>9 DEF IInv, Accounts
<1>10. \A p \in Runtimes : place'[p] \in Workspaces =>
         \/ known'[place'[p]] \/ failed'[place'[p]] \/ replaced'[place'[p]]
         \/ session.workspace = place'[p] /\ session.stage \in Initializing
  BY <1>9 DEF Accounted
<1>11. Accounts'
  BY <1>1, <1>7, <1>8, <1>10 DEF Accounts, Accounted
<1> QED
  BY <1>2, <1>3, <1>11 DEF IInv

LEMMA LaunchIInv ==
  ASSUME IInv, NEW p \in Runtimes, NEW w \in Workspaces, Launch(p, w)
  PROVE  IInv'
<1>1. /\ entry[w] # None /\ phase[p] = "off" /\ phase' = [phase EXCEPT ![p] = "acquire"]
      /\ place' = [place EXCEPT ![p] = w]
      /\ Quiet /\ UNCHANGED <<mutex, command>> /\ TypeOK
  BY DEF Launch, Goes, IInv
<1>2. /\ phase' \in [Runtimes -> Phases] /\ place' \in [Runtimes -> Workspaces \union {None}]
      /\ mutex' \in [Workspaces -> Runtimes \union {None}]
      /\ command' \in [Runtimes -> {None, "restart", "close"}]
  BY <1>1 DEF TypeOK, Phases
<1>3. OwnersHold'
  BY <1>1 DEF IInv, TypeOK, OwnersHold, Owning, Starting
<1>4. \A q \in Runtimes : place'[q] \in Workspaces =>
        place'[q] = place[q] \/ entry[place'[q]] # None
  BY <1>1 DEF TypeOK
<1> QED
  BY <1>1, <1>2, <1>3, <1>4, QuietFacts, RunKeeps

\* A step of a process that stays where it is, with or without the mutex.
LEMMA StepIInv ==
  ASSUME IInv, NEW p \in Runtimes, NEW to \in Phases \ {"off"}, Still, Kept,
         phase[p] # "off", phase' = [phase EXCEPT ![p] = to],
         to \in Owning => phase[p] \in Owning,
         UNCHANGED <<place, mutex>>,
         command' \in [Runtimes -> {None, "restart", "close"}]
  PROVE  IInv'
<1>1. TypeOK /\ place[p] \in Workspaces
  BY DEF IInv, OwnersHold
<1>2. phase' \in [Runtimes -> Phases]
  BY <1>1 DEF TypeOK
<1>3. OwnersHold'
  BY <1>1 DEF IInv, TypeOK, OwnersHold
<1> QED
  BY <1>1, <1>2, <1>3, RunKeeps DEF TypeOK

\* A process that ends leaves nothing behind but the data.
LEMMA GoneIInv ==
  ASSUME IInv, NEW p \in Runtimes, Gone(p), Quiet
  PROVE  IInv'
<1>1. /\ TypeOK
      /\ phase' = [phase EXCEPT ![p] = "off"]
      /\ place' = [place EXCEPT ![p] = None]
      /\ command' = [command EXCEPT ![p] = None]
      /\ mutex' = [w \in Workspaces |-> IF mutex[w] = p THEN None ELSE mutex[w]]
  BY DEF Gone, IInv
<1>2. /\ phase' \in [Runtimes -> Phases] /\ place' \in [Runtimes -> Workspaces \union {None}]
      /\ mutex' \in [Workspaces -> Runtimes \union {None}]
      /\ command' \in [Runtimes -> {None, "restart", "close"}]
  BY <1>1 DEF TypeOK, Phases
<1>3. OwnersHold'
  BY <1>1, InstallerAssumption DEF IInv, TypeOK, OwnersHold, Owning, Starting, Phases
<1>4. \A q \in Runtimes : place'[q] \in Workspaces => place'[q] = place[q]
  BY <1>1, InstallerAssumption DEF TypeOK
<1> QED
  BY <1>1, <1>2, <1>3, <1>4, QuietFacts, RunKeeps

LEMMA AcquireIInv == ASSUME IInv, NEW p \in Runtimes, AcquireInstance(p) PROVE IInv'
<1>1. CASE Goes(p, "acquire", "build") /\ ~(Gone(p) /\ Quiet)
  <2>1. /\ phase[p] = "acquire" /\ phase' = [phase EXCEPT ![p] = "build"]
        /\ mutex[place[p]] = None /\ mutex' = [mutex EXCEPT ![place[p]] = p]
        /\ Quiet /\ UNCHANGED <<place, command>> /\ TypeOK
    BY <1>1 DEF AcquireInstance, Goes, IInv
  <2>2. place[p] \in Workspaces
    BY <2>1 DEF IInv, OwnersHold
  <2>3. /\ phase' \in [Runtimes -> Phases] /\ place' \in [Runtimes -> Workspaces \union {None}]
        /\ mutex' \in [Workspaces -> Runtimes \union {None}]
        /\ command' \in [Runtimes -> {None, "restart", "close"}]
    BY <2>1, <2>2 DEF TypeOK, Phases, Owning
  <2>4. OwnersHold'
    BY <2>1, <2>2, InstallerAssumption DEF IInv, TypeOK, OwnersHold, Owning, Starting
  <2> QED
    BY <2>1, <2>3, <2>4, QuietFacts, RunKeeps
<1>2. CASE Gone(p) /\ Quiet
  BY <1>2, GoneIInv
<1> QED
  BY <1>1, <1>2 DEF AcquireInstance

\* A release gives the mutex up before the process takes it again.
LEMMA ReleaseIInv == ASSUME IInv, NEW p \in Runtimes, ReleaseInstance(p) PROVE IInv'
<1>1. CASE command[p] = "restart"
  <2>1. /\ phase[p] = "release" /\ phase' = [phase EXCEPT ![p] = "acquire"]
        /\ mutex' = [mutex EXCEPT ![place[p]] = None]
        /\ command' = [command EXCEPT ![p] = None]
        /\ Quiet /\ UNCHANGED place /\ TypeOK
    BY <1>1 DEF ReleaseInstance, IInv
  <2>2. place[p] \in Workspaces /\ mutex[place[p]] = p
    BY <2>1 DEF IInv, OwnersHold, Owning
  <2>3. /\ phase' \in [Runtimes -> Phases] /\ place' \in [Runtimes -> Workspaces \union {None}]
        /\ mutex' \in [Workspaces -> Runtimes \union {None}]
        /\ command' \in [Runtimes -> {None, "restart", "close"}]
    BY <2>1, <2>2 DEF TypeOK, Phases
  <2>4. OwnersHold'
    BY <2>1, <2>2 DEF IInv, TypeOK, OwnersHold, Owning, Starting
  <2> QED
    BY <2>1, <2>3, <2>4, QuietFacts, RunKeeps
<1>2. CASE command[p] # "restart"
  BY <1>2, GoneIInv DEF ReleaseInstance
<1> QED
  BY <1>1, <1>2

LEMMA BuildIInv == ASSUME IInv, NEW p \in Runtimes, BuildAgent(p) PROVE IInv'
<1>1. /\ phase[p] = "build" /\ phase' = [phase EXCEPT ![p] = "starting"]
      /\ dir' = [dir EXCEPT ![place[p]] = TRUE]
      /\ Still /\ UNCHANGED <<admin, known, replaced, place, mutex, command>> /\ TypeOK
  BY DEF BuildAgent, Goes, IInv
<1>2. place[p] \in Workspaces
  BY <1>1 DEF IInv, OwnersHold
<1>3. Kept
  BY <1>1, <1>2 DEF Kept, TypeOK
<1> QED
  BY <1>1, <1>3, StepIInv DEF Phases, Owning, Starting, TypeOK

\* A program that writes its password over another one is the work of `replaced`.
LEMMA StartIInv == ASSUME IInv, NEW p \in Runtimes, StartAgent(p) PROVE IInv'
<1> DEFINE w == place[p]
           next == InitDb(phase[p], w)
           over == next = "created" /\ admin[w] # None
           to == CASE next \in {"found", "created"} -> "checking"
                   [] next = "raises" -> "release"
                   [] OTHER -> next
<1>1. /\ phase[p] \in Starting /\ phase' = [phase EXCEPT ![p] = to]
      /\ Stated(w, "program", next)
      /\ known' = [known EXCEPT ![w] = @ /\ ~over]
      /\ replaced' = [replaced EXCEPT ![w] = @ \/ over]
      /\ Still /\ UNCHANGED <<place, mutex, command>> /\ TypeOK
  BY DEF StartAgent, Goes, IInv
<1>2. w \in Workspaces
  BY <1>1 DEF IInv, OwnersHold, Starting
<1>3. /\ next \in {"looking", "inserting", "updating", "created", "found", "raises"}
      /\ admin' = [admin EXCEPT ![w] = IF next = "created" THEN "program" ELSE @]
      /\ admin' \in [Workspaces -> {None, "installer", "program"}]
      /\ dir' = [dir EXCEPT ![w] = TRUE]
      /\ dir' \in [Workspaces -> BOOLEAN]
  <2> HIDE DEF w
  <2> QED
    BY <1>1, <1>2, InitDbFacts
<1>4. to \in Owning
  <2> HIDE DEF next
  <2> QED
    BY <1>3 DEF Owning, Starting
<1>5. Kept
  <2>1. over \in BOOLEAN /\ (admin[w] = "installer" /\ next = "created" => over)
    BY <1>3, NamesAssumption
  <2>2. place[p] = w
    OBVIOUS
  <2> HIDE DEF next, over, w
  <2> QED
    BY <1>1, <1>2, <1>3, <2>1, <2>2 DEF Kept, TypeOK
<1> HIDE DEF to
<1> QED
  BY <1>1, <1>4, <1>5, StepIInv DEF Phases, Owning, Starting, TypeOK

\* The steps of a run, in the order the program takes them.
LEMMA RunIInv ==
  ASSUME IInv, NEW p \in Runtimes,
         \/ \E w \in Workspaces : Launch(p, w)
         \/ AcquireInstance(p) \/ BuildAgent(p) \/ StartAgent(p) \/ StartFails(p)
         \/ \E c \in {"restart", "close"} : Press(p, c)
         \/ Checked(p) \/ TakeCommand(p)
         \/ \E raises \in BOOLEAN : StopForRestart(p, raises)
         \/ StopAgent(p) \/ ReleaseInstance(p) \/ Die(p)
  PROVE  IInv'
<1>0. TypeOK
  BY DEF IInv
<1>1. CASE \E w \in Workspaces : Launch(p, w)
  BY <1>1, LaunchIInv
<1>2. CASE AcquireInstance(p)
  BY <1>2, AcquireIInv
<1>3. CASE BuildAgent(p) \/ StartAgent(p)
  BY <1>3, BuildIInv, StartIInv
<1>5. CASE StartFails(p)
  BY <1>0, <1>5, QuietFacts, StepIInv DEF StartFails, Goes, Phases, Owning, Starting, TypeOK
<1>6. CASE \E c \in {"restart", "close"} : Press(p, c)
  <2>1. /\ Quiet /\ UNCHANGED <<phase, place, mutex>>
        /\ phase[p] \in {"checking", "waiting"}
        /\ command' \in [Runtimes -> {None, "restart", "close"}]
    BY <1>0, <1>6 DEF Press, TypeOK
  <2>2. phase' = [phase EXCEPT ![p] = phase[p]]
    BY <1>0, <2>1 DEF TypeOK
  <2> QED
    BY <1>0, <2>1, <2>2, QuietFacts, StepIInv DEF Phases, Owning
<1>7. CASE Checked(p)
  BY <1>0, <1>7, QuietFacts, StepIInv DEF Checked, Goes, Phases, Owning, TypeOK
<1>8. CASE TakeCommand(p)
  <2> DEFINE to == IF command[p] = "restart" THEN "stopping" ELSE "unwinding"
  <2>1. /\ Quiet /\ UNCHANGED <<place, mutex, command>>
        /\ phase[p] = "waiting" /\ phase' = [phase EXCEPT ![p] = to]
    BY <1>8 DEF TakeCommand, Goes
  <2>2. to \in Phases \ {"off"}
    BY DEF Phases, Owning
  <2> HIDE DEF to
  <2> QED
    BY <1>0, <2>1, <2>2, QuietFacts, StepIInv DEF Owning, TypeOK
<1>9. CASE \E raises \in BOOLEAN : StopForRestart(p, raises)
  <2>1. PICK raises \in BOOLEAN : StopForRestart(p, raises)
    BY <1>9
  <2> DEFINE to == IF raises THEN "unwinding" ELSE "release"
  <2>2. /\ Quiet /\ UNCHANGED <<place, mutex>>
        /\ phase[p] = "stopping" /\ phase' = [phase EXCEPT ![p] = to]
        /\ command' \in [Runtimes -> {None, "restart", "close"}]
    BY <1>0, <2>1 DEF StopForRestart, Goes, TypeOK
  <2>3. to \in Phases \ {"off"}
    BY DEF Phases, Owning
  <2> HIDE DEF to
  <2> QED
    BY <1>0, <2>2, <2>3, QuietFacts, StepIInv DEF Owning
<1>10. CASE StopAgent(p)
  BY <1>0, <1>10, QuietFacts, StepIInv DEF StopAgent, Goes, Phases, Owning, TypeOK
<1>11. CASE ReleaseInstance(p)
  BY <1>11, ReleaseIInv
<1>12. CASE Die(p)
  BY <1>12, GoneIInv DEF Die
<1> QED
  BY <1>1, <1>2, <1>3, <1>5, <1>6, <1>7, <1>8, <1>9, <1>10, <1>11, <1>12

-----------------------------------------------------------------------------
(* The theorems *)

LEMMA NextIInv == ASSUME IInv, [Next]_vars PROVE IInv'
<1>1. CASE UNCHANGED vars
  <2>1. UNCHANGED <<env, entry, dir, admin, shortcut, session, installs, phase, place, mutex,
                    command, chosen, torn, known, failed, replaced>>
    BY <1>1 DEF vars, disk, runs, history
  <2> QED
    BY <2>1 DEF IInv, TypeOK, OwnersHold, FilesAgree, Serves, Accounts, Accounted
<1>2. CASE \E mode \in {"basic", "advanced"} : Begin(mode)
  BY <1>2, BeginIInv
<1>3. CASE \E w \in Workspaces : ChooseWorkspace(w)
  BY <1>3, ChooseWorkspaceIInv
<1>4. CASE KeepData \/ ClearData \/ ClearPartly
  BY <1>4, KeepDataIInv, ClearDataIInv, ClearPartlyIInv
<1>5. CASE ChooseCustom \/ ChooseHost \/ ChoosePort \/ Back
  BY <1>5, ChooseCustomIInv, ChooseHostIInv, ChoosePortIInv, BackIInv
<1>6. CASE \E i \in DOMAIN Providers : ChooseProvider(i)
  BY <1>6, ChooseProviderIInv
<1>7. CASE \E protocol \in Protocols : ChooseProtocol(protocol)
  BY <1>7, ChooseProtocolIInv
<1>8. CASE \E b \in Bases : TypeBase(b)
  BY <1>8, TypeBaseIInv
<1>9. CASE \E t \in Tokens : TypeToken(t)
  BY <1>9, TypeTokenIInv
<1>10. CASE \E m \in Typed(Models, session.sel.model) : TypeModel(m)
  BY <1>10, TypeModelIInv
<1>11. CASE WriteEnv \/ GenerateEntrypoint \/ Initialize
  BY <1>11, WriteEnvIInv, GenerateIInv, InitializeIInv
<1>12. CASE Finish \/ Close \/ Abort
  BY <1>12, FinishIInv, CloseIInv, AbortIInv
<1>13. ASSUME NEW p \in Runtimes,
              \/ \E w \in Workspaces : Launch(p, w)
              \/ AcquireInstance(p) \/ BuildAgent(p) \/ StartAgent(p) \/ StartFails(p)
              \/ \E c \in {"restart", "close"} : Press(p, c)
              \/ Checked(p) \/ TakeCommand(p)
              \/ \E raises \in BOOLEAN : StopForRestart(p, raises)
              \/ StopAgent(p) \/ ReleaseInstance(p) \/ Die(p)
       PROVE  IInv'
  BY <1>13, RunIInv
<1> QED
  BY <1>1, <1>2, <1>3, <1>4, <1>5, <1>6, <1>7, <1>8, <1>9, <1>10, <1>11, <1>12, <1>13 DEF Next

\* The inductive invariant holds of every reachable state.
THEOREM Inductive == Spec => []IInv
BY InitIInv, NextIInv, PTL DEF Spec

\* The installer's state keeps its types.
THEOREM TypeCorrect == Spec => []TypeOK
<1>1. IInv => TypeOK
  BY DEF IInv
<1> QED
  BY <1>1, Inductive, PTL

\* However many programs are launched, restarted, fail or are killed, two of them
\* never have an agent for one workspace between its construction and the release of
\* the mutex; where two agents are at work there, one is the installer's --initialize.
THEOREM OneProgram == Spec => []OneProgramPerWorkspace
<1>1. IInv => OneProgramPerWorkspace
  <2> SUFFICES ASSUME IInv, NEW w \in Workspaces, NEW p \in Agents(w), NEW q \in Agents(w),
                      p # "installer", q # "installer"
               PROVE  p = q
    BY DEF OneProgramPerWorkspace
  <2>1. /\ p \in Runtimes /\ phase[p] \in Owning /\ place[p] = w
        /\ q \in Runtimes /\ phase[q] \in Owning /\ place[q] = w
    BY DEF Agents, IInv, TypeOK, Phases
  <2> QED
    BY <2>1 DEF IInv, OwnersHold
<1> QED
  BY <1>1, Inductive, PTL

\* Whatever installations came before, completed or not, a workspace whose
\* entrypoint.py is not older than its .env configures an agent with the selection
\* both were last written for, and that selection is complete.
THEOREM SelectionHolds == Spec => []SelectionIsInEffect
<1>1. IInv => SelectionIsInEffect
  <2> SUFFICES ASSUME IInv, NEW w \in Workspaces, entry[w] # None, ~torn[w]
               PROVE  LET c == chosen[w] IN
                      /\ \A f \in Fields : c[f] # None
                      /\ Configured(w) =
                           [apiBase |-> c.apiBase, token |-> c.token, protocol |-> c.protocol,
                            model |-> c.model,
                            field |-> IF c.tokenEnv = "ANTHROPIC_API_KEY"
                                      THEN "anthropic_api_key" ELSE "openai_api_key"]
    BY DEF SelectionIsInEffect
  <2>1. /\ \A f \in Fields : chosen[w][f] # None
        /\ entry[w] = Rendered(chosen[w])
        /\ Serves(env[w], chosen[w])
    BY DEF IInv, FilesAgree
  <2> QED
    BY <2>1 DEF Configured, Rendered, Serves
<1> QED
  BY <1>1, Inductive, PTL

\* An administrator whose password nobody has seen is the work of an installation
\* that cleared the data or broke off, or of a launched program that has written its own
\* password over another one, however the statements of their init_db interleave; but
\* for such a program, one that ends well on an empty workspace has shown the password
\* that is in the database.
THEOREM PasswordShown == Spec => []PasswordIsShown
<1>1. IInv => PasswordIsShown
  <2> SUFFICES ASSUME IInv PROVE PasswordIsShown
    OBVIOUS
  <2>1. session.stage = "done" /\ ~session.preserve =>
          known[session.workspace] \/ replaced[session.workspace]
    BY Placed DEF IInv, Accounts
  <2>2. \A w \in Workspaces : session.workspace # w /\ admin[w] # None /\ ~known[w] =>
          failed[w] \/ replaced[w]
    BY DEF IInv, Accounts, Accounted
  <2> QED
    BY <2>1, <2>2 DEF PasswordIsShown
<1> QED
  BY <1>1, Inductive, PTL
==============================================================================
