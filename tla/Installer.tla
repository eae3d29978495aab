------------------------------ MODULE Installer ------------------------------
(***************************************************************************)
(* The Windows installer and the program it leaves behind: the dialog of   *)
(* bootstrap.py, the two files it writes (.commamatrix/.env and            *)
(* entrypoint.py), the first start that creates the administrator, and the *)
(* runs of entrypoint.py, of which only one at a time may own a workspace. *)
(* An installation may be cancelled, fail or be killed at every step, and  *)
(* a killed process leaves what it has written.                            *)
(*                                                                         *)
(* Left out: the wording, the language, the values of host and port, the   *)
(* download of the libraries, icons, logs and the update notice.           *)
(***************************************************************************)
EXTENDS Naturals, Sequences, FiniteSets, Functions, TLC

CONSTANTS
  None,          \* Python's None, and a value that was never set
  Workspaces,    \* directories a person may install to
  DefaultWorkspace,
  RawProviders,  \* the entries of providers.json, complete or not
  Bases,         \* API bases a person types
  Tokens,        \* access tokens a person types
  Models,        \* model names a person types
  Runtimes,      \* processes that may run entrypoint.py
  MaxInstalls    \* bound: installations begun

ASSUME InstallerAssumption ==
  /\ DefaultWorkspace \in Workspaces
  /\ None \notin Workspaces \union Runtimes \union Bases \union Tokens \union Models
  /\ DOMAIN RawProviders \subseteq Nat
  /\ \A i \in DOMAIN RawProviders : RawProviders[i].apiEnv # RawProviders[i].tokenEnv
  /\ MaxInstalls \in Nat

\* _parse_providers: an entry without one of its required texts is skipped.
Complete(raw) == \A f \in {"apiBase", "apiEnv", "tokenEnv", "protocol"} : raw[f] # None
Providers == Restrict(RawProviders, {i \in DOMAIN RawProviders : Complete(RawProviders[i])})
Defaults == {i \in DOMAIN Providers : Providers[i].default}

CustomTokenEnvs == <<"OPENAI_API_KEY", "ANTHROPIC_API_KEY">>
Protocols == {"chat_completions", "responses", "anthropic_messages"}
EnvNames == {"LLM_API_BASE"} \union Range(CustomTokenEnvs)
              \union UNION {{p.apiEnv, p.tokenEnv} : p \in Range(Providers)}

ASSUME NamesAssumption ==
  None \notin {"basic", "advanced", "LLM_API_BASE", "installer", "program"}
                \union Range(CustomTokenEnvs) \union Protocols

Fields == {"apiBase", "apiEnv", "tokenEnv", "protocol", "model", "token"}
NoFields == [f \in Fields |-> None]

VARIABLES
  env,       \* .commamatrix/.env of every workspace: a value for each name
  entry,     \* entrypoint.py: what was written into the template, or None
  dir,       \* .commamatrix has entries, of whatever kind
  admin,     \* whose password the administrator in the database has, or None
  shortcut,  \* the workspace the shortcut on the desktop starts, or None
  session,   \* the installation in progress: stage, mode, workspace, selection
  installs,  \* installations begun
  phase,     \* what every process that runs entrypoint.py is doing
  place,     \* the workspace it was launched from
  mutex,     \* the process that holds a workspace's named mutex, or None
  command,   \* the first command of its tray menu, or None
  chosen,    \* history: the selection both files were last written for
  torn,      \* history: .env has changed since entrypoint.py was written
  known,     \* history: the administrator's password was shown
  failed,    \* history: an installation cleared the data or broke off, and none has
             \* shown a password since
  replaced   \* history: a program has replaced the administrator's password

disk == <<env, entry, dir, admin, shortcut>>
runs == <<phase, place, mutex, command>>
history == <<chosen, torn, known, failed, replaced>>
vars == <<disk, session, installs, runs, history>>

NoEnv == [n \in EnvNames |-> None]
NoSession == [stage |-> "idle", mode |-> None, workspace |-> None, preserve |-> FALSE,
              created |-> FALSE, sel |-> NoFields]

Init ==
  /\ env = [w \in Workspaces |-> NoEnv]
  /\ entry = [w \in Workspaces |-> None]
  /\ dir = [w \in Workspaces |-> FALSE]
  /\ admin = [w \in Workspaces |-> None]
  /\ shortcut = None
  /\ session = NoSession
  /\ installs = 0
  /\ phase = [p \in Runtimes |-> "off"]
  /\ place = [p \in Runtimes |-> None]
  /\ mutex = [w \in Workspaces |-> None]
  /\ command = [p \in Runtimes |-> None]
  /\ chosen = [w \in Workspaces |-> None]
  /\ torn = [w \in Workspaces |-> FALSE]
  /\ known = [w \in Workspaces |-> FALSE]
  /\ failed = [w \in Workspaces |-> FALSE]
  /\ replaced = [w \in Workspaces |-> FALSE]

---------------------------------------------------------------------------
(* What a dialog finds in a workspace *)

\* The first provider of the list whose base is in .env; or else a custom one,
\* of which .env does not say the protocol or the model.
SavedIn(values) ==
  LET fits == {i \in DOMAIN Providers : values[Providers[i].apiEnv] # None}
      keys == {i \in DOMAIN CustomTokenEnvs : values[CustomTokenEnvs[i]] # None}
      Least(S) == CHOOSE i \in S : \A j \in S : i <= j
      Found(apiEnv, tokenEnv, provider) ==
        [apiBase |-> values[apiEnv], apiEnv |-> apiEnv, tokenEnv |-> tokenEnv,
         token |-> values[tokenEnv], provider |-> provider]
  IN IF fits # {}
     THEN LET p == Providers[Least(fits)] IN Found(p.apiEnv, p.tokenEnv, p)
     ELSE IF values["LLM_API_BASE"] # None /\ keys # {}
          THEN Found("LLM_API_BASE", CustomTokenEnvs[Least(keys)], None)
          ELSE None

Saved(w, keep) == IF keep THEN SavedIn(env[w]) ELSE None

\* The selection of the basic mode, complete but for a token that is not saved.
BasicSelection(saved) ==
  LET default == Providers[CHOOSE i \in Defaults : TRUE]
      provider == IF saved # None /\ saved.provider # None THEN saved.provider ELSE default
      source == IF saved # None THEN saved ELSE provider
  IN [apiBase |-> source.apiBase, apiEnv |-> source.apiEnv, tokenEnv |-> source.tokenEnv,
      token |-> IF saved # None THEN saved.token ELSE None, protocol |-> provider.protocol,
      model |-> IF provider.model # None THEN provider.model ELSE default.model]

\* What a saved configuration puts into the answers of the advanced mode.
AdvancedFrom(saved) ==
  [apiBase |-> saved.apiBase, apiEnv |-> saved.apiEnv, tokenEnv |-> saved.tokenEnv,
   token |-> saved.token,
   protocol |-> IF saved.provider # None THEN saved.provider.protocol ELSE "chat_completions",
   model |-> IF saved.provider # None THEN saved.provider.model ELSE None]

\* The session once the workspace w and what becomes of its data are settled. The
\* basic mode fails where neither provider names a model.
Settled(s, w, saved, keep) ==
  LET placed == [s EXCEPT !.workspace = w, !.preserve = keep] IN
  IF s.mode = "basic"
  THEN LET sel == BasicSelection(saved)
       IN [placed EXCEPT !.sel = sel, !.stage = CASE sel.model = None -> "fails"
                                                  [] sel.model # None /\ sel.token = None -> "token"
                                                  [] OTHER -> "write"]
  ELSE IF saved = None
       THEN [placed EXCEPT !.stage = "provider"]
       ELSE [placed EXCEPT !.sel = AdvancedFrom(saved),
                           !.stage = IF saved.token = None THEN "token" ELSE "model"]

Arrive(s, w) ==
  IF dir[w] THEN [s EXCEPT !.stage = "policy", !.workspace = w]
                ELSE Settled(s, w, None, FALSE)

Asked(stage) == session.stage = stage
Answered(stage, answers) ==
  [session EXCEPT !.stage = stage,
                  !.sel = [f \in Fields |-> IF f \in DOMAIN answers THEN answers[f] ELSE @[f]]]
Dialog == UNCHANGED <<disk, installs, runs, history>>

---------------------------------------------------------------------------
(* The dialog *)

\* install.ps1 refuses to begin while a process runs the entrypoint.py of the
\* default workspace or of the shortcut; one of another workspace it does not see.
\* The basic mode needs exactly one default provider.
Begin(mode) ==
  /\ Asked("idle") /\ installs < MaxInstalls
  /\ \A p \in Runtimes : phase[p] = "off" \/ place[p] \notin {DefaultWorkspace, shortcut}
  /\ installs' = installs + 1
  /\ LET s == [NoSession EXCEPT !.mode = mode] IN
     \/ /\ mode = "basic" /\ Cardinality(Defaults) = 1
        /\ session' = Arrive(s, DefaultWorkspace)
     \/ /\ mode = "advanced"
        /\ session' = [s EXCEPT !.stage = "workspace"]
  /\ UNCHANGED <<disk, runs, history>>

ChooseWorkspace(w) ==
  /\ Asked("workspace")
  /\ session' = Arrive(session, w)
  /\ Dialog

KeepData ==
  /\ Asked("policy")
  /\ LET w == session.workspace IN session' = Settled(session, w, Saved(w, TRUE), TRUE)
  /\ Dialog

\* A program that has read its database holds the file open.
Holding(w) ==
  \E p \in Runtimes :
    place[p] = w /\ phase[p] \in {"looking", "inserting", "updating", "checking", "waiting"}

\* The data goes at once, whatever the rest of the dialog brings.
ClearData ==
  LET w == session.workspace IN
  /\ Asked("policy")
  /\ ~Holding(w)
  /\ env' = [env EXCEPT ![w] = NoEnv]
  /\ dir' = [dir EXCEPT ![w] = FALSE]
  /\ admin' = [admin EXCEPT ![w] = None]
  /\ session' = Settled(session, w, None, FALSE)
  /\ torn' = [torn EXCEPT ![w] = TRUE]
  /\ known' = [known EXCEPT ![w] = FALSE]
  /\ failed' = [failed EXCEPT ![w] = TRUE]
  /\ UNCHANGED <<entry, shortcut, installs, runs, chosen, replaced>>

\* Windows does not delete a file that a program holds open, its log or its
\* database: rmtree, which goes file by file, raises half-way.
ClearPartly ==
  LET w == session.workspace IN
  /\ Asked("policy")
  /\ \E p \in Runtimes : place[p] = w /\ phase[p] # "acquire"
  /\ \E values \in {env[w], NoEnv}, who \in {admin[w], None} :
       /\ Holding(w) => who = admin[w]
       /\ env' = [env EXCEPT ![w] = values]
       /\ admin' = [admin EXCEPT ![w] = who]
       /\ torn' = [torn EXCEPT ![w] = @ \/ values # env[w]]
       /\ known' = [known EXCEPT ![w] = @ /\ who = admin[w]]
  /\ session' = NoSession
  /\ failed' = [failed EXCEPT ![w] = TRUE]
  /\ UNCHANGED <<entry, dir, shortcut, installs, runs, chosen, replaced>>

ChooseProvider(i) ==
  /\ Asked("provider")
  /\ LET p == Providers[i] IN
     session' = Answered("token", [apiBase |-> p.apiBase, apiEnv |-> p.apiEnv,
                   tokenEnv |-> p.tokenEnv, protocol |-> p.protocol, model |-> p.model])
  /\ Dialog

ChooseCustom ==
  /\ Asked("provider")
  /\ session' = [session EXCEPT !.stage = "protocol"]
  /\ Dialog

ChooseProtocol(protocol) ==
  /\ Asked("protocol")
  /\ session' = Answered("base", [apiEnv |-> "LLM_API_BASE", protocol |-> protocol,
       tokenEnv |-> IF protocol = "anthropic_messages" THEN "ANTHROPIC_API_KEY"
                                                       ELSE "OPENAI_API_KEY"])
  /\ Dialog

TypeBase(b) ==
  /\ Asked("base")
  /\ session' = Answered("token", [apiBase |-> b])
  /\ Dialog

TypeToken(t) ==
  /\ Asked("token")
  /\ session' = Answered(IF session.mode = "basic" THEN "write" ELSE "model", [token |-> t])
  /\ Dialog

\* A text prompt: what is typed, or nothing where there is a default.
Typed(values, default) == values \union ({default} \ {None})

TypeModel(m) ==
  /\ Asked("model")
  /\ m \in Typed(Models, session.sel.model)
  /\ session' = Answered("host", [model |-> m])
  /\ Dialog

ChooseHost == Asked("host") /\ session' = [session EXCEPT !.stage = "port"] /\ Dialog
ChoosePort == Asked("port") /\ session' = [session EXCEPT !.stage = "write"] /\ Dialog

\* "0" at a prompt; the answers already given stay in the state. The prompt for
\* the token has no way back, and at the workspace it cancels the installation.
Previous == [provider |-> "workspace", protocol |-> "provider", base |-> "protocol",
             model |-> "token", host |-> "model", port |-> "host"]
Back ==
  /\ session.stage \in DOMAIN Previous
  /\ session' = [session EXCEPT !.stage = Previous[session.stage]]
  /\ Dialog

---------------------------------------------------------------------------
(* The files and the first start *)

AlreadySavedBase(values, s) == s.preserve /\ values[s.sel.apiEnv] = s.sel.apiBase

AlreadySaved(values, s) ==
  /\ s.preserve
  /\ values[s.sel.apiEnv] = s.sel.apiBase
  /\ values[s.sel.tokenEnv] = s.sel.token

\* The file is written as a whole: names it held besides the two are gone.
WriteEnv ==
  LET w == session.workspace
      s == session.sel
  IN
  /\ Asked("write")
  /\ \/ /\ AlreadySaved(env[w], session)
        /\ UNCHANGED <<env, torn>>
     \/ /\ ~AlreadySaved(env[w], session)
        /\ env' = [env EXCEPT ![w] = [n \in EnvNames |->
                     CASE n = s.tokenEnv -> s.token
                       [] n = s.apiEnv -> s.apiBase
                       [] OTHER -> None]]
        /\ torn' = [torn EXCEPT ![w] = TRUE]
  /\ dir' = [dir EXCEPT ![w] = TRUE]
  /\ session' = [session EXCEPT !.stage = "generate"]
  /\ UNCHANGED <<entry, admin, shortcut, installs, runs, chosen, known, failed, replaced>>

Rendered(s) ==
  [apiEnv |-> s.apiEnv, tokenEnv |-> s.tokenEnv, protocol |-> s.protocol, model |-> s.model,
   tokenField |-> IF s.tokenEnv = "ANTHROPIC_API_KEY" THEN "anthropic_api_key"
                                                      ELSE "openai_api_key"]

GenerateEntrypoint ==
  LET w == session.workspace IN
  /\ Asked("generate")
  /\ entry' = [entry EXCEPT ![w] = Rendered(session.sel)]
  /\ chosen' = [chosen EXCEPT ![w] = session.sel]
  /\ torn' = [torn EXCEPT ![w] = FALSE]
  /\ session' = [session EXCEPT !.stage = "initialize"]
  /\ UNCHANGED <<env, dir, admin, shortcut, installs, runs, known, failed, replaced>>

\* Authorizer.init_db makes an administrator where it finds none, and keeps its
\* password in this process only.  What follows the statement it is at: SELECT of
\* an administrator, SELECT of a user "admin", then UPDATE of that user or, after a
\* check of the name that cannot tell more than the constraint, INSERT of one,
\* which raises where another process has come first.
InitDb(at, w) ==
  CASE at = "looking" -> IF admin[w] = None THEN "inserting" ELSE "updating"
    [] at = "updating" -> "created"
    [] at = "inserting" -> IF admin[w] = None THEN "created" ELSE "raises"
    [] OTHER -> IF admin[w] = None THEN "looking" ELSE "found"

\* init_db has done its statement and goes on with the `next` one.
Stated(w, who, next) ==
  /\ admin' = [admin EXCEPT ![w] = IF next = "created" THEN who ELSE @]
  /\ dir' = [dir EXCEPT ![w] = TRUE]

\* Where --initialize is: at a statement of init_db, or behind them.
Initializing == {"initialize", "looking", "inserting", "updating", "stop"}

\* entrypoint.py --initialize, which takes no mutex: it keeps the password of
\* an administrator it created in the credentials file.
Initialize ==
  LET w == session.workspace
      next == InitDb(session.stage, w)
  IN
  /\ session.stage \in Initializing \ {"stop"}
  /\ next # "raises"
  /\ Stated(w, "installer", next)
  /\ session' = [session EXCEPT !.stage = IF next \in {"found", "created"} THEN "stop" ELSE next,
                                !.created = next = "created"]
  /\ UNCHANGED <<env, entry, shortcut, installs, runs, history>>

\* The agent has stopped, and the installer puts the shortcut on the desktop and
\* shows the password, which serves as long as no other has replaced it.
Shows ==
  LET w == session.workspace
      serves == session.created /\ admin[w] = "installer"
  IN
  /\ known' = [known EXCEPT ![w] = serves \/ (~session.created /\ @)]
  /\ failed' = [failed EXCEPT ![w] = @ /\ ~session.created]
  /\ replaced' = [replaced EXCEPT ![w] = @ /\ ~serves]
  /\ shortcut' = w
  /\ session' = [session EXCEPT !.stage = "done"]
  /\ UNCHANGED <<env, entry, dir, admin, installs, runs, chosen, torn>>

FinishAnyway == Asked("stop") /\ Shows

\* Without a password the installer fails, unless existing data was kept.
Finish ==
  /\ Asked("stop")
  /\ session.created \/ session.preserve
  /\ Shows

Close == Asked("done") /\ session' = NoSession /\ Dialog

\* A cancelled prompt, an error, a kill.
Abort ==
  LET w == session.workspace IN
  /\ session.stage \notin {"idle", "done"}
  /\ session' = NoSession
  /\ failed' = [x \in Workspaces |-> failed[x] \/ x = w]
  /\ UNCHANGED <<disk, installs, runs, chosen, torn, known, replaced>>

---------------------------------------------------------------------------
(* Runs of entrypoint.py *)

Goes(p, from, to) ==
  /\ phase[p] = from
  /\ phase' = [phase EXCEPT ![p] = to]
Still ==
  UNCHANGED <<env, entry, shortcut, session, installs, chosen, torn, failed>>
Quiet == Still /\ UNCHANGED <<dir, admin, known, replaced>>

Launch(p, w) ==
  /\ entry[w] # None
  /\ Goes(p, "off", "acquire")
  /\ place' = [place EXCEPT ![p] = w]
  /\ Quiet /\ UNCHANGED <<mutex, command>>

\* The process ends; Windows closes what handles it has left.
Gone(p) ==
  /\ phase' = [phase EXCEPT ![p] = "off"]
  /\ place' = [place EXCEPT ![p] = None]
  /\ command' = [command EXCEPT ![p] = None]
  /\ mutex' = [w \in Workspaces |-> IF mutex[w] = p THEN None ELSE mutex[w]]

AcquireInstance(p) ==
  \/ /\ Goes(p, "acquire", "build")
     /\ mutex[place[p]] = None
     /\ mutex' = [mutex EXCEPT ![place[p]] = p]
     /\ Quiet /\ UNCHANGED <<place, command>>
  \/ /\ phase[p] = "acquire" /\ mutex[place[p]] # None
     /\ Gone(p) /\ Quiet

\* _build_agent, which makes the folder of the logs; where it raises, after five
\* attempts at missing libraries, nothing but the end of the process releases the
\* mutex (see Die).
BuildAgent(p) ==
  /\ Goes(p, "build", "starting")
  /\ dir' = [dir EXCEPT ![place[p]] = TRUE]
  /\ Still /\ UNCHANGED <<admin, known, replaced, place, mutex, command>>

\* agent.start(), at one of the statements of init_db.
Starting == {"starting", "looking", "inserting", "updating"}

StartAgent(p) ==
  LET w == place[p]
      next == InitDb(phase[p], w)
      over == next = "created" /\ admin[w] # None
  IN
  /\ phase[p] \in Starting
  /\ Goes(p, phase[p], CASE next \in {"found", "created"} -> "checking"
                          [] next = "raises" -> "release"
                          [] OTHER -> next)
  /\ Stated(w, "program", next)
  /\ known' = [known EXCEPT ![w] = @ /\ ~over]
  /\ replaced' = [replaced EXCEPT ![w] = @ \/ over]
  /\ Still /\ UNCHANGED <<place, mutex, command>>

\* started is still False: nothing stops what the agent has started.
StartFails(p) ==
  /\ phase[p] \in Starting
  /\ Goes(p, phase[p], "release")
  /\ Quiet /\ UNCHANGED <<place, mutex, command>>

\* From the tray's thread, by call_soon_threadsafe; only the first one counts.
Press(p, c) ==
  /\ phase[p] \in {"checking", "waiting"} /\ command[p] = None
  /\ command' = [command EXCEPT ![p] = c]
  /\ Quiet /\ UNCHANGED <<phase, place, mutex>>

\* _check_for_update raises nothing; commands wait for it.
Checked(p) ==
  /\ Goes(p, "checking", "waiting")
  /\ Quiet /\ UNCHANGED <<place, mutex, command>>

TakeCommand(p) ==
  /\ command[p] # None
  /\ Goes(p, "waiting", IF command[p] = "restart" THEN "stopping" ELSE "unwinding")
  /\ Quiet /\ UNCHANGED <<place, mutex, command>>

StopForRestartReleasing(p, raises) ==
  /\ Goes(p, "stopping", IF raises THEN "unwinding" ELSE "release")
  /\ command' = [command EXCEPT ![p] = IF raises THEN "close" ELSE @]
  /\ mutex' = [mutex EXCEPT ![place[p]] = None]
  /\ Quiet /\ UNCHANGED place

\* agent.stop() for a restart; where it raises, the finally block stops again.
StopForRestart(p, raises) ==
  /\ Goes(p, "stopping", IF raises THEN "unwinding" ELSE "release")
  /\ command' = [command EXCEPT ![p] = IF raises THEN "close" ELSE @]
  /\ Quiet /\ UNCHANGED <<place, mutex>>

StopAgent(p) ==
  /\ Goes(p, "unwinding", "release")
  /\ Quiet /\ UNCHANGED <<place, mutex, command>>

\* _release_instance; then os.execv of the same file, or the end.
ReleaseInstance(p) ==
  /\ phase[p] = "release"
  /\ IF command[p] = "restart"
     THEN /\ phase' = [phase EXCEPT ![p] = "acquire"]
          /\ mutex' = [mutex EXCEPT ![place[p]] = None]
          /\ command' = [command EXCEPT ![p] = None]
          /\ UNCHANGED place
     ELSE Gone(p)
  /\ Quiet

\* The process is killed, or an exception leaves main().
Die(p) == phase[p] # "off" /\ Gone(p) /\ Quiet

Next ==
  \/ \E mode \in {"basic", "advanced"} : Begin(mode)
  \/ \E w \in Workspaces : ChooseWorkspace(w)
  \/ KeepData \/ ClearData \/ ClearPartly \/ ChooseCustom \/ ChooseHost \/ ChoosePort \/ Back
  \/ \E i \in DOMAIN Providers : ChooseProvider(i)
  \/ \E protocol \in Protocols : ChooseProtocol(protocol)
  \/ \E b \in Bases : TypeBase(b)
  \/ \E t \in Tokens : TypeToken(t)
  \/ \E m \in Typed(Models, session.sel.model) : TypeModel(m)
  \/ WriteEnv \/ GenerateEntrypoint \/ Initialize \/ Finish \/ Close \/ Abort
  \/ \E p \in Runtimes :
       \/ \E w \in Workspaces : Launch(p, w)
       \/ AcquireInstance(p) \/ BuildAgent(p) \/ StartAgent(p) \/ StartFails(p)
       \/ \E c \in {"restart", "close"} : Press(p, c)
       \/ Checked(p) \/ TakeCommand(p)
       \/ \E raises \in BOOLEAN : StopForRestart(p, raises)
       \/ StopAgent(p) \/ ReleaseInstance(p) \/ Die(p)

Spec == Init /\ [][Next]_vars

---------------------------------------------------------------------------
(* Properties *)

\* The configuration _build_agent hands to an agent of workspace w.
Configured(w) ==
  [apiBase |-> env[w][entry[w].apiEnv], token |-> env[w][entry[w].tokenEnv],
   field |-> entry[w].tokenField, protocol |-> entry[w].protocol, model |-> entry[w].model]

\* The two files of an installed workspace are of one selection, the one the
\* person ended with: an agent that starts there gets that base, token, protocol
\* and model, however many installations, kept data, steps back and cancelled
\* dialogs came before. Only while .env is newer than entrypoint.py (the data was
\* cleared, or the installation ended between the two files) may they disagree.
SelectionIsInEffect ==
  \A w \in Workspaces : entry[w] # None /\ ~torn[w] =>
    LET c == chosen[w] IN
    /\ \A f \in Fields : c[f] # None
    /\ Configured(w) = [apiBase |-> c.apiBase, token |-> c.token, protocol |-> c.protocol,
                        model |-> c.model,
                        field |-> IF c.tokenEnv = "ANTHROPIC_API_KEY"
                                  THEN "anthropic_api_key" ELSE "openai_api_key"]

\* A password that exists was shown: an installation of an empty workspace ends
\* well only if it created the administrator, and the password it shows is the one
\* in the database, also where launched programs make an administrator at the same
\* time; and where no installation is at work, a password nobody has seen means that
\* one of them cleared the data or broke off and did not come to its end.  Either way
\* but for `replaced`: a program that had read that there is no administrator has
\* written its own password over the one that was there by then.
PasswordIsShown ==
  /\ session.stage = "done" /\ ~session.preserve =>
       known[session.workspace] \/ replaced[session.workspace]
  /\ \A w \in Workspaces :
       session.workspace # w /\ admin[w] # None /\ ~known[w] => failed[w] \/ replaced[w]

\* The processes that have an agent for a workspace, from its construction to the
\* release of the mutex: launched programs, and the --initialize run.
Agents(w) ==
  {p \in Runtimes : place[p] = w /\ phase[p] \notin {"off", "acquire"}}
    \union {i \in {"installer"} : session.workspace = w /\ session.stage \in Initializing}

\* Of the programs launched in one workspace never two have an agent, through restarts
\* that release the mutex before they take it again, starts that fail, and processes
\* that are killed.  The --initialize run takes no mutex: where two agents are at work
\* in a workspace, one of them is that run's.
OneProgramPerWorkspace ==
  \A w \in Workspaces : \A a, b \in Agents(w) : a = b \/ "installer" \in {a, b}
==============================================================================
