------------------------------- MODULE Launch -------------------------------
(***************************************************************************)
(* The start of the program (cmd/main.go): config.json is read, the set-up *)
(* screen may choose a provider and a model, which are saved; the sizes of *)
(* the model are looked up, what the user set comes over them, and a key   *)
(* is found or a sign-in made.  Then the program runs, ends and is started *)
(* again, perhaps for another choice.                                      *)
(*                                                                         *)
(* A context window is named for where it comes from: "file", the number   *)
(* that config.json has; "number", the user's; else the model it is of.    *)
(***************************************************************************)
EXTENDS Wizard

CONSTANTS
  Files,         \* config.json before the first start: [provider, model, window]
  Listed         \* models the registry (OpenRouter) tells the size of

ASSUME LaunchAssumption ==
  \A f \in Files : DOMAIN f = {"provider", "model", "window"} /\ f.window = "file"

VARIABLES
  file,          \* config.json
  known,         \* models.json: models of known size
  config         \* cfg.Agent of the running program

launchVars == <<file, known, config>>

LaunchInit ==
  /\ screen = "off"
  /\ setup = NewSetup
  /\ file \in Files
  /\ known = {}
  /\ config = file

\* main, up to RunStartup: --no-setup and the other channels skip the screen.
Start ==
  /\ screen = "off"
  /\ config' = file
  /\ setup' = NewSetup
  /\ screen' \in {"splash", "main"}
  /\ UNCHANGED <<file, known>>

-----------------------------------------------------------------------------
\* The choice is written to config.json before anything is looked up, so the
\* file keeps its own window.  Mutant: the file is written afterwards.
Chosen(cfg) ==
  IF setup.provider = "" THEN cfg
  ELSE [cfg EXCEPT !.provider = setup.provider, !.model = setup.model]
SavedLate(cfg, sized) == sized
SavedConfig(cfg, sized) == Chosen(cfg)

\* ResolveModelInfo: models.json, then the registry, which may not answer; what
\* it tells is kept in models.json.
FetchModelInfo(model, answers) == answers /\ model \in Listed

ResolveModelInfo(cfg, answers) ==
  IF cfg.model \in known \/ FetchModelInfo(cfg.model, answers)
  THEN [cfg EXCEPT !.window = cfg.model] ELSE cfg

SaveModelsCache(cfg) == IF cfg.window = cfg.model THEN known \union {cfg.model} ELSE known

\* The settings of the screen come last; a window of 0 is no setting.
Override(cfg) ==
  IF setup.overrides = Nil \/ setup.overrides.window = "auto" THEN cfg
  ELSE [cfg EXCEPT !.window = setup.overrides.window]

Configure ==
  /\ screen = "main"
  /\ \E answers, written \in BOOLEAN :
       LET cfg == Chosen(config)
           sized == ResolveModelInfo(cfg, answers)
       IN /\ file' = IF setup.provider # "" /\ written THEN SavedConfig(config, sized) ELSE file
          /\ IF cfg.provider = "" \/ cfg.model = ""
             THEN screen' = "off" /\ setup' = NewSetup /\ config' = file' /\ UNCHANGED known
             ELSE /\ screen' = "key"
                  /\ config' = Override(sized)
                  /\ known' = SaveModelsCache(sized)
                  /\ UNCHANGED setup

\* What ends keeps nothing but its files.
End == screen' = "off" /\ setup' = NewSetup /\ config' = file

\* A key from the environment, a stored or a new sign-in, or the end.
SignIn ==
  /\ screen = "key"
  /\ \/ screen' = "agent" /\ UNCHANGED <<setup, config>>
     \/ End
  /\ UNCHANGED <<file, known>>

\* The session ends; what it did is not looked at here.
Served ==
  /\ screen = "agent"
  /\ End
  /\ UNCHANGED <<file, known>>

LaunchNext ==
  \/ Start \/ Configure \/ SignIn \/ Served
  \/ WizardNext /\ UNCHANGED launchVars

-----------------------------------------------------------------------------
\* The agent never works with the context window of another model: its window
\* is its model's, the user's or the file's own.  The one way out is a choice
\* that was begun and given up: the settings of the model looked at are then
\* set over the configuration that is kept.
GivenUp == setup.provider = "" /\ setup.overrides # Nil

OwnWindow ==
  screen = "agent" /\ ~GivenUp => config.window \in {"file", "number", config.model}
=============================================================================
