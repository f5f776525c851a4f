------------------------------- MODULE Wizard -------------------------------
(***************************************************************************)
(* The set-up screen (ui/startup.go): a splash, then a walk through menus  *)
(* that picks a provider, a model and the settings of the agent.           *)
(*                                                                         *)
(* A menu has a cursor (from 0, as in the code), a window of Visible lines *)
(* and, where the code has one, a filter that is typed.  Letters stand for *)
(* the characters a name is made of.  What is typed into a field is taken  *)
(* together when Enter ends it: nothing else is looked at before.          *)
(***************************************************************************)
EXTENDS Integers, Sequences, FiniteSets, SequencesExt

CONSTANTS
  Groups,        \* provider groups: [name, key, auths, models, categories]
  Fields,        \* the settings: [name, kind], in the order of configFields
  Pickers,       \* indices of settings for which Enter opens the model picker
  Options,       \* values of the settings of kind "cycle", in order
  Saved,         \* the settings of config.json
  Visible,       \* visibleItems
  Letters,       \* what a filter is typed from
  MaxFilter      \* bound: letters typed into a filter

\* ModelChoice, ModelCategory and ProviderGroup; `of` is the key of a model's
\* provider, which the model picker looks up.
Model == [name : Seq(STRING), id : STRING, of : STRING, sized : BOOLEAN]
Category == [name : Seq(STRING), models : Seq(Model)]
Group == [name : Seq(STRING), key : STRING, auths : Nat,
          categories : Seq(Category), models : Seq(Model)]

ASSUME WizardAssumption ==
  /\ Groups \in Seq(Group)
  /\ Len(Fields) \in Nat
  /\ \A i \in 1..Len(Fields) : Fields[i].name = "window" => Fields[i].kind = "int"
  /\ Pickers \subseteq 0..(Len(Fields) - 1)
  /\ "window" \in DOMAIN Saved
  /\ Visible \in Nat \ {0}

VARIABLES
  screen,        \* "splash", "setup", then those of Launch
  setup          \* the setupModel

Nil == [nil |-> TRUE]

\* What is saved, but for the window: that is looked up for each model.
SavedOverrides == [Saved EXCEPT !.window = "auto"]

\* newSetupModel
NewSetup ==
  [phase |-> "main", cursor |-> 0, scroll |-> 0, filter |-> <<>>,
   group |-> 0, category |-> 0,          \* selected, 0 for nil
   input |-> "off",                      \* inputMode and inputStep
   editing |-> FALSE,
   overrides |-> Nil, field |-> 0,       \* field: modelPickerField
   provider |-> "", model |-> ""]

Filterable == {"provider", "category", "model", "picker"}

-----------------------------------------------------------------------------
\* What the menus hold.

CurrentModels(s) ==
  IF s.category # 0 THEN Groups[s.group].categories[s.category].models
  ELSE IF s.group # 0 THEN Groups[s.group].models ELSE <<>>

\* buildModelPickerItems: "none", then the models of every known provider.
PickerItems ==
  LET entry(g, m) == IF g.key = "" \/ m.id = "" THEN <<>> ELSE <<[m EXCEPT !.of = g.key]>>
      entries(g, models) == FlattenSeq([i \in DOMAIN models |-> entry(g, models[i])])
      ofGroup(g) == entries(g, g.models) \o
        FlattenSeq([c \in DOMAIN g.categories |-> entries(g, g.categories[c].models)])
  IN <<[name |-> <<>>, id |-> "", of |-> "", sized |-> FALSE]>>
       \o FlattenSeq([i \in DOMAIN Groups |-> ofGroup(Groups[i])])

Items(s) ==
  CASE s.phase = "provider" -> Groups
    [] s.phase = "category" -> Groups[s.group].categories
    [] s.phase = "model" -> CurrentModels(s)
    [] OTHER -> PickerItems

\* filteredIndices: the places of the items whose name has the filter in it.
FilteredItems(s) ==
  {i \in DOMAIN Items(s) : s.filter = <<>> \/ s.filter \in SubSeqs(Items(s)[i].name)}

MenuLen(s) ==
  CASE s.phase \in Filterable -> Cardinality(FilteredItems(s))
    [] s.phase = "main" -> 2
    [] s.phase = "auth" -> Groups[s.group].auths
    [] s.phase = "mode" -> 3
    [] s.phase = "settings" -> Len(Fields) + 1

\* resolveFilteredIndex: the place in the full list of what the cursor is on;
\* its first place when the filter leaves nothing.  A negative one is the
\* cursor's own, and the program fails on it.
Resolved(s) ==
  IF s.filter = <<>> \/ s.cursor < 0 THEN s.cursor + 1
  ELSE IF s.cursor < MenuLen(s)
  THEN CHOOSE i \in FilteredItems(s) : Cardinality({j \in FilteredItems(s) : j < i}) = s.cursor
  ELSE 1

-----------------------------------------------------------------------------
\* Moving about.

ClampScrollOffset(cursor, scroll, total) ==
  IF total <= Visible THEN 0
  ELSE IF cursor < scroll THEN cursor
  ELSE IF cursor >= scroll + Visible THEN cursor - Visible + 1
  ELSE scroll

MoveTo(s, cursor) ==
  [s EXCEPT !.cursor = cursor, !.scroll = ClampScrollOffset(cursor, s.scroll, MenuLen(s))]

Top(s) == [s EXCEPT !.cursor = 0, !.scroll = 0]
GoTo(s, phase) == [Top(s) EXCEPT !.phase = phase]

InMenu == screen = "setup" /\ setup.input = "off" /\ ~setup.editing
At(phase) == InMenu /\ setup.phase = phase

\* From the list of settings: another value, or the model picker.
Kind(i) == Fields[i + 1].kind
Name(i) == Fields[i + 1].name

GetValue(s, i) == s.overrides[Name(i)]
SetValue(s, i, value) == [s EXCEPT !.overrides = [@ EXCEPT ![Name(i)] = value]]

\* setValue of a setting that is no string: what does not parse is 0 or false.
Parsed(i, value) ==
  CASE Kind(i) = "int" -> IF value = "number" THEN value ELSE "auto"
    [] Kind(i) = "bool" -> "off"
    [] OTHER -> value

ToggleBool(s, i) == SetValue(s, i, IF GetValue(s, i) = "on" THEN "off" ELSE "on")

CycleOption(s, i, dir) ==
  LET at == {k \in DOMAIN Options : Options[k] = GetValue(s, i)}
      pos == IF at = {} THEN 1 ELSE CHOOSE k \in at : \A j \in at : k <= j
  IN SetValue(s, i, Options[((pos - 1 + dir) % Len(Options)) + 1])

-----------------------------------------------------------------------------
\* Keys.

Splash == screen = "splash" /\ screen' = "setup" /\ UNCHANGED setup

Up ==
  /\ InMenu
  /\ setup' = MoveTo(setup, IF setup.cursor > 0 THEN setup.cursor - 1 ELSE MenuLen(setup) - 1)
  /\ UNCHANGED screen

Down ==
  /\ InMenu
  /\ setup' = MoveTo(setup, IF setup.cursor < MenuLen(setup) - 1 THEN setup.cursor + 1 ELSE 0)
  /\ UNCHANGED screen

\* A changed filter starts the list from its top.  Mutant: the cursor stays.
TypedStay(s, filter) == [s EXCEPT !.filter = filter]
Typed(s, filter) == [Top(s) EXCEPT !.filter = filter]

Type(letter) ==
  /\ InMenu /\ setup.phase \in Filterable
  /\ Len(setup.filter) < MaxFilter
  /\ setup' = Typed(setup, Append(setup.filter, letter))
  /\ UNCHANGED screen

Backspace ==
  /\ InMenu /\ setup.filter # <<>>
  /\ setup' = Typed(setup, Front(setup.filter))
  /\ UNCHANGED screen

\* left and right
Turn(dir) ==
  /\ At("settings") /\ setup.cursor < Len(Fields)
  /\ \/ Kind(setup.cursor) = "cycle" /\ setup' = CycleOption(setup, setup.cursor, dir)
     \/ Kind(setup.cursor) = "bool" /\ setup' = ToggleBool(setup, setup.cursor)
  /\ UNCHANGED screen

\* esc: the filter goes first, then the way back.
\* The picker goes back to its setting; modelPickerField is not read again.
ToSetting(s) ==
  [GoTo(s, "settings") EXCEPT !.cursor = s.field, !.field = 0, !.filter = <<>>]

BeforeModels(s) ==
  GoTo(s, IF s.group # 0 /\ Groups[s.group].auths > 1 THEN "auth" ELSE "provider")

Back(s) ==
  CASE s.phase = "picker" -> ToSetting(s)
    [] s.phase = "settings" -> GoTo(s, "mode")
    [] s.phase = "mode" -> GoTo(s, "model")
    [] s.phase = "model" -> IF s.category # 0 THEN GoTo(s, "category") ELSE BeforeModels(s)
    [] s.phase = "category" -> BeforeModels([s EXCEPT !.category = 0])
    [] s.phase = "auth" -> GoTo(s, "provider")
    [] s.phase = "provider" -> [GoTo(s, "main") EXCEPT !.group = 0]
    [] OTHER -> s

Esc ==
  /\ InMenu
  /\ setup' = IF setup.filter # <<>> THEN Typed(setup, <<>>) ELSE Back(setup)
  /\ UNCHANGED screen

\* The program is left with nothing chosen; what was set stays set.
Quit ==
  /\ screen = "splash" \/ InMenu \/ setup.input # "off"
  /\ screen \in {"splash", "setup"}
  /\ setup' = [setup EXCEPT !.provider = "", !.model = ""]
  /\ screen' = "main"

-----------------------------------------------------------------------------
\* selectItem, by menu.

PickMain ==
  /\ At("main")
  /\ \/ setup.cursor = 0 /\ screen' = "main"
        /\ setup' = [setup EXCEPT !.provider = "", !.model = ""]
     \/ setup.cursor = 1 /\ setup' = GoTo(setup, "provider") /\ UNCHANGED screen

\* nextModelPhase
ToModels(s) == GoTo(s, IF Groups[s.group].categories # <<>> THEN "category" ELSE "model")

Picked(phase) == At(phase) /\ Resolved(setup) \in DOMAIN Items(setup)

PickGroup ==
  /\ Picked("provider")
  /\ LET g == Resolved(setup)
         s == [setup EXCEPT !.filter = <<>>, !.group = g]
     IN setup' = IF Groups[g].key = "" THEN [setup EXCEPT !.filter = <<>>, !.input = "provider"]
                 ELSE IF Groups[g].auths > 1 THEN GoTo(s, "auth")
                 ELSE ToModels(s)
  /\ UNCHANGED screen

PickAuth == At("auth") /\ setup' = ToModels(setup) /\ UNCHANGED screen

PickCategory ==
  /\ Picked("category")
  /\ setup' = [GoTo(setup, "model") EXCEPT !.filter = <<>>, !.category = Resolved(setup)]
  /\ UNCHANGED screen

\* A model takes its window with it when the list knows it.
PickModel ==
  /\ Picked("model")
  /\ LET m == Items(setup)[Resolved(setup)]
     IN setup' = IF m.id = "" THEN [setup EXCEPT !.filter = <<>>, !.input = "model"]
                 ELSE [GoTo(setup, "mode") EXCEPT
                         !.filter = <<>>,
                         !.provider = Groups[setup.group].key, !.model = m.id,
                         !.overrides = IF m.sized THEN [SavedOverrides EXCEPT !.window = m.id] ELSE SavedOverrides]
  /\ UNCHANGED screen

PickMode ==
  /\ At("mode")
  /\ \/ setup.cursor = 0 /\ screen' = "main" /\ setup' = [setup EXCEPT !.overrides = SavedOverrides]
     \/ setup.cursor = 1 /\ screen' = "main" /\ setup' = [setup EXCEPT !.overrides = Nil]
     \/ setup.cursor = 2 /\ UNCHANGED screen
        /\ setup' = [GoTo(setup, "settings") EXCEPT !.overrides = IF @ = Nil THEN SavedOverrides ELSE @]

PickSetting ==
  /\ At("settings")
  /\ LET i == setup.cursor
     IN \/ i = Len(Fields) /\ screen' = "main" /\ UNCHANGED setup
        \/ i \in Pickers /\ UNCHANGED screen
           /\ setup' = [GoTo(setup, "picker") EXCEPT !.field = i, !.filter = <<>>]
        \/ /\ i < Len(Fields) /\ i \notin Pickers /\ UNCHANGED screen
           /\ setup' = CASE Kind(i) = "bool" -> ToggleBool(setup, i)
                         [] Kind(i) = "cycle" -> CycleOption(setup, i, 1)
                         [] OTHER -> [setup EXCEPT !.editing = TRUE]

PickEntry ==
  /\ Picked("picker")
  /\ LET i == setup.field
     IN setup' = SetValue(ToSetting(setup), i, Parsed(i, Items(setup)[Resolved(setup)].id))
  /\ UNCHANGED screen

\* The index is out of the list: the framework ends the program, and
\* RunStartup returns an empty result.
PickNothing ==
  /\ InMenu /\ setup.phase \in Filterable
  /\ Resolved(setup) \notin DOMAIN Items(setup)
  /\ setup' = NewSetup
  /\ screen' = "main"

-----------------------------------------------------------------------------
\* Text: a provider's or a model's name, and the value of a setting.

TextEnter ==
  /\ screen = "setup" /\ setup.input # "off"
  /\ setup' =
       IF setup.input = "provider" THEN [setup EXCEPT !.provider = "typed", !.input = "model"]
       ELSE [GoTo(setup, "mode") EXCEPT
               !.input = "off", !.model = "typed", !.overrides = SavedOverrides,
               !.provider = IF setup.phase = "model" THEN Groups[setup.group].key ELSE @]
  /\ UNCHANGED screen

TextEsc ==
  /\ screen = "setup" /\ setup.input # "off"
  /\ setup' = [setup EXCEPT !.input = "off"]
  /\ UNCHANGED screen

\* handleConfigEdit.  "shown" is the text the field was shown with: a number
\* stays what it was, a string becomes that text.
ConfigEdit(text) ==
  /\ screen = "setup" /\ setup.editing
  /\ LET i == setup.cursor
         s == [setup EXCEPT !.editing = FALSE]
     IN setup' = IF text = "" \/ (text = "shown" /\ Kind(i) = "int") THEN s
                 ELSE SetValue(s, i, Parsed(i, text))
  /\ UNCHANGED screen

WizardNext ==
  \/ Splash \/ Up \/ Down \/ Backspace \/ Esc \/ Quit
  \/ \E letter \in Letters : Type(letter)
  \/ \E dir \in {-1, 1} : Turn(dir)
  \/ PickMain \/ PickGroup \/ PickAuth \/ PickCategory \/ PickModel
  \/ PickMode \/ PickSetting \/ PickEntry \/ PickNothing
  \/ TextEnter \/ TextEsc
  \/ \E text \in {"", "shown", "number", "word"} : ConfigEdit(text)

-----------------------------------------------------------------------------
\* The lines of the list on the screen (renderScrollableItems): from the
\* scroll offset, moved up when they would run past the end.
WindowStart(s) ==
  LET total == MenuLen(s)
  IN IF total <= Visible THEN 0
     ELSE IF s.scroll + Visible > total THEN total - Visible ELSE s.scroll

\* Enter picks a line of the list that the user sees.
PicksShown(s) ==
  /\ s.cursor \in 0..(MenuLen(s) - 1)
  /\ s.cursor \in WindowStart(s)..(WindowStart(s) + Visible - 1)

\* It picks what may not be on the screen: after the model picker the list is shown
\* from its top, wherever the setting is that the cursor returns to; and with a
\* filter that leaves nothing, the first item of the full list is picked.
PicksUnseen(s) ==
  \/ s.phase = "settings" /\ s.cursor \in Pickers /\ s.scroll = 0
  \/ MenuLen(s) = 0 /\ s.cursor = 0 /\ Items(s) # <<>>

\* It ends the screen with a failure: Up was pressed on a list without a line, or
\* there is nothing to list at all.
PicksNowhere(s) ==
  /\ MenuLen(s) = 0
  /\ \/ s.cursor = -1
     \/ s.cursor = 0 /\ Items(s) = <<>>

\* What Enter does is one of these, whatever was typed, taken back and walked
\* through before: the cursor is off the list only while the list is empty, and the
\* next change of the filter brings it back (startup.go:1202-1263, 1331-1345,
\* 1580-1606, 1856-1858).
EnterPicks == InMenu => PicksShown(setup) \/ PicksUnseen(setup) \/ PicksNowhere(setup)
=============================================================================
