------------------------------ MODULE AppProofs ------------------------------
(***************************************************************************)
(* The set-up screen, the start and the second chat screen, for any        *)
(* providers, models and settings and any number of runs.                  *)
(*                                                                         *)
(* EnterAccounted: what Enter picks is shown, or why it is not.  The       *)
(* inductive invariant says what each menu needs (Shaped) and that the     *)
(* scroll offset and the cursor fit its length (InWindow).  The menus must *)
(* be known to be finite lists, the model picker's too, which is put       *)
(* together from all providers (FlattenType, PickerType).                  *)
(*                                                                         *)
(* WindowOwned: what was set for the window while a model was being chosen *)
(* is of that model (Sourced), and stays so when the choice is made into a *)
(* configuration (LaunchInv).  It rests on the first: a setting is changed *)
(* at the cursor.                                                          *)
(*                                                                         *)
(* AnswersStay: a step that changes the list of messages keeps the answers *)
(* shown.  What comes from a run whose end was shown must not be written   *)
(* to the last message; so the invariant ties the channel the screen reads *)
(* to the run under way and to that message (TuiBInv).                     *)
(***************************************************************************)
EXTENDS App, FiniteSetTheorems, WellFoundedInduction, TLAPS

----------------------------------------------------------------------------
\* Induction over numbers.

LEMMA LessPairs ==
  \A x, y : <<x, y>> \in OpToRel(<, Nat) <=> x \in Nat /\ y \in Nat /\ x < y
  BY DEF OpToRel

\* A set of numbers has a least element.
LEMMA LeastElement ==
  ASSUME NEW T, T \subseteq Nat, T # {}
  PROVE  \E x \in T : \A y \in T : x <= y
<1>1. \E x \in T : \A y \in T : ~ (<<y, x>> \in OpToRel(<, Nat))
  BY NatLessThanWellFounded, WFMin
<1>2. PICK x \in T : \A y \in T : ~ (<<y, x>> \in OpToRel(<, Nat))
  BY <1>1
<1>3. ASSUME NEW y \in T PROVE x <= y
  <2>1. ~ (<<y, x>> \in OpToRel(<, Nat))
    BY <1>2
  <2>2. x \in Nat /\ y \in Nat
    BY Zenon
  <2>3. ~ (y < x)
    BY <2>1, <2>2, LessPairs, Zenon
  <2> QED
    BY <2>2, <2>3
<1> QED
  BY <1>3

\* Complete induction, for a set of numbers.
LEMMA SetInduction ==
  ASSUME NEW S, \A n \in Nat : (\A m \in 0..(n - 1) : m \in S) => n \in S
  PROVE  Nat \subseteq S
<1> DEFINE T == Nat \ S
<1>1. ASSUME T # {} PROVE FALSE
  <2>1. PICK x \in T : \A y \in T : x <= y
    BY <1>1, LeastElement
  <2>2. ASSUME NEW m \in 0..(x - 1) PROVE m \in S
    BY <2>1
  <2> QED
    BY <2>1, <2>2
<1> QED
  BY <1>1

----------------------------------------------------------------------------
\* Lists put together from lists.

\* g joins the first k lists of ss.
Joins(g, k, ss) ==
  g = [i \in 1..k |-> IF i = 1 THEN ss[i] ELSE g[i-1] \o ss[i]]

LEMMA JoinsValue ==
  ASSUME NEW ss, NEW k, NEW g, Joins(g, k, ss), NEW i \in 1..k
  PROVE  g[i] = IF i = 1 THEN ss[i] ELSE g[i-1] \o ss[i]
<1> DEFINE V(j) == IF j = 1 THEN ss[j] ELSE g[j-1] \o ss[j]
<1>1. g = [j \in 1..k |-> V(j)]
  BY Zenon DEF Joins
<1> HIDE DEF V
<1>2. [j \in 1..k |-> V(j)][i] = V(i)
  OBVIOUS
<1>3. g[i] = V(i)
  BY <1>1, <1>2
<1> QED
  BY <1>3 DEF V

LEMMA JoinsExists ==
  ASSUME NEW ss
  PROVE  \A k \in Nat : \E g : Joins(g, k, ss)
<1> DEFINE S == {k \in Nat : \E g : Joins(g, k, ss)}
<1>1. ASSUME NEW k \in Nat, \A i \in 0..(k - 1) : i \in S PROVE k \in S
  <2>1. CASE k = 0
    <3> DEFINE g == [i \in 1..0 |-> ss[i]]
    <3>1. g = [i \in 1..0 |-> IF i = 1 THEN ss[i] ELSE g[i-1] \o ss[i]]
      OBVIOUS
    <3> QED
      BY <2>1, <3>1 DEF Joins
  <2>2. CASE k # 0
    <3>1. k - 1 \in S
      BY <1>1, <2>2
    <3>2. PICK g : Joins(g, k - 1, ss)
      BY <3>1
    <3> DEFINE h == [i \in 1..k |->
                       IF i = k THEN IF k = 1 THEN ss[k] ELSE g[k-1] \o ss[k] ELSE g[i]]
    <3>3. ASSUME NEW i \in 1..k
          PROVE  h[i] = IF i = 1 THEN ss[i] ELSE h[i-1] \o ss[i]
      <4>1. i # 1 => i - 1 \in 1..k /\ i - 1 # k /\ h[i-1] = g[i-1]
        OBVIOUS
      <4>2. i # k => i \in 1..(k - 1)
        OBVIOUS
      <4>3. i # k => g[i] = IF i = 1 THEN ss[i] ELSE g[i-1] \o ss[i]
        BY <3>2, <4>2, JoinsValue
      <4> QED
        BY <4>1, <4>3
    <3>4. h = [i \in 1..k |-> h[i]]
      OBVIOUS
    <3> HIDE DEF h
    <3>5. Joins(h, k, ss)
      BY <3>3, <3>4 DEF Joins
    <3> QED
      BY <3>5
  <2> QED
    BY <2>1, <2>2
<1>2. Nat \subseteq S
  <2> HIDE DEF S
  <2> QED BY <1>1, SetInduction
<1> QED
  BY <1>2

\* FlattenSeq of lists over S is a list over S.
LEMMA FlattenType ==
  ASSUME NEW S, NEW ss \in Seq(Seq(S))
  PROVE  FlattenSeq(ss) \in Seq(S)
<1> DEFINE F == CHOOSE f : f = [i \in 1..Len(ss) |->
                                  IF i = 1 THEN ss[i] ELSE f[i-1] \o ss[i]]
<1>1. CASE Len(ss) = 0
  BY <1>1 DEF FlattenSeq
<1>2. CASE Len(ss) # 0
  <2>1. Joins(F, Len(ss), ss)
    <3>1. \E g : Joins(g, Len(ss), ss)
      <4>1. Len(ss) \in Nat
        OBVIOUS
      <4> QED
        BY <4>1, JoinsExists, Zenon
    <3> QED
      BY <3>1 DEF Joins
  <2>2. FlattenSeq(ss) = F[Len(ss)]
    BY <1>2 DEF FlattenSeq
  <2> HIDE DEF F
  <2> DEFINE T == {i \in Nat : i \in 1..Len(ss) => F[i] \in Seq(S)}
  <2>3. ASSUME NEW i \in Nat, \A j \in 0..(i - 1) : j \in T PROVE i \in T
    <3> SUFFICES ASSUME i \in 1..Len(ss) PROVE F[i] \in Seq(S)
      OBVIOUS
    <3>1. F[i] = IF i = 1 THEN ss[i] ELSE F[i-1] \o ss[i]
      BY <2>1, JoinsValue
    <3>2. ss[i] \in Seq(S)
      OBVIOUS
    <3>3. i # 1 => F[i-1] \in Seq(S)
      BY <2>3
    <3> QED
      BY <3>1, <3>2, <3>3
  <2>4. Nat \subseteq T
    <3> HIDE DEF T
    <3> QED BY <2>3, SetInduction
  <2> QED
    BY <1>2, <2>2, <2>4
<1> QED
  BY <1>1, <1>2

----------------------------------------------------------------------------
\* The menus.

NoModel == [name |-> <<>>, id |-> "", of |-> "", sized |-> FALSE]

\* The model picker offers a list.
LEMMA PickerType == PickerItems \in Seq(Model \cup {NoModel})
<1> DEFINE entry(g, m) == IF g.key = "" \/ m.id = "" THEN <<>> ELSE <<[m EXCEPT !.of = g.key]>>
           entries(g, models) == FlattenSeq([i \in DOMAIN models |-> entry(g, models[i])])
           parts(g) == [c \in DOMAIN g.categories |-> entries(g, g.categories[c].models)]
           ofGroup(g) == entries(g, g.models) \o FlattenSeq(parts(g))
           all == [i \in DOMAIN Groups |-> ofGroup(Groups[i])]
<1>1. PickerItems = <<NoModel>> \o FlattenSeq(all)
  BY DEF PickerItems, NoModel
<1>2. ASSUME NEW g \in Group, NEW m \in Model PROVE entry(g, m) \in Seq(Model)
  <2>1. g.key \in STRING
    BY DEF Group
  <2>2. [m EXCEPT !.of = g.key] \in Model
    BY <2>1 DEF Model
  <2>3. PICK x : x = [m EXCEPT !.of = g.key]
    OBVIOUS
  <2>4. x \in Model
    BY <2>2, <2>3
  <2>5. <<x>> \in Seq(Model) /\ <<>> \in Seq(Model)
    BY <2>4
  <2> QED
    BY <2>3, <2>5
<1>3. ASSUME NEW g \in Group, NEW models \in Seq(Model) PROVE entries(g, models) \in Seq(Model)
  <2> HIDE DEF entry
  <2> DEFINE f == [i \in DOMAIN models |-> entry(g, models[i])]
  <2>1. ASSUME NEW i \in DOMAIN models PROVE entry(g, models[i]) \in Seq(Model)
    BY <1>2
  <2>2. f \in Seq(Seq(Model))
    BY <2>1
  <2>3. FlattenSeq(f) \in Seq(Model)
    <3> HIDE DEF f
    <3> QED BY <2>2, FlattenType
  <2> QED
    BY <2>3
<1>4. ASSUME NEW g \in Group PROVE ofGroup(g) \in Seq(Model)
  <2> HIDE DEF entries
  <2>1. g.models \in Seq(Model) /\ g.categories \in Seq(Category)
    BY DEF Group
  <2>2. ASSUME NEW c \in DOMAIN g.categories PROVE g.categories[c].models \in Seq(Model)
    <3>1. g.categories[c] \in Category
      BY <2>1
    <3> QED
      BY <3>1 DEF Category
  <2>3. parts(g) \in Seq(Seq(Model))
    BY <1>3, <2>1, <2>2
  <2>4. FlattenSeq(parts(g)) \in Seq(Model) /\ entries(g, g.models) \in Seq(Model)
    BY <1>3, <2>1, <2>3, FlattenType
  <2> HIDE DEF parts
  <2> QED
    BY <2>4
<1>5. all \in Seq(Seq(Model))
  <2> HIDE DEF ofGroup
  <2>1. Groups \in Seq(Group)
    BY WizardAssumption DEF WizardAssumption
  <2>2. ASSUME NEW i \in DOMAIN Groups PROVE ofGroup(Groups[i]) \in Seq(Model)
    BY <1>4, <2>1
  <2> QED
    BY <2>1, <2>2, SMTT(20)
<1>6. FlattenSeq(all) \in Seq(Model)
  <2> HIDE DEF all
  <2> QED BY <1>5, FlattenType
<1> HIDE DEF all
<1> QED
  BY <1>1, <1>6

SetupFields ==
  {"phase", "cursor", "scroll", "filter", "group", "category", "input",
   "editing", "overrides", "field", "provider", "model"}
Phases == Filterable \cup {"main", "auth", "mode", "settings"}

\* What is selected is there, and each menu has what it lists from.
Shaped(s) ==
  /\ DOMAIN s = SetupFields
  /\ s.phase \in Phases
  /\ s.group \in 0..Len(Groups)
  /\ s.category # 0 => s.group # 0 /\ s.category \in DOMAIN Groups[s.group].categories
  /\ s.phase \in {"main", "provider", "auth"} => s.category = 0
  /\ s.phase \in {"auth", "category"} => s.group # 0
  /\ s.phase = "picker" => s.field \in Pickers
  /\ s.editing = TRUE => s.phase = "settings" /\ s.cursor < Len(Fields) /\ s.input = "off"

\* The cursor is on the menu and in its window; but see EnterPicks.
InWindow(s) ==
  /\ s.scroll \in Nat
  /\ MenuLen(s) <= Visible => s.scroll = 0
  /\ MenuLen(s) > Visible => s.scroll + Visible <= MenuLen(s)
  /\ MenuLen(s) = 0 => s.cursor \in {-1, 0}
  /\ MenuLen(s) > 0 =>
       /\ s.cursor \in 0..(MenuLen(s) - 1)
       /\ \/ s.cursor \in s.scroll..(s.scroll + Visible - 1)
          \/ s.phase = "settings" /\ s.cursor \in Pickers /\ s.scroll = 0

\* A selected group is a group.
LEMMA GroupType ==
  ASSUME NEW g \in 0..Len(Groups), g # 0
  PROVE  /\ g \in DOMAIN Groups
         /\ Groups[g].auths \in Nat
         /\ Groups[g].models \in Seq(Model)
         /\ Groups[g].categories \in Seq(Category)
<1>1. Groups \in Seq(Group)
  BY WizardAssumption DEF WizardAssumption
<1>2. g \in DOMAIN Groups /\ Groups[g] \in Group
  BY <1>1
<1> QED
  BY <1>2 DEF Group

\* A menu that can be filtered has a list.
LEMMA ItemsType ==
  ASSUME NEW s, Shaped(s), s.phase \in Filterable
  PROVE  Len(Items(s)) \in Nat /\ DOMAIN Items(s) = 1..Len(Items(s))
<1>1. CASE s.phase = "provider"
  <2>1. Items(s) = Groups
    BY <1>1 DEF Items
  <2>2. Groups \in Seq(Group)
    BY WizardAssumption DEF WizardAssumption
  <2> QED
    BY <2>1, <2>2
<1>2. CASE s.phase = "category"
  <2>1. Items(s) = Groups[s.group].categories
    BY <1>2 DEF Items
  <2>2. Groups[s.group].categories \in Seq(Category)
    BY <1>2, GroupType DEF Shaped
  <2> QED
    BY <2>1, <2>2
<1>3. CASE s.phase = "model"
  <2>1. Items(s) = CurrentModels(s)
    BY <1>3 DEF Items
  <2>2. CurrentModels(s) \in Seq(Model)
    <3>1. CASE s.category # 0
      <4>1. s.group \in 0..Len(Groups) /\ s.group # 0 /\ s.category \in DOMAIN Groups[s.group].categories
        BY <3>1 DEF Shaped
      <4>2. Groups[s.group].categories \in Seq(Category)
        BY <4>1, GroupType
      <4>3. Groups[s.group].categories[s.category] \in Category
        BY <4>1, <4>2
      <4> QED
        BY <3>1, <4>3 DEF CurrentModels, Category
    <3>2. CASE s.category = 0 /\ s.group # 0
      <4>1. Groups[s.group].models \in Seq(Model)
        BY <3>2, GroupType DEF Shaped
      <4> QED
        BY <3>2, <4>1 DEF CurrentModels
    <3>3. CASE s.category = 0 /\ s.group = 0
      BY <3>3 DEF CurrentModels
    <3> QED
      BY <3>1, <3>2, <3>3
  <2> QED
    BY <2>1, <2>2
<1>4. CASE s.phase = "picker"
  <2>1. Items(s) = PickerItems
    BY <1>4 DEF Items
  <2> QED
    BY <2>1, PickerType
<1> QED
  BY <1>1, <1>2, <1>3, <1>4 DEF Filterable

LEMMA FilteredFinite ==
  ASSUME NEW s, Shaped(s), s.phase \in Filterable
  PROVE  /\ IsFiniteSet(DOMAIN Items(s))
         /\ FilteredItems(s) \in SUBSET DOMAIN Items(s)
         /\ IsFiniteSet(FilteredItems(s))
<1>1. PICK n \in Nat : DOMAIN Items(s) = 1..n
  BY ItemsType
<1>2. IsFiniteSet(1..n)
  BY FS_Interval
<1>3. FilteredItems(s) \subseteq 1..n
  BY <1>1 DEF FilteredItems
<1>4. PICK T : T = FilteredItems(s)
  OBVIOUS
<1>5. IsFiniteSet(T)
  BY <1>2, <1>3, <1>4, FS_Subset
<1> QED
  BY <1>1, <1>2, <1>3, <1>4, <1>5

LEMMA MenuSize ==
  ASSUME NEW s, Shaped(s)
  PROVE  MenuLen(s) \in Nat
<1>1. CASE s.phase \in Filterable
  <2>1. PICK T : T = FilteredItems(s)
    OBVIOUS
  <2>2. Cardinality(T) \in Nat
    BY <1>1, <2>1, FilteredFinite, FS_CardinalityType
  <2>3. MenuLen(s) = Cardinality(FilteredItems(s))
    BY <1>1 DEF MenuLen, Filterable
  <2> QED
    BY <2>1, <2>2, <2>3
<1>2. CASE s.phase = "auth"
  <2>1. MenuLen(s) = Groups[s.group].auths
    BY <1>2 DEF MenuLen, Filterable
  <2> QED
    BY <1>2, <2>1, GroupType DEF Shaped
<1>3. CASE s.phase = "settings"
  <2>1. MenuLen(s) = Len(Fields) + 1
    BY <1>3 DEF MenuLen, Filterable
  <2> QED
    BY <2>1, WizardAssumption DEF WizardAssumption
<1>4. CASE s.phase \in {"main", "mode"}
  BY <1>4 DEF MenuLen, Filterable
<1> QED
  BY <1>1, <1>2, <1>3, <1>4 DEF Shaped, Phases

\* The same menu, looked through with the same filter.
SameList(s, t) ==
  t.phase = s.phase /\ t.group = s.group /\ t.category = s.category

LEMMA MenuSame ==
  ASSUME NEW s, NEW t, SameList(s, t), t.filter = s.filter
  PROVE  MenuLen(t) = MenuLen(s)
<1>1. CurrentModels(t) = CurrentModels(s)
  BY DEF SameList, CurrentModels
<1>2. Items(t) = Items(s)
  BY <1>1 DEF SameList, Items
<1>3. FilteredItems(t) = FilteredItems(s)
  BY <1>2 DEF FilteredItems
<1> QED
  BY <1>3 DEF SameList, MenuLen

\* Without its filter a menu has no fewer entries.
LEMMA MenuGrows ==
  ASSUME NEW s, NEW t, Shaped(s), Shaped(t), SameList(s, t), t.filter = <<>>,
         s.phase \in Filterable
  PROVE  MenuLen(s) <= MenuLen(t)
<1>1. CurrentModels(t) = CurrentModels(s)
  BY DEF SameList, CurrentModels
<1>2. Items(t) = Items(s)
  BY <1>1 DEF SameList, Items
<1>3. FilteredItems(t) = DOMAIN Items(s)
  BY <1>2 DEF FilteredItems
<1>4. PICK T : T = FilteredItems(s)
  OBVIOUS
<1>5. PICK D : D = DOMAIN Items(s)
  OBVIOUS
<1>6. Cardinality(T) <= Cardinality(D)
  BY <1>4, <1>5, FilteredFinite, FS_Subset
<1>7. MenuLen(s) = Cardinality(T) /\ MenuLen(t) = Cardinality(D)
  BY <1>3, <1>4, <1>5 DEF MenuLen, SameList, Filterable
<1> QED
  BY <1>6, <1>7

----------------------------------------------------------------------------
\* The cursor.

SetupInv(s) == Shaped(s) /\ InWindow(s)

LEMMA TopKept ==
  ASSUME NEW s, Shaped(s), s.cursor = 0, s.scroll = 0
  PROVE  SetupInv(s)
<1>1. MenuLen(s) \in Nat
  BY MenuSize
<1>2. Visible \in Nat \ {0}
  BY WizardAssumption DEF WizardAssumption
<1> QED
  BY <1>1, <1>2 DEF SetupInv, InWindow

\* Nothing of the menu changes.
SameMenu(s, t) ==
  /\ SameList(s, t) /\ t.filter = s.filter
  /\ t.cursor = s.cursor /\ t.scroll = s.scroll /\ t.field = s.field

LEMMA SameKept ==
  ASSUME NEW s, NEW t, SetupInv(s), SameMenu(s, t), DOMAIN t = SetupFields,
         t.editing = TRUE => s.phase = "settings" /\ s.cursor < Len(Fields) /\ t.input = "off"
  PROVE  SetupInv(t)
<1>1. MenuLen(t) = MenuLen(s)
  BY MenuSame DEF SameMenu
<1>2. Shaped(t)
  BY DEF SetupInv, Shaped, SameMenu, SameList
<1>3. InWindow(t)
  BY <1>1 DEF SetupInv, InWindow, SameMenu, SameList
<1> QED
  BY <1>2, <1>3 DEF SetupInv

\* From one entry to another.
LEMMA MoveKept ==
  ASSUME NEW s, SetupInv(s), s.editing # TRUE, NEW c,
         MenuLen(s) = 0 => c \in {-1, 0},
         MenuLen(s) > 0 => c \in 0..(MenuLen(s) - 1)
  PROVE  SetupInv(MoveTo(s, c))
<1>1. MenuLen(s) \in Nat /\ Visible \in Nat \ {0} /\ s.scroll \in Nat
  BY MenuSize, WizardAssumption DEF SetupInv, InWindow, WizardAssumption
<1>2. PICK t : t = MoveTo(s, c)
  OBVIOUS
<1>3. /\ DOMAIN t = SetupFields
      /\ t.cursor = c
      /\ t.scroll = ClampScrollOffset(c, s.scroll, MenuLen(s))
      /\ SameList(s, t) /\ t.filter = s.filter /\ t.field = s.field
      /\ t.editing = s.editing
  BY <1>2 DEF MoveTo, SameList, SetupInv, Shaped, SetupFields
<1>4. MenuLen(t) = MenuLen(s)
  BY <1>3, MenuSame
<1>5. Shaped(t)
  BY <1>3 DEF Shaped, SetupInv, SameList
<1>6. InWindow(t)
  <2>1. CASE MenuLen(s) <= Visible
    <3>1. t.scroll = 0
      BY <1>1, <1>3, <2>1 DEF ClampScrollOffset
    <3>2. MenuLen(s) > 0 => t.cursor \in 0..(MenuLen(s) - 1) /\ t.cursor \in t.scroll..(t.scroll + Visible - 1)
      BY <1>1, <1>3, <2>1, <3>1
    <3> QED
      BY <1>1, <1>3, <1>4, <2>1, <3>1, <3>2 DEF InWindow
  <2>2. CASE MenuLen(s) > Visible
    <3>1. s.scroll + Visible <= MenuLen(s)
      BY <2>2 DEF SetupInv, InWindow
    <3>2. c \in 0..(MenuLen(s) - 1)
      BY <1>1, <2>2
    <3>3. /\ t.scroll \in Nat
          /\ t.scroll + Visible <= MenuLen(s)
          /\ c \in t.scroll..(t.scroll + Visible - 1)
      BY <1>1, <1>3, <2>2, <3>1, <3>2 DEF ClampScrollOffset
    <3> QED
      BY <1>1, <1>3, <1>4, <2>2, <3>2, <3>3 DEF InWindow
  <2> QED
    BY <1>1, <2>1, <2>2
<1> QED
  BY <1>2, <1>5, <1>6 DEF SetupInv

\* A filter goes, the cursor stays where it is.
LEMMA ClearKept ==
  ASSUME NEW s, NEW t, SetupInv(s), SameList(s, t), DOMAIN t = SetupFields,
         t.filter = <<>>, t.cursor = s.cursor, t.scroll = s.scroll, t.field = s.field,
         t.editing # TRUE, s.phase \in Filterable, s.cursor >= 0
  PROVE  SetupInv(t)
<1>1. Shaped(t)
  BY DEF SetupInv, Shaped, SameList
<1>2. MenuLen(s) \in Nat /\ MenuLen(t) \in Nat /\ MenuLen(s) <= MenuLen(t)
  BY <1>1, MenuSize, MenuGrows DEF SetupInv
<1>3. Visible \in Nat \ {0}
  BY WizardAssumption DEF WizardAssumption
<1> QED
  BY <1>1, <1>2, <1>3 DEF SetupInv, InWindow, SameList

----------------------------------------------------------------------------
\* The steps of the set-up screen.

\* What GoTo does.
GoesTo(s, t, p) ==
  /\ DOMAIN t = SetupFields
  /\ t.phase = p /\ t.cursor = 0 /\ t.scroll = 0
  /\ t.filter = s.filter /\ t.group = s.group /\ t.category = s.category
  /\ t.input = s.input /\ t.editing = s.editing /\ t.overrides = s.overrides
  /\ t.field = s.field /\ t.provider = s.provider /\ t.model = s.model

LEMMA GoToDoes ==
  ASSUME NEW s, DOMAIN s = SetupFields, NEW p
  PROVE  GoesTo(s, GoTo(s, p), p)
  BY DEF GoTo, Top, GoesTo, SetupFields

\* The menu p can be shown.
Reaches(s, p) ==
  /\ DOMAIN s = SetupFields /\ s.editing # TRUE
  /\ s.group \in 0..Len(Groups)
  /\ s.category # 0 => s.group # 0 /\ s.category \in DOMAIN Groups[s.group].categories
  /\ p \in Phases
  /\ p \in {"main", "provider", "auth"} => s.category = 0
  /\ p \in {"auth", "category"} => s.group # 0
  /\ p = "picker" => s.field \in Pickers

LEMMA GoToKept ==
  ASSUME NEW s, NEW p, Reaches(s, p)
  PROVE  SetupInv(GoTo(s, p))
<1>1. PICK t : t = GoTo(s, p)
  OBVIOUS
<1>2. GoesTo(s, t, p)
  BY <1>1, GoToDoes DEF Reaches
<1>3. Shaped(t)
  BY <1>2 DEF Shaped, GoesTo, Reaches
<1>4. SetupInv(t)
  BY <1>2, <1>3, TopKept DEF GoesTo
<1> QED
  BY <1>1, <1>4

LEMMA NewKept == SetupInv(NewSetup)
<1>1. Groups \in Seq(Group)
  BY WizardAssumption DEF WizardAssumption
<1>2. Shaped(NewSetup)
  BY <1>1 DEF NewSetup, Shaped, SetupFields, Phases
<1> QED
  BY <1>2, TopKept DEF NewSetup

LEMMA TypedKept ==
  ASSUME NEW s, SetupInv(s), s.editing # TRUE, NEW f
  PROVE  SetupInv(Typed(s, f))
<1>1. PICK t : t = Typed(s, f)
  OBVIOUS
<1>2. /\ DOMAIN t = SetupFields /\ t.cursor = 0 /\ t.scroll = 0
      /\ SameList(s, t) /\ t.field = s.field /\ t.editing = s.editing
  BY <1>1 DEF Typed, Top, SetupInv, Shaped, SetupFields, SameList
<1>3. Shaped(t)
  BY <1>2 DEF SetupInv, Shaped, SameList
<1> QED
  BY <1>1, <1>2, <1>3, TopKept

LEMMA SetValueKept ==
  ASSUME NEW s, SetupInv(s), NEW i, NEW v
  PROVE  SetupInv(SetValue(s, i, v))
<1>1. PICK t : t = SetValue(s, i, v)
  OBVIOUS
<1>2. DOMAIN t = SetupFields /\ SameMenu(s, t) /\ t.editing = s.editing /\ t.input = s.input
  BY <1>1 DEF SetValue, SetupInv, Shaped, SetupFields, SameList, SameMenu
<1>3. SetupInv(t)
  BY <1>2, SameKept DEF SetupInv, Shaped
<1> QED
  BY <1>1, <1>3

LEMMA ToggleKept ==
  ASSUME NEW s, SetupInv(s), NEW i
  PROVE  SetupInv(ToggleBool(s, i))
  BY SetValueKept DEF ToggleBool

LEMMA CycleKept ==
  ASSUME NEW s, SetupInv(s), NEW i, NEW dir
  PROVE  SetupInv(CycleOption(s, i, dir))
  BY SetValueKept DEF CycleOption

\* The picker's setting is one of the list.
LEMMA ToSettingKept ==
  ASSUME NEW s, SetupInv(s), s.phase = "picker", s.editing # TRUE
  PROVE  SetupInv(ToSetting(s))
<1>1. PICK u : u = GoTo(s, "settings")
  OBVIOUS
<1>2. GoesTo(s, u, "settings")
  BY <1>1, GoToDoes DEF SetupInv, Shaped
<1>3. PICK t : t = ToSetting(s)
  OBVIOUS
<1>4. /\ DOMAIN t = SetupFields /\ t.phase = "settings" /\ t.cursor = s.field /\ t.scroll = 0
      /\ t.group = s.group /\ t.category = s.category /\ t.editing = s.editing
  BY <1>1, <1>2, <1>3 DEF ToSetting, GoesTo, SetupFields
<1>5. Shaped(t)
  BY <1>4 DEF SetupInv, Shaped, Phases
<1>6. /\ s.field \in Pickers /\ Pickers \subseteq 0..(Len(Fields) - 1)
      /\ Len(Fields) \in Nat /\ Visible \in Nat \ {0}
  BY WizardAssumption DEF SetupInv, Shaped, WizardAssumption
<1>7. MenuLen(t) = Len(Fields) + 1
  BY <1>4 DEF MenuLen, Filterable
<1>8. InWindow(t)
  <2>1. PICK c \in Pickers : c = t.cursor
    BY <1>4, <1>6
  <2>2. c \in 0..(Len(Fields) - 1)
    BY <1>6
  <2>3. PICK n \in Nat : n = MenuLen(t) /\ n = Len(Fields) + 1
    BY <1>6, <1>7
  <2>4. n > 0 /\ t.cursor \in 0..(n - 1)
    BY <1>6, <2>1, <2>2, <2>3
  <2>5. t.scroll \in Nat /\ (n > Visible => t.scroll + Visible <= n)
    BY <1>4, <1>6, <2>3
  <2>6. t.phase = "settings" /\ t.cursor \in Pickers /\ t.scroll = 0
    BY <1>4, <2>1
  <2> QED
    BY <2>3, <2>4, <2>5, <2>6 DEF InWindow
<1> QED
  BY <1>3, <1>5, <1>8 DEF SetupInv

LEMMA BeforeModelsKept ==
  ASSUME NEW s, Reaches(s, "provider")
  PROVE  SetupInv(BeforeModels(s))
<1>1. s.group # 0 => Reaches(s, "auth")
  BY DEF Reaches, Phases
<1> QED
  BY <1>1, GoToKept DEF BeforeModels

LEMMA ToModelsKept ==
  ASSUME NEW s, Reaches(s, "category")
  PROVE  SetupInv(ToModels(s))
<1>1. Reaches(s, "model")
  BY DEF Reaches, Phases, Filterable
<1> QED
  BY <1>1, GoToKept DEF ToModels

LEMMA BackKept ==
  ASSUME NEW s, SetupInv(s), s.editing # TRUE
  PROVE  SetupInv(Back(s))
<1>1. CASE s.phase = "picker"
  BY <1>1, ToSettingKept DEF Back
<1>2. CASE s.phase = "settings"
  <2>1. Reaches(s, "mode")
    BY DEF SetupInv, Shaped, Reaches, Phases
  <2> QED
    BY <1>2, <2>1, GoToKept DEF Back
<1>3. CASE s.phase = "mode"
  <2>1. Reaches(s, "model")
    BY DEF SetupInv, Shaped, Reaches, Phases, Filterable
  <2> QED
    BY <1>3, <2>1, GoToKept DEF Back
<1>4. CASE s.phase = "model" /\ s.category # 0
  <2>1. Reaches(s, "category")
    BY <1>4 DEF SetupInv, Shaped, Reaches, Phases, Filterable
  <2> QED
    BY <1>4, <2>1, GoToKept DEF Back
<1>5. CASE s.phase = "model" /\ s.category = 0
  <2>1. Reaches(s, "provider")
    BY <1>5 DEF SetupInv, Shaped, Reaches, Phases, Filterable
  <2> QED
    BY <1>5, <2>1, BeforeModelsKept DEF Back
<1>6. CASE s.phase = "category"
  <2>1. PICK t : t = [s EXCEPT !.category = 0]
    OBVIOUS
  <2>2. Reaches(t, "provider")
    BY <2>1 DEF SetupInv, Shaped, Reaches, Phases, Filterable, SetupFields
  <2> QED
    BY <1>6, <2>1, <2>2, BeforeModelsKept DEF Back
<1>7. CASE s.phase = "auth"
  <2>1. Reaches(s, "provider")
    BY <1>7 DEF SetupInv, Shaped, Reaches, Phases, Filterable
  <2> QED
    BY <1>7, <2>1, GoToKept DEF Back
<1>8. CASE s.phase = "provider"
  <2>1. PICK u : u = GoTo(s, "main")
    OBVIOUS
  <2>2. GoesTo(s, u, "main")
    BY <2>1, GoToDoes DEF SetupInv, Shaped
  <2>3. PICK t : t = [u EXCEPT !.group = 0]
    OBVIOUS
  <2>4. /\ DOMAIN t = SetupFields /\ t.phase = "main" /\ t.cursor = 0 /\ t.scroll = 0
        /\ t.group = 0 /\ t.category = s.category /\ t.editing = s.editing
    BY <2>2, <2>3 DEF GoesTo, SetupFields
  <2>5. Groups \in Seq(Group)
    BY WizardAssumption DEF WizardAssumption
  <2>6. Shaped(t)
    BY <1>8, <2>4, <2>5 DEF SetupInv, Shaped, Phases
  <2>7. SetupInv(t)
    BY <2>4, <2>6, TopKept
  <2>8. Back(s) = t
    BY <1>8, <2>1, <2>3 DEF Back
  <2> QED
    BY <2>7, <2>8
<1>9. CASE s.phase = "main"
  BY <1>9 DEF Back
<1> QED
  BY <1>1, <1>2, <1>3, <1>4, <1>5, <1>6, <1>7, <1>8, <1>9 DEF SetupInv, Shaped, Phases, Filterable

LEMMA PickedPlace ==
  ASSUME NEW p \in Filterable, SetupInv(setup), Picked(p)
  PROVE  /\ Resolved(setup) \in 1..Len(Items(setup))
         /\ Len(Items(setup)) \in Nat
         /\ setup.cursor >= 0
         /\ setup.phase = p /\ setup.editing # TRUE /\ setup.input = "off"
<1>1. Resolved(setup) \in DOMAIN Items(setup)
  BY DEF Picked
<1>2. setup.phase = p /\ setup.editing # TRUE /\ setup.input = "off"
  BY DEF Picked, At, InMenu
<1>3. Resolved(setup) \in 1..Len(Items(setup)) /\ Len(Items(setup)) \in Nat
  BY <1>1, <1>2, ItemsType DEF SetupInv
<1>4. setup.cursor \in Int
  BY MenuSize DEF SetupInv, InWindow
<1>5. setup.cursor < 0 => Resolved(setup) = setup.cursor + 1
  BY DEF Resolved
<1>6. PICK r \in 1..Len(Items(setup)) : r = Resolved(setup)
  BY <1>3
<1>7. setup.cursor >= 0
  BY <1>3, <1>4, <1>5, <1>6
<1> QED
  BY <1>2, <1>3, <1>7

LEMMA PickGroupKept ==
  ASSUME SetupInv(setup), PickGroup
  PROVE  SetupInv(setup')
<1> DEFINE g == Resolved(setup)
           s == [setup EXCEPT !.filter = <<>>, !.group = g]
<1>1. Picked("provider")
  BY DEF PickGroup
<1>2. /\ g \in 1..Len(Items(setup)) /\ setup.cursor >= 0
      /\ setup.phase = "provider" /\ setup.editing # TRUE /\ setup.input = "off"
  BY <1>1, PickedPlace DEF Filterable
<1>3. Items(setup) = Groups
  BY <1>2 DEF Items
<1>4. setup' = IF Groups[g].key = "" THEN [setup EXCEPT !.filter = <<>>, !.input = "provider"]
               ELSE IF Groups[g].auths > 1 THEN GoTo(s, "auth")
               ELSE ToModels(s)
  BY DEF PickGroup
<1> HIDE DEF g
<1>5. Reaches(s, "auth") /\ Reaches(s, "category")
  <2>1. PICK t : t = s
    OBVIOUS
  <2>2. g \in 0..Len(Groups) /\ g # 0
    <3>1. Groups \in Seq(Group)
      BY WizardAssumption DEF WizardAssumption
    <3> QED
      BY <1>2, <1>3, <3>1
  <2>3. /\ DOMAIN t = SetupFields /\ t.editing # TRUE /\ t.group = g
        /\ t.category = setup.category
    BY <1>2, <2>1 DEF SetupInv, Shaped, SetupFields
  <2>4. setup.category = 0
    BY <1>2 DEF SetupInv, Shaped
  <2>5. Reaches(t, "auth") /\ Reaches(t, "category")
    BY <2>2, <2>3, <2>4 DEF Reaches, Phases, Filterable
  <2> QED
    BY <2>1, <2>5
<1> HIDE DEF s
<1>6. ASSUME setup' = [setup EXCEPT !.filter = <<>>, !.input = "provider"]
      PROVE  SetupInv(setup')
  <2>1. PICK t : t = [setup EXCEPT !.filter = <<>>, !.input = "provider"]
    OBVIOUS
  <2>2. /\ SameList(setup, t) /\ DOMAIN t = SetupFields
        /\ t.filter = <<>> /\ t.cursor = setup.cursor /\ t.scroll = setup.scroll
        /\ t.field = setup.field /\ t.editing = setup.editing
    BY <2>1 DEF SetupInv, Shaped, SameList, SetupFields
  <2>3. SetupInv(t)
    BY <1>2, <2>2, ClearKept DEF Filterable
  <2> QED
    BY <1>6, <2>1, <2>3
<1> QED
  BY <1>4, <1>5, <1>6, GoToKept, ToModelsKept

LEMMA PickCategoryKept ==
  ASSUME SetupInv(setup), PickCategory
  PROVE  SetupInv(setup')
<1>1. Picked("category")
  BY DEF PickCategory
<1>2. /\ Resolved(setup) \in 1..Len(Items(setup)) /\ Len(Items(setup)) \in Nat
      /\ setup.phase = "category" /\ setup.editing # TRUE
  BY <1>1, PickedPlace DEF Filterable
<1>3. Items(setup) = Groups[setup.group].categories
  BY <1>2 DEF Items
<1>4. DOMAIN Items(setup) = 1..Len(Items(setup))
  BY <1>2, ItemsType DEF SetupInv, Filterable
<1>5. PICK u : u = GoTo(setup, "model")
  OBVIOUS
<1>6. GoesTo(setup, u, "model")
  BY <1>5, GoToDoes DEF SetupInv, Shaped
<1>7. PICK t : t = [u EXCEPT !.filter = <<>>, !.category = Resolved(setup)]
  OBVIOUS
<1>8. /\ DOMAIN t = SetupFields /\ t.phase = "model" /\ t.cursor = 0 /\ t.scroll = 0
      /\ t.group = setup.group /\ t.category = Resolved(setup) /\ t.editing = setup.editing
  BY <1>6, <1>7 DEF GoesTo, SetupFields
<1>9. setup.group # 0 /\ setup.group \in 0..Len(Groups)
  BY <1>2 DEF SetupInv, Shaped
<1>10. Shaped(t)
  BY <1>2, <1>3, <1>4, <1>8, <1>9 DEF Shaped, Phases, Filterable
<1>11. SetupInv(t)
  BY <1>8, <1>10, TopKept
<1> QED
  BY <1>5, <1>7, <1>11 DEF PickCategory

\* The choice of a model leads to its mode, whatever it sets.
LEMMA ModeKept ==
  ASSUME NEW s, Shaped(s), s.editing # TRUE, NEW t, DOMAIN t = SetupFields,
         t.phase = "mode", t.cursor = 0, t.scroll = 0,
         t.group = s.group, t.category = s.category, t.editing = s.editing
  PROVE  SetupInv(t)
<1>1. Shaped(t)
  BY DEF Shaped, Phases
<1> QED
  BY <1>1, TopKept

LEMMA PickModelKept ==
  ASSUME SetupInv(setup), PickModel
  PROVE  SetupInv(setup')
<1>1. PICK m : m = Items(setup)[Resolved(setup)]
  OBVIOUS
<1>2. Picked("model")
  BY DEF PickModel
<1>3. /\ setup.cursor >= 0 /\ setup.phase = "model"
      /\ setup.editing # TRUE /\ setup.input = "off"
  BY <1>2, PickedPlace DEF Filterable
<1>4. CASE m.id = ""
  <2>1. setup' = [setup EXCEPT !.filter = <<>>, !.input = "model"]
    BY <1>1, <1>4 DEF PickModel
  <2>2. PICK t : t = [setup EXCEPT !.filter = <<>>, !.input = "model"]
    OBVIOUS
  <2>3. /\ SameList(setup, t) /\ DOMAIN t = SetupFields
        /\ t.filter = <<>> /\ t.cursor = setup.cursor /\ t.scroll = setup.scroll
        /\ t.field = setup.field /\ t.editing = setup.editing
    BY <2>2 DEF SetupInv, Shaped, SameList, SetupFields
  <2>4. SetupInv(t)
    BY <1>3, <2>3, ClearKept DEF Filterable
  <2> QED
    BY <2>1, <2>2, <2>4
<1>5. CASE m.id # ""
  <2>1. PICK u : u = GoTo(setup, "mode")
    OBVIOUS
  <2>2. GoesTo(setup, u, "mode")
    BY <2>1, GoToDoes DEF SetupInv, Shaped
  <2>3. PICK w : w = IF m.sized THEN [SavedOverrides EXCEPT !.window = m.id] ELSE SavedOverrides
    OBVIOUS
  <2>4. PICK k : k = Groups[setup.group].key
    OBVIOUS
  <2>5. PICK t : t = [u EXCEPT !.filter = <<>>, !.provider = k, !.model = m.id, !.overrides = w]
    OBVIOUS
  <2>6. setup' = t
    BY <1>1, <1>5, <2>1, <2>3, <2>4, <2>5 DEF PickModel
  <2>7. /\ DOMAIN t = SetupFields /\ t.phase = "mode" /\ t.cursor = 0 /\ t.scroll = 0
        /\ t.group = setup.group /\ t.category = setup.category /\ t.editing = setup.editing
    BY <2>2, <2>5 DEF GoesTo, SetupFields
  <2>8. SetupInv(t)
    BY <1>3, <2>7, ModeKept DEF SetupInv
  <2> QED
    BY <2>6, <2>8
<1> QED
  BY <1>4, <1>5

\* What is chosen or set changes, the menu does not.
LEMMA ChoiceKept ==
  ASSUME NEW s, NEW t, SetupInv(s), DOMAIN t = SetupFields, SameMenu(s, t),
         t.editing = s.editing, t.input = s.input
  PROVE  SetupInv(t)
  BY SameKept DEF SetupInv, Shaped

LEMMA PickModeKept ==
  ASSUME SetupInv(setup), PickMode
  PROVE  SetupInv(setup')
<1>1. setup.phase = "mode" /\ setup.editing # TRUE
  BY DEF PickMode, At, InMenu
<1>2. ASSUME NEW v, setup' = [setup EXCEPT !.overrides = v] PROVE SetupInv(setup')
  <2>1. PICK t : t = [setup EXCEPT !.overrides = v]
    OBVIOUS
  <2>2. DOMAIN t = SetupFields /\ SameMenu(setup, t) /\ t.editing = setup.editing /\ t.input = setup.input
    BY <2>1 DEF SetupInv, Shaped, SetupFields, SameMenu, SameList
  <2> QED
    BY <1>2, <2>1, <2>2, ChoiceKept
<1>3. ASSUME NEW v, setup' = [GoTo(setup, "settings") EXCEPT !.overrides = v] PROVE SetupInv(setup')
  <2>1. PICK u : u = GoTo(setup, "settings")
    OBVIOUS
  <2>2. GoesTo(setup, u, "settings")
    BY <2>1, GoToDoes DEF SetupInv, Shaped
  <2>3. PICK t : t = [u EXCEPT !.overrides = v]
    OBVIOUS
  <2>4. /\ DOMAIN t = SetupFields /\ t.phase = "settings" /\ t.cursor = 0 /\ t.scroll = 0
        /\ t.group = setup.group /\ t.category = setup.category /\ t.editing = setup.editing
    BY <2>2, <2>3 DEF GoesTo, SetupFields
  <2>5. Shaped(t)
    BY <1>1, <2>4 DEF SetupInv, Shaped, Phases
  <2> QED
    BY <1>3, <2>1, <2>3, <2>4, <2>5, TopKept
<1>4. \/ setup' = [setup EXCEPT !.overrides = SavedOverrides]
      \/ setup' = [setup EXCEPT !.overrides = Nil]
      \/ \E v : setup' = [GoTo(setup, "settings") EXCEPT !.overrides = v]
  <2>1. CASE setup.cursor = 2
    <3>1. PICK v : v = IF GoTo(setup, "settings").overrides = Nil THEN SavedOverrides
                       ELSE GoTo(setup, "settings").overrides
      OBVIOUS
    <3> QED
      BY <2>1, <3>1 DEF PickMode
  <2> QED
    BY <2>1 DEF PickMode
<1> QED
  BY <1>2, <1>3, <1>4

LEMMA PickSettingKept ==
  ASSUME SetupInv(setup), PickSetting
  PROVE  SetupInv(setup')
<1>1. setup.phase = "settings" /\ setup.editing # TRUE /\ setup.input = "off"
  BY DEF PickSetting, At, InMenu
<1>2. PICK i : i = setup.cursor
  OBVIOUS
<1>3. ASSUME i \in Pickers, setup' = [GoTo(setup, "picker") EXCEPT !.field = i, !.filter = <<>>]
      PROVE  SetupInv(setup')
  <2>1. PICK u : u = GoTo(setup, "picker")
    OBVIOUS
  <2>2. GoesTo(setup, u, "picker")
    BY <2>1, GoToDoes DEF SetupInv, Shaped
  <2>3. PICK t : t = [u EXCEPT !.field = i, !.filter = <<>>]
    OBVIOUS
  <2>4. /\ DOMAIN t = SetupFields /\ t.phase = "picker" /\ t.cursor = 0 /\ t.scroll = 0
        /\ t.group = setup.group /\ t.category = setup.category /\ t.editing = setup.editing
        /\ t.field = i
    BY <2>2, <2>3 DEF GoesTo, SetupFields
  <2>5. Shaped(t)
    BY <1>1, <1>3, <2>4 DEF SetupInv, Shaped, Phases, Filterable
  <2> QED
    BY <1>3, <2>1, <2>3, <2>4, <2>5, TopKept
<1>4. ASSUME i < Len(Fields), setup' = [setup EXCEPT !.editing = TRUE]
      PROVE  SetupInv(setup')
  <2>1. PICK t : t = [setup EXCEPT !.editing = TRUE]
    OBVIOUS
  <2>2. DOMAIN t = SetupFields /\ SameMenu(setup, t) /\ t.input = setup.input
    BY <2>1 DEF SetupInv, Shaped, SetupFields, SameMenu, SameList
  <2>3. SetupInv(t)
    BY <1>1, <1>2, <1>4, <2>2, SameKept
  <2> QED
    BY <1>4, <2>1, <2>3
<1>5. \/ setup' = setup
      \/ i \in Pickers /\ setup' = [GoTo(setup, "picker") EXCEPT !.field = i, !.filter = <<>>]
      \/ setup' = ToggleBool(setup, i)
      \/ setup' = CycleOption(setup, i, 1)
      \/ i < Len(Fields) /\ setup' = [setup EXCEPT !.editing = TRUE]
  BY <1>2 DEF PickSetting
<1> QED
  BY <1>3, <1>4, <1>5, ToggleKept, CycleKept

LEMMA TextEnterKept ==
  ASSUME SetupInv(setup), TextEnter
  PROVE  SetupInv(setup')
<1>1. setup.input # "off" /\ setup.editing # TRUE
  BY DEF TextEnter, SetupInv, Shaped
<1>2. CASE setup.input = "provider"
  <2>1. PICK t : t = [setup EXCEPT !.provider = "typed", !.input = "model"]
    OBVIOUS
  <2>2. DOMAIN t = SetupFields /\ SameMenu(setup, t) /\ t.editing = setup.editing
    BY <2>1 DEF SetupInv, Shaped, SetupFields, SameMenu, SameList
  <2>3. SetupInv(t)
    BY <1>1, <2>2, SameKept
  <2> QED
    BY <1>2, <2>1, <2>3 DEF TextEnter
<1>3. CASE setup.input # "provider"
  <2>1. PICK u : u = GoTo(setup, "mode")
    OBVIOUS
  <2>2. GoesTo(setup, u, "mode")
    BY <2>1, GoToDoes DEF SetupInv, Shaped
  <2>3. PICK k : k = IF setup.phase = "model" THEN Groups[setup.group].key ELSE u.provider
    OBVIOUS
  <2>4. PICK t : t = [u EXCEPT !.input = "off", !.model = "typed", !.overrides = SavedOverrides,
                                !.provider = k]
    OBVIOUS
  <2>5. setup' = t
    BY <1>3, <2>1, <2>3, <2>4 DEF TextEnter
  <2>6. /\ DOMAIN t = SetupFields /\ t.phase = "mode" /\ t.cursor = 0 /\ t.scroll = 0
        /\ t.group = setup.group /\ t.category = setup.category /\ t.editing = setup.editing
    BY <2>2, <2>4 DEF GoesTo, SetupFields
  <2>7. SetupInv(t)
    BY <1>1, <2>6, ModeKept DEF SetupInv
  <2> QED
    BY <2>5, <2>7
<1> QED
  BY <1>2, <1>3

LEMMA ConfigEditKept ==
  ASSUME NEW text, SetupInv(setup), ConfigEdit(text)
  PROVE  SetupInv(setup')
<1>1. PICK t : t = [setup EXCEPT !.editing = FALSE]
  OBVIOUS
<1>2. DOMAIN t = SetupFields /\ SameMenu(setup, t) /\ t.editing # TRUE
  BY <1>1 DEF SetupInv, Shaped, SetupFields, SameMenu, SameList
<1>3. SetupInv(t)
  BY <1>2, SameKept
<1>4. setup' = t \/ \E i, v : setup' = SetValue(t, i, v)
  BY <1>1 DEF ConfigEdit
<1> QED
  BY <1>3, <1>4, SetValueKept

\* Each key leaves the menus in order.
LEMMA WizardKept ==
  ASSUME SetupInv(setup), WizardNext
  PROVE  SetupInv(setup')
<1>0. InMenu => setup.editing # TRUE /\ setup.input = "off"
  BY DEF InMenu
<1>1. CASE Splash
  BY <1>1 DEF Splash
<1>2. CASE Up \/ Down
  <2>1. MenuLen(setup) \in Nat /\ setup.cursor \in Int
    BY MenuSize DEF SetupInv, InWindow
  <2>2. PICK c : /\ setup' = MoveTo(setup, c)
                 /\ \/ c = IF setup.cursor > 0 THEN setup.cursor - 1 ELSE MenuLen(setup) - 1
                    \/ c = IF setup.cursor < MenuLen(setup) - 1 THEN setup.cursor + 1 ELSE 0
    BY <1>2 DEF Up, Down
  <2>3. setup.editing # TRUE
    BY <1>0, <1>2 DEF Up, Down
  <2>4. /\ MenuLen(setup) = 0 => c \in {-1, 0}
        /\ MenuLen(setup) > 0 => c \in 0..(MenuLen(setup) - 1)
    BY <2>1, <2>2 DEF SetupInv, InWindow
  <2> QED
    BY <2>2, <2>3, <2>4, MoveKept
<1>3. CASE Backspace \/ \E letter \in Letters : Type(letter)
  <2>1. PICK f : setup' = Typed(setup, f)
    BY <1>3 DEF Backspace, Type
  <2>2. setup.editing # TRUE
    BY <1>0, <1>3 DEF Backspace, Type
  <2> QED
    BY <2>1, <2>2, TypedKept
<1>4. CASE Esc
  BY <1>0, <1>4, TypedKept, BackKept DEF Esc
<1>5. CASE Quit \/ PickMain
  <2>1. CASE setup' = [setup EXCEPT !.provider = "", !.model = ""]
    <3>1. PICK t : t = [setup EXCEPT !.provider = "", !.model = ""]
      OBVIOUS
    <3>2. DOMAIN t = SetupFields /\ SameMenu(setup, t) /\ t.editing = setup.editing /\ t.input = setup.input
      BY <3>1 DEF SetupInv, Shaped, SetupFields, SameMenu, SameList
    <3> QED
      BY <2>1, <3>1, <3>2, ChoiceKept
  <2>2. CASE setup' = GoTo(setup, "provider") /\ PickMain
    <3>1. Reaches(setup, "provider")
      BY <1>0, <2>2 DEF PickMain, At, SetupInv, Shaped, Reaches, Phases, Filterable
    <3> QED
      BY <2>2, <3>1, GoToKept
  <2> QED
    BY <1>5, <2>1, <2>2 DEF Quit, PickMain
<1>6. CASE \E dir \in {-1, 1} : Turn(dir)
  BY <1>6, CycleKept, ToggleKept DEF Turn
<1>7. CASE PickGroup
  BY <1>7, PickGroupKept
<1>8. CASE PickAuth
  <2>1. Reaches(setup, "category")
    BY <1>0, <1>8 DEF PickAuth, At, SetupInv, Shaped, Reaches, Phases, Filterable
  <2> QED
    BY <1>8, <2>1, ToModelsKept DEF PickAuth
<1>9. CASE PickCategory
  BY <1>9, PickCategoryKept
<1>10. CASE PickModel
  BY <1>10, PickModelKept
<1>11. CASE PickMode
  BY <1>11, PickModeKept
<1>12. CASE PickSetting
  BY <1>12, PickSettingKept
<1>13. CASE PickEntry
  <2>1. setup.phase = "picker" /\ setup.editing # TRUE
    BY <1>13 DEF PickEntry, Picked, At, InMenu
  <2>2. \E i, v : setup' = SetValue(ToSetting(setup), i, v)
    BY <1>13 DEF PickEntry
  <2>3. SetupInv(ToSetting(setup))
    BY <2>1, ToSettingKept
  <2> QED
    BY <2>2, <2>3, SetValueKept
<1>14. CASE PickNothing
  BY <1>14, NewKept DEF PickNothing
<1>15. CASE TextEnter
  BY <1>15, TextEnterKept
<1>16. CASE TextEsc
  <2>1. PICK t : t = [setup EXCEPT !.input = "off"]
    OBVIOUS
  <2>2. DOMAIN t = SetupFields /\ SameMenu(setup, t) /\ t.editing = setup.editing /\ t.input = "off"
    BY <2>1 DEF SetupInv, Shaped, SetupFields, SameMenu, SameList
  <2>3. SetupInv(t)
    BY <2>2, SameKept DEF SetupInv, Shaped
  <2> QED
    BY <1>16, <2>1, <2>3 DEF TextEsc
<1>17. CASE \E text \in {"", "shown", "number", "word"} : ConfigEdit(text)
  BY <1>17, ConfigEditKept
<1> QED
  BY <1>1, <1>2, <1>3, <1>4, <1>5, <1>6, <1>7, <1>8, <1>9, <1>10, <1>11, <1>12, <1>13,
     <1>14, <1>15, <1>16, <1>17 DEF WizardNext

----------------------------------------------------------------------------
\* The set-up screen is part of the program.

\* A step is one of the start, opens or ends a chat, or is one of the chat.
LEMMA StepKinds ==
  ASSUME [Next]_vars
  PROVE  LaunchNext \/ OpenChat \/ Leave \/ UNCHANGED setupVars
<1>1. CASE Next
  <2>1. CASE Typing \/ (InChat /\ (Unblock \/ WorkflowDone))
    BY <2>1 DEF Typing, InChat
  <2>2. CASE \E r \in DOMAIN Events :
               \/ AgentStep(r) \/ TextStep(r) \/ ToolStep(r) \/ StatusStep(r) \/ EndStep(r)
               \/ \E n \in Names : WaiterStep(r, n)
    BY <2>2 DEF AgentStep, TextStep, ToolStep, StatusStep, EndStep, WaiterStep, InChat
  <2> QED
    BY <1>1, <2>1, <2>2, Zenon DEF Next
<1>2. CASE UNCHANGED vars
  BY <1>2 DEF vars
<1> QED
  BY <1>1, <1>2

\* The set-up screen lies between the splash and what main does after it.
LEMMA WizardScreens ==
  ASSUME WizardNext
  PROVE  screen \in {"splash", "setup"} /\ screen' \in {"setup", "main"}
  BY DEF WizardNext, Splash, Up, Down, Backspace, Esc, Quit, Type, Turn, PickMain, PickGroup,
       PickAuth, PickCategory, PickModel, PickMode, PickSetting, PickEntry, PickNothing,
       TextEnter, TextEsc, ConfigEdit, Picked, At, InMenu

\* No step of the program puts a menu out of order.
LEMMA SetupKept ==
  ASSUME SetupInv(setup), [Next]_vars
  PROVE  SetupInv(setup')
<1>1. CASE LaunchNext
  <2>1. setup' = NewSetup \/ setup' = setup \/ WizardNext
    BY <1>1 DEF LaunchNext, Start, Configure, SignIn, Served, End
  <2> QED
    BY <2>1, NewKept, WizardKept
<1>2. CASE OpenChat
  BY <1>2, NewKept DEF OpenChat
<1>3. CASE Leave
  BY <1>3 DEF Leave
<1>4. CASE UNCHANGED setupVars
  BY <1>4 DEF setupVars
<1> QED
  BY <1>1, <1>2, <1>3, <1>4, StepKinds

\* The menus are in order at any time, also when they are not shown.
LEMMA MenusInOrder == Spec => []SetupInv(setup)
<1>1. Init => SetupInv(setup)
  BY NewKept DEF Init, LaunchInit
<1>2. SetupInv(setup) /\ [Next]_vars => SetupInv(setup)'
  BY SetupKept
<1> QED
  BY <1>1, <1>2, PTL DEF Spec

\* Enter picks a line that is shown, but for the two cases PicksUnseen names, and
\* fails in no other than PicksNowhere (startup.go:1580-1606): the cursor, the
\* scroll offset and the filter, however menus are filtered, walked through and left.
THEOREM EnterAccounted == Spec => []EnterPicks
<1>1. SetupInv(setup) => EnterPicks
  <2> SUFFICES ASSUME SetupInv(setup)
               PROVE  PicksShown(setup) \/ PicksUnseen(setup) \/ PicksNowhere(setup)
    BY DEF EnterPicks
  <2>1. MenuLen(setup) \in Nat /\ Visible \in Nat \ {0}
    BY MenuSize, WizardAssumption DEF SetupInv, WizardAssumption
  <2>2. WindowStart(setup) = setup.scroll
    BY <2>1 DEF WindowStart, SetupInv, InWindow
  <2>3. CASE MenuLen(setup) = 0
    <3>1. setup.cursor = -1 \/ setup.cursor = 0
      BY <2>3 DEF SetupInv, InWindow
    <3>2. CASE Items(setup) = <<>>
      BY <2>3, <3>1, <3>2 DEF PicksNowhere
    <3>3. CASE Items(setup) # <<>>
      BY <2>3, <3>1, <3>3 DEF PicksUnseen, PicksNowhere
    <3> QED
      BY <3>2, <3>3
  <2>4. CASE MenuLen(setup) > 0
    BY <2>2, <2>4 DEF SetupInv, InWindow, PicksShown, PicksUnseen
  <2> QED
    BY <2>1, <2>3, <2>4
<1> QED
  BY <1>1, MenusInOrder, PTL

----------------------------------------------------------------------------
\* Whose window it is.

\* What was set for the window is of the model chosen, the user's or nothing.
Windowed(s) ==
  \/ s.overrides = Nil
  \/ "window" \in DOMAIN s.overrides /\ s.overrides.window \in {"auto", "number", s.model}

Sourced(s) ==
  /\ Windowed(s)
  /\ s.phase \in {"settings", "picker"} => s.overrides # Nil

\* Neither the settings nor the model change.
LEMMA SourcedSame ==
  ASSUME NEW s, NEW t, Sourced(s), t.overrides = s.overrides, t.model = s.model,
         t.phase \in {"settings", "picker"} => s.phase \in {"settings", "picker"}
  PROVE  Sourced(t)
  BY DEF Sourced, Windowed

LEMMA SavedFacts ==
  /\ "window" \in DOMAIN SavedOverrides
  /\ SavedOverrides.window = "auto"
  /\ SavedOverrides # Nil
  BY WizardAssumption DEF WizardAssumption, SavedOverrides, Nil

LEMMA NewSourced == Sourced(NewSetup)
  BY DEF NewSetup, Sourced, Windowed

\* A setting other than the window may take any value.
LEMMA SetValueSourced ==
  ASSUME NEW s, DOMAIN s = SetupFields, Sourced(s), s.overrides # Nil,
         NEW i, NEW v, Name(i) = "window" => v \in {"auto", "number"}
  PROVE  Sourced(SetValue(s, i, v))
<1>1. PICK o : o = [s.overrides EXCEPT ![Name(i)] = v]
  OBVIOUS
<1>2. PICK t : t = SetValue(s, i, v)
  OBVIOUS
<1>3. t.overrides = o /\ t.model = s.model
  BY <1>1, <1>2 DEF SetValue, SetupFields
<1>4. "window" \in DOMAIN s.overrides /\ s.overrides.window \in {"auto", "number", s.model}
  BY DEF Sourced, Windowed
<1>5. "window" \in DOMAIN o /\ o.window \in {"auto", "number", s.model}
  BY <1>1, <1>4
<1>6. o # Nil
  BY <1>5 DEF Nil
<1>7. Sourced(t)
  BY <1>3, <1>5, <1>6 DEF Sourced, Windowed
<1> QED
  BY <1>2, <1>7

\* The window is a number: what does not parse is none.
LEMMA WindowIsInt ==
  ASSUME NEW i \in 0..(Len(Fields) - 1), Name(i) = "window"
  PROVE  Kind(i) = "int" /\ \A v : Parsed(i, v) \in {"auto", "number"}
<1>1. Len(Fields) \in Nat
  BY WizardAssumption DEF WizardAssumption
<1>2. i + 1 \in 1..Len(Fields)
  BY <1>1
<1>3. Fields[i + 1].kind = "int"
  BY <1>2, WizardAssumption DEF WizardAssumption, Name
<1> QED
  BY <1>3 DEF Kind, Parsed

LEMMA BackSame ==
  ASSUME NEW s, DOMAIN s = SetupFields, s.phase \in Phases
  PROVE  /\ Back(s).overrides = s.overrides /\ Back(s).model = s.model
         /\ Back(s).phase \in {"settings", "picker"} => s.phase \in {"settings", "picker"}
<1>1. \A p : GoesTo(s, GoTo(s, p), p)
  BY GoToDoes
<1>2. CASE s.phase = "picker"
  <2>1. PICK u : u = GoTo(s, "settings")
    OBVIOUS
  <2>2. PICK t : t = [u EXCEPT !.cursor = s.field, !.field = 0, !.filter = <<>>]
    OBVIOUS
  <2>3. t.overrides = s.overrides /\ t.model = s.model
    BY <1>1, <2>1, <2>2 DEF GoesTo, SetupFields
  <2>4. Back(s) = t
    BY <1>2, <2>1, <2>2 DEF Back, ToSetting
  <2> QED
    BY <1>2, <2>3, <2>4
<1>3. CASE s.phase = "provider"
  <2>1. PICK u : u = GoTo(s, "main")
    OBVIOUS
  <2>2. PICK t : t = [u EXCEPT !.group = 0]
    OBVIOUS
  <2>3. t.overrides = s.overrides /\ t.model = s.model /\ t.phase = "main"
    BY <1>1, <2>1, <2>2 DEF GoesTo, SetupFields
  <2>4. Back(s) = t
    BY <1>3, <2>1, <2>2 DEF Back
  <2> QED
    BY <1>3, <2>3, <2>4
<1>4. CASE s.phase = "category"
  <2>1. PICK u : u = [s EXCEPT !.category = 0]
    OBVIOUS
  <2>2. DOMAIN u = SetupFields /\ u.overrides = s.overrides /\ u.model = s.model
    BY <2>1 DEF SetupFields
  <2>3. PICK p \in {"auth", "provider"} : Back(s) = GoTo(u, p)
    BY <1>4, <2>1 DEF Back, BeforeModels
  <2>4. GoesTo(u, GoTo(u, p), p)
    BY <2>2, GoToDoes
  <2> QED
    BY <1>4, <2>2, <2>3, <2>4 DEF GoesTo
<1>5. CASE s.phase \in {"settings", "mode", "model", "auth"}
  <2>1. PICK p \in {"mode", "model", "category", "auth", "provider"} : Back(s) = GoTo(s, p)
    BY <1>5 DEF Back, BeforeModels
  <2> QED
    BY <1>1, <1>5, <2>1 DEF GoesTo
<1>6. CASE s.phase = "main"
  BY <1>6 DEF Back
<1> QED
  BY <1>2, <1>3, <1>4, <1>5, <1>6 DEF Phases, Filterable

\* The model is chosen, and no window is set but that one's.
Chooses(t) ==
  t.overrides = SavedOverrides \/ t.overrides = [SavedOverrides EXCEPT !.window = t.model]

LEMMA ChoosesSourced ==
  ASSUME NEW t, Chooses(t)
  PROVE  Sourced(t)
<1>1. CASE t.overrides = SavedOverrides
  BY <1>1, SavedFacts DEF Sourced, Windowed
<1>2. CASE t.overrides = [SavedOverrides EXCEPT !.window = t.model]
  <2>1. "window" \in DOMAIN t.overrides /\ t.overrides.window = t.model
    BY <1>2, SavedFacts
  <2>2. t.overrides # Nil
    BY <2>1 DEF Nil
  <2> QED
    BY <2>1, <2>2 DEF Sourced, Windowed
<1> QED
  BY <1>1, <1>2 DEF Chooses

LEMMA PickModelSourced ==
  ASSUME SetupInv(setup), Sourced(setup), PickModel
  PROVE  Sourced(setup')
<1>1. PICK m : m = Items(setup)[Resolved(setup)]
  OBVIOUS
<1>2. setup.phase = "model" /\ DOMAIN setup = SetupFields
  BY DEF PickModel, Picked, At, SetupInv, Shaped
<1>3. CASE m.id = ""
  <2>1. PICK t : t = [setup EXCEPT !.filter = <<>>, !.input = "model"]
    OBVIOUS
  <2>2. t.overrides = setup.overrides /\ t.model = setup.model /\ t.phase = setup.phase
    BY <1>2, <2>1 DEF SetupFields
  <2>3. setup' = t
    BY <1>1, <1>3, <2>1 DEF PickModel
  <2> QED
    BY <2>2, <2>3, SourcedSame
<1>4. CASE m.id # ""
  <2>1. PICK u : u = GoTo(setup, "mode")
    OBVIOUS
  <2>2. GoesTo(setup, u, "mode")
    BY <1>2, <2>1, GoToDoes
  <2>3. PICK w : w = IF m.sized THEN [SavedOverrides EXCEPT !.window = m.id] ELSE SavedOverrides
    OBVIOUS
  <2>4. PICK k : k = Groups[setup.group].key
    OBVIOUS
  <2>5. PICK t : t = [u EXCEPT !.filter = <<>>, !.provider = k, !.model = m.id, !.overrides = w]
    OBVIOUS
  <2>6. setup' = t
    BY <1>1, <1>4, <2>1, <2>3, <2>4, <2>5 DEF PickModel
  <2>7. t.model = m.id /\ t.overrides = w
    BY <2>2, <2>5 DEF GoesTo, SetupFields
  <2>8. Chooses(t)
    BY <2>3, <2>7 DEF Chooses
  <2> QED
    BY <2>6, <2>8, ChoosesSourced
<1> QED
  BY <1>3, <1>4

LEMMA PickModeSourced ==
  ASSUME SetupInv(setup), Sourced(setup), PickMode
  PROVE  Sourced(setup')
<1>1. setup.phase = "mode" /\ DOMAIN setup = SetupFields
  BY DEF PickMode, At, SetupInv, Shaped
<1>2. CASE setup.cursor \in {0, 1}
  <2>1. PICK v \in {SavedOverrides, Nil} : setup' = [setup EXCEPT !.overrides = v]
    BY <1>2 DEF PickMode
  <2>2. setup'.overrides = v /\ setup'.phase = "mode"
    BY <1>1, <2>1 DEF SetupFields
  <2>3. v = SavedOverrides => Sourced(setup')
    BY <2>2, ChoosesSourced DEF Chooses
  <2> QED
    BY <2>1, <2>2, <2>3 DEF Sourced, Windowed
<1>3. CASE setup.cursor = 2
  <2>1. PICK u : u = GoTo(setup, "settings")
    OBVIOUS
  <2>2. GoesTo(setup, u, "settings")
    BY <1>1, <2>1, GoToDoes
  <2>3. PICK v : v = IF u.overrides = Nil THEN SavedOverrides ELSE u.overrides
    OBVIOUS
  <2>4. PICK t : t = [u EXCEPT !.overrides = v]
    OBVIOUS
  <2>5. setup' = t
    BY <1>3, <2>1, <2>3, <2>4 DEF PickMode
  <2>6. t.overrides = v /\ t.model = setup.model
    BY <2>2, <2>4 DEF GoesTo, SetupFields
  <2>7. CASE setup.overrides = Nil
    <3>1. Chooses(t)
      BY <2>2, <2>3, <2>6, <2>7 DEF Chooses, GoesTo
    <3> QED
      BY <2>5, <3>1, ChoosesSourced
  <2>8. CASE setup.overrides # Nil
    <3>1. t.overrides = setup.overrides
      BY <2>2, <2>3, <2>6, <2>8 DEF GoesTo
    <3>2. Sourced(t)
      BY <2>6, <2>8, <3>1 DEF Sourced, Windowed
    <3> QED
      BY <2>5, <3>2
  <2> QED
    BY <2>7, <2>8
<1> QED
  BY <1>2, <1>3 DEF PickMode

\* A toggled or cycled setting is not the window.
LEMMA ToggleSourced ==
  ASSUME SetupInv(setup), Sourced(setup), setup.overrides # Nil,
         NEW i \in 0..(Len(Fields) - 1), Kind(i) = "bool"
  PROVE  Sourced(ToggleBool(setup, i))
<1>1. Name(i) # "window"
  BY WindowIsInt
<1> QED
  BY <1>1, SetValueSourced DEF ToggleBool, SetupInv, Shaped

LEMMA CycleSourced ==
  ASSUME SetupInv(setup), Sourced(setup), setup.overrides # Nil,
         NEW i \in 0..(Len(Fields) - 1), Kind(i) = "cycle", NEW dir
  PROVE  Sourced(CycleOption(setup, i, dir))
<1>1. Name(i) # "window"
  BY WindowIsInt
<1> QED
  BY <1>1, SetValueSourced DEF CycleOption, SetupInv, Shaped

\* In the list of settings the cursor is on one of them or on the last line.
LEMMA SettingPlace ==
  ASSUME SetupInv(setup), setup.phase = "settings", setup.cursor < Len(Fields)
  PROVE  setup.cursor \in 0..(Len(Fields) - 1)
<1>1. MenuLen(setup) = Len(Fields) + 1 /\ Len(Fields) \in Nat
  BY WizardAssumption DEF MenuLen, Filterable, WizardAssumption
<1>2. setup.cursor \in 0..(MenuLen(setup) - 1)
  BY <1>1 DEF SetupInv, InWindow
<1> QED
  BY <1>1, <1>2

LEMMA PickSettingSourced ==
  ASSUME SetupInv(setup), Sourced(setup), PickSetting
  PROVE  Sourced(setup')
<1>1. setup.phase = "settings" /\ DOMAIN setup = SetupFields /\ setup.overrides # Nil
  BY DEF PickSetting, At, SetupInv, Shaped, Sourced
<1>2. PICK i : i = setup.cursor
  OBVIOUS
<1>3. \/ setup' = setup
      \/ setup' = [GoTo(setup, "picker") EXCEPT !.field = i, !.filter = <<>>]
      \/ i < Len(Fields) /\ Kind(i) = "bool" /\ setup' = ToggleBool(setup, i)
      \/ i < Len(Fields) /\ Kind(i) = "cycle" /\ setup' = CycleOption(setup, i, 1)
      \/ setup' = [setup EXCEPT !.editing = TRUE]
  BY <1>2 DEF PickSetting
<1>4. ASSUME setup' = [GoTo(setup, "picker") EXCEPT !.field = i, !.filter = <<>>]
      PROVE  Sourced(setup')
  <2>1. PICK u : u = GoTo(setup, "picker")
    OBVIOUS
  <2>2. GoesTo(setup, u, "picker")
    BY <1>1, <2>1, GoToDoes
  <2>3. PICK t : t = [u EXCEPT !.field = i, !.filter = <<>>]
    OBVIOUS
  <2>4. t.overrides = setup.overrides /\ t.model = setup.model
    BY <2>2, <2>3 DEF GoesTo, SetupFields
  <2>5. Sourced(t)
    BY <1>1, <2>4, SourcedSame
  <2> QED
    BY <1>4, <2>1, <2>3, <2>5
<1>5. ASSUME setup' = [setup EXCEPT !.editing = TRUE] PROVE Sourced(setup')
  <2>1. PICK t : t = [setup EXCEPT !.editing = TRUE]
    OBVIOUS
  <2>2. t.overrides = setup.overrides /\ t.model = setup.model /\ t.phase = setup.phase
    BY <1>1, <2>1 DEF SetupFields
  <2> QED
    BY <1>5, <2>1, <2>2, SourcedSame
<1> QED
  BY <1>1, <1>2, <1>3, <1>4, <1>5, SettingPlace, ToggleSourced, CycleSourced

LEMMA PickEntrySourced ==
  ASSUME SetupInv(setup), Sourced(setup), PickEntry
  PROVE  Sourced(setup')
<1>1. setup.phase = "picker" /\ DOMAIN setup = SetupFields /\ setup.overrides # Nil
  BY DEF PickEntry, Picked, At, SetupInv, Shaped, Sourced
<1>2. PICK i : i = setup.field
  OBVIOUS
<1>3. PICK v : setup' = SetValue(ToSetting(setup), i, Parsed(i, v))
  BY <1>2 DEF PickEntry
<1>4. i \in 0..(Len(Fields) - 1)
  BY <1>1, <1>2, WizardAssumption DEF SetupInv, Shaped, WizardAssumption
<1>5. PICK u : u = GoTo(setup, "settings")
  OBVIOUS
<1>6. GoesTo(setup, u, "settings")
  BY <1>1, <1>5, GoToDoes
<1>7. PICK t : t = ToSetting(setup)
  OBVIOUS
<1>8. DOMAIN t = SetupFields /\ t.overrides = setup.overrides /\ t.model = setup.model
  BY <1>5, <1>6, <1>7 DEF ToSetting, GoesTo, SetupFields
<1>9. Sourced(t)
  BY <1>1, <1>8, SourcedSame
<1>10. Sourced(SetValue(t, i, Parsed(i, v)))
  BY <1>1, <1>4, <1>8, <1>9, WindowIsInt, SetValueSourced
<1> QED
  BY <1>3, <1>7, <1>10

LEMMA ConfigEditSourced ==
  ASSUME NEW text, SetupInv(setup), Sourced(setup), ConfigEdit(text)
  PROVE  Sourced(setup')
<1>1. setup.phase = "settings" /\ setup.cursor < Len(Fields) /\ DOMAIN setup = SetupFields
  BY DEF ConfigEdit, SetupInv, Shaped
<1>2. setup.overrides # Nil /\ setup.cursor \in 0..(Len(Fields) - 1)
  BY <1>1, SettingPlace DEF Sourced
<1>3. PICK t : t = [setup EXCEPT !.editing = FALSE]
  OBVIOUS
<1>4. /\ DOMAIN t = SetupFields /\ t.overrides = setup.overrides /\ t.model = setup.model
      /\ t.phase = setup.phase
  BY <1>1, <1>3 DEF SetupFields
<1>5. Sourced(t)
  BY <1>4, SourcedSame
<1>6. PICK i : i = setup.cursor
  OBVIOUS
<1>7. Sourced(SetValue(t, i, Parsed(i, text)))
  BY <1>2, <1>4, <1>5, <1>6, WindowIsInt, SetValueSourced
<1>8. setup' = t \/ setup' = SetValue(t, i, Parsed(i, text))
  BY <1>3, <1>6 DEF ConfigEdit
<1> QED
  BY <1>5, <1>7, <1>8

LEMMA TextEnterSourced ==
  ASSUME SetupInv(setup), Sourced(setup), TextEnter
  PROVE  Sourced(setup')
<1>1. DOMAIN setup = SetupFields
  BY DEF SetupInv, Shaped
<1>2. CASE setup.input = "provider"
  <2>1. PICK t : t = [setup EXCEPT !.provider = "typed", !.input = "model"]
    OBVIOUS
  <2>2. t.overrides = setup.overrides /\ t.model = setup.model /\ t.phase = setup.phase
    BY <1>1, <2>1 DEF SetupFields
  <2>3. setup' = t
    BY <1>2, <2>1 DEF TextEnter
  <2> QED
    BY <2>2, <2>3, SourcedSame
<1>3. CASE setup.input # "provider"
  <2>1. PICK u : u = GoTo(setup, "mode")
    OBVIOUS
  <2>2. GoesTo(setup, u, "mode")
    BY <1>1, <2>1, GoToDoes
  <2>3. PICK k : k = IF setup.phase = "model" THEN Groups[setup.group].key ELSE u.provider
    OBVIOUS
  <2>4. PICK t : t = [u EXCEPT !.input = "off", !.model = "typed", !.overrides = SavedOverrides,
                                !.provider = k]
    OBVIOUS
  <2>5. setup' = t
    BY <1>3, <2>1, <2>3, <2>4 DEF TextEnter
  <2>6. t.overrides = SavedOverrides
    BY <2>2, <2>4 DEF GoesTo, SetupFields
  <2> QED
    BY <2>5, <2>6, ChoosesSourced DEF Chooses
<1> QED
  BY <1>2, <1>3

\* A key that goes on with the screen, or ends it with what was chosen, or
\* gives the choice up.
LEMMA WizardSourced ==
  ASSUME SetupInv(setup), Sourced(setup), WizardNext
  PROVE  \/ screen' = "setup" /\ Sourced(setup')
         \/ screen' = "main" /\ (Windowed(setup') \/ GivenUp')
<1>0. DOMAIN setup = SetupFields /\ setup.phase \in Phases
  BY DEF SetupInv, Shaped
<1>1. Sourced(setup') => Windowed(setup')
  BY DEF Sourced
<1>2. CASE Splash
  BY <1>2 DEF Splash
<1>3. CASE Up \/ Down
  <2>1. PICK c : setup' = MoveTo(setup, c)
    BY <1>3 DEF Up, Down
  <2>2. /\ MoveTo(setup, c).overrides = setup.overrides /\ MoveTo(setup, c).model = setup.model
        /\ MoveTo(setup, c).phase = setup.phase
    BY <1>0 DEF MoveTo, SetupFields
  <2>3. screen' = "setup"
    BY <1>3 DEF Up, Down, InMenu
  <2> QED
    BY <2>1, <2>2, <2>3, SourcedSame
<1>4. CASE Backspace \/ Esc \/ \E letter \in Letters : Type(letter)
  <2>1. setup' = Back(setup) \/ \E f : setup' = Typed(setup, f)
    BY <1>4 DEF Backspace, Type, Esc
  <2>2. \A f : /\ Typed(setup, f).overrides = setup.overrides /\ Typed(setup, f).model = setup.model
               /\ Typed(setup, f).phase = setup.phase
    BY <1>0 DEF Typed, Top, SetupFields
  <2>3. Sourced(setup')
    BY <1>0, <2>1, <2>2, BackSame, SourcedSame
  <2>4. screen' = "setup"
    BY <1>4 DEF Backspace, Type, Esc, InMenu
  <2> QED
    BY <2>3, <2>4
<1>5. CASE Quit \/ PickMain
  <2>1. CASE setup' = GoTo(setup, "provider") /\ screen' = "setup"
    <3>1. GoesTo(setup, setup', "provider")
      BY <1>0, <2>1, GoToDoes
    <3> QED
      BY <2>1, <3>1, SourcedSame DEF GoesTo
  <2>2. CASE setup' = [setup EXCEPT !.provider = "", !.model = ""] /\ screen' = "main"
    <3>1. setup'.overrides = setup.overrides /\ setup'.provider = ""
      BY <1>0, <2>2 DEF SetupFields
    <3> QED
      BY <2>2, <3>1 DEF Windowed, GivenUp
  <2> QED
    BY <1>5, <2>1, <2>2 DEF Quit, PickMain, At, InMenu
<1>6. CASE \E dir \in {-1, 1} : Turn(dir)
  <2>1. PICK dir \in {-1, 1} : Turn(dir)
    BY <1>6
  <2>2. /\ screen' = "setup" /\ setup.overrides # Nil
        /\ setup.cursor \in 0..(Len(Fields) - 1)
    BY <2>1, SettingPlace DEF Turn, At, InMenu, Sourced
  <2>3. \/ Kind(setup.cursor) = "cycle" /\ setup' = CycleOption(setup, setup.cursor, dir)
        \/ Kind(setup.cursor) = "bool" /\ setup' = ToggleBool(setup, setup.cursor)
    BY <2>1 DEF Turn
  <2> QED
    BY <2>2, <2>3, ToggleSourced, CycleSourced
<1>7. CASE PickGroup \/ PickAuth \/ PickCategory \/ TextEsc
  <2>1. screen' = "setup"
    BY <1>7 DEF PickGroup, PickAuth, PickCategory, TextEsc, Picked, At, InMenu
  <2>2. ASSUME NEW s, DOMAIN s = SetupFields, s.overrides = setup.overrides, s.model = setup.model,
               NEW p \in {"auth", "category", "model"}, setup' = GoTo(s, p)
        PROVE  Sourced(setup')
    <3>1. GoesTo(s, setup', p)
      BY <2>2, GoToDoes
    <3> QED
      BY <2>2, <3>1, SourcedSame DEF GoesTo
  <2>3. ASSUME NEW i, NEW s, s = [setup EXCEPT !.filter = <<>>, !.input = i] \/ s = [setup EXCEPT !.input = i],
               setup' = s
        PROVE  Sourced(setup')
    <3>1. s.overrides = setup.overrides /\ s.model = setup.model /\ s.phase = setup.phase
      BY <1>0, <2>3 DEF SetupFields
    <3> QED
      BY <2>3, <3>1, SourcedSame
  <2>4. CASE PickGroup
    <3>1. PICK s : s = [setup EXCEPT !.filter = <<>>, !.group = Resolved(setup)]
      OBVIOUS
    <3>2. DOMAIN s = SetupFields /\ s.overrides = setup.overrides /\ s.model = setup.model
      BY <1>0, <3>1 DEF SetupFields
    <3>3. \/ setup' = [setup EXCEPT !.filter = <<>>, !.input = "provider"]
          \/ \E p \in {"auth", "category", "model"} : setup' = GoTo(s, p)
      BY <2>4, <3>1 DEF PickGroup, ToModels
    <3> QED
      BY <2>1, <2>2, <2>3, <3>2, <3>3
  <2>5. CASE PickAuth
    <3>1. \E p \in {"auth", "category", "model"} : setup' = GoTo(setup, p)
      BY <2>5 DEF PickAuth, ToModels
    <3> QED
      BY <1>0, <2>1, <2>2, <3>1
  <2>6. CASE PickCategory
    <3>1. PICK u : u = GoTo(setup, "model")
      OBVIOUS
    <3>2. GoesTo(setup, u, "model")
      BY <1>0, <3>1, GoToDoes
    <3>3. PICK t : t = [u EXCEPT !.filter = <<>>, !.category = Resolved(setup)]
      OBVIOUS
    <3>4. t.overrides = setup.overrides /\ t.model = setup.model /\ t.phase = "model"
      BY <3>2, <3>3 DEF GoesTo, SetupFields
    <3>5. setup' = t
      BY <2>6, <3>1, <3>3 DEF PickCategory
    <3> QED
      BY <2>1, <3>4, <3>5, SourcedSame
  <2>7. CASE TextEsc
    BY <2>1, <2>3, <2>7 DEF TextEsc
  <2> QED
    BY <1>7, <2>4, <2>5, <2>6, <2>7
<1>8. CASE PickModel
  BY <1>8, PickModelSourced DEF PickModel, Picked, At, InMenu
<1>9. CASE PickMode
  BY <1>9, <1>1, PickModeSourced DEF PickMode, At, InMenu
<1>10. CASE PickSetting
  BY <1>10, <1>1, PickSettingSourced DEF PickSetting, At, InMenu
<1>11. CASE PickEntry
  BY <1>11, PickEntrySourced DEF PickEntry, Picked, At, InMenu
<1>12. CASE PickNothing
  BY <1>12, NewSourced DEF PickNothing, Sourced
<1>13. CASE TextEnter
  BY <1>13, TextEnterSourced DEF TextEnter
<1>14. CASE \E text \in {"", "shown", "number", "word"} : ConfigEdit(text)
  BY <1>14, ConfigEditSourced DEF ConfigEdit
<1> QED
  BY <1>2, <1>3, <1>4, <1>5, <1>6, <1>7, <1>8, <1>9, <1>10, <1>11, <1>12, <1>13, <1>14 DEF WizardNext

\* The configuration, as the proofs see it.
ConfigFields == {"provider", "model", "window"}

LaunchInv ==
  /\ DOMAIN file = ConfigFields /\ file.window = "file"
  /\ DOMAIN config = ConfigFields
  /\ screen \notin {"key", "agent"} => config.window = "file"
  /\ screen \in {"splash", "setup"} => Sourced(setup)
  /\ screen = "main" => Windowed(setup) \/ GivenUp
  /\ screen \in {"key", "agent"} => GivenUp \/ config.window \in {"file", "number", config.model}

LEMMA FilesType ==
  ASSUME NEW f \in Files
  PROVE  DOMAIN f = ConfigFields /\ f.window = "file"
  BY LaunchAssumption DEF LaunchAssumption, ConfigFields

LEMMA ChosenFacts ==
  ASSUME NEW c, DOMAIN c = ConfigFields, c.window = "file"
  PROVE  /\ DOMAIN Chosen(c) = ConfigFields /\ Chosen(c).window = "file"
         /\ setup.provider # "" => Chosen(c).model = setup.model
  BY DEF Chosen, ConfigFields

\* The sizes come first, then what the user set.
LEMMA ConfigureKept ==
  ASSUME LaunchInv, Configure
  PROVE  LaunchInv'
<1>1. PICK answers \in BOOLEAN, written \in BOOLEAN :
        LET cfg == Chosen(config)
            sized == ResolveModelInfo(cfg, answers)
        IN /\ file' = IF setup.provider # "" /\ written THEN SavedConfig(config, sized) ELSE file
           /\ IF cfg.provider = "" \/ cfg.model = ""
              THEN screen' = "off" /\ setup' = NewSetup /\ config' = file' /\ UNCHANGED known
              ELSE /\ screen' = "key"
                   /\ config' = Override(sized)
                   /\ known' = SaveModelsCache(sized)
                   /\ UNCHANGED setup
  BY DEF Configure
<1>2. PICK cfg : cfg = Chosen(config)
  OBVIOUS
<1>3. PICK sized : sized = ResolveModelInfo(cfg, answers)
  OBVIOUS
<1>4. screen = "main" /\ DOMAIN config = ConfigFields /\ config.window = "file"
  BY DEF Configure, LaunchInv
<1>5. /\ DOMAIN cfg = ConfigFields /\ cfg.window = "file"
      /\ setup.provider # "" => cfg.model = setup.model
  BY <1>2, <1>4, ChosenFacts
<1>6. /\ DOMAIN sized = ConfigFields /\ sized.window \in {"file", cfg.model} /\ sized.model = cfg.model
  BY <1>3, <1>5 DEF ResolveModelInfo, ConfigFields
<1>7. DOMAIN file' = ConfigFields /\ file'.window = "file"
  BY <1>1, <1>2, <1>4, <1>5 DEF SavedConfig, LaunchInv
<1>8. CASE screen' = "off"
  BY <1>1, <1>7, <1>8 DEF LaunchInv
<1>9. CASE screen' # "off"
  <2>1. screen' = "key" /\ config' = Override(sized) /\ setup' = setup
    BY <1>1, <1>2, <1>3, <1>9
  <2>2. PICK c : c = Override(sized)
    OBVIOUS
  <2>3. DOMAIN c = ConfigFields /\ c.model = cfg.model
    BY <1>6, <2>2 DEF Override, ConfigFields
  <2>4. Windowed(setup) \/ GivenUp
    BY <1>4 DEF LaunchInv
  <2>5. CASE GivenUp
    BY <1>7, <2>1, <2>2, <2>3, <2>5 DEF LaunchInv, GivenUp
  <2>6. CASE Windowed(setup) /\ ~GivenUp
    <3>1. setup.overrides = Nil \/ setup.provider # ""
      BY <2>6 DEF GivenUp
    <3>2. c.window \in {"file", "number", c.model}
      <4>1. CASE setup.overrides = Nil \/ setup.overrides.window = "auto"
        BY <1>6, <2>2, <2>3, <4>1 DEF Override
      <4>2. CASE ~(setup.overrides = Nil \/ setup.overrides.window = "auto")
        <5>1. c.window = setup.overrides.window
          BY <1>6, <2>2, <4>2 DEF Override, ConfigFields
        <5> QED
          BY <1>5, <2>3, <2>6, <3>1, <4>2, <5>1 DEF Windowed
      <4> QED
        BY <4>1, <4>2
    <3> QED
      BY <1>7, <2>1, <2>2, <2>3, <3>2 DEF LaunchInv
  <2> QED
    BY <2>4, <2>5, <2>6
<1> QED
  BY <1>8, <1>9

LEMMA LaunchKept ==
  ASSUME SetupInv(setup), LaunchInv, [Next]_vars
  PROVE  LaunchInv'
<1>1. CASE Start
  BY <1>1, NewSourced DEF Start, LaunchInv, Sourced
<1>2. CASE Configure
  BY <1>2, ConfigureKept
<1>3. CASE SignIn \/ Served
  <2>1. CASE End /\ file' = file
    BY <2>1 DEF End, LaunchInv
  <2>2. CASE screen = "key" /\ screen' = "agent" /\ UNCHANGED <<setup, config, file>>
    BY <2>2 DEF LaunchInv, GivenUp
  <2> QED
    BY <1>3, <2>1, <2>2 DEF SignIn, Served
<1>4. CASE WizardNext /\ UNCHANGED launchVars
  <2>1. file' = file /\ config' = config
    BY <1>4 DEF launchVars
  <2>2. screen \in {"splash", "setup"}
    BY <1>4, WizardScreens
  <2>3. Sourced(setup) /\ config.window = "file"
    BY <2>2 DEF LaunchInv
  <2> QED
    BY <1>4, <2>1, <2>3, WizardSourced DEF LaunchInv
<1>5. CASE OpenChat
  BY <1>5, FilesType DEF OpenChat, LaunchInv
<1>6. CASE Leave
  <2>1. screen = "chat" /\ screen' = "closed" /\ file' = file /\ config' = config
    BY <1>6 DEF Leave, launchVars
  <2> QED
    BY <2>1 DEF LaunchInv
<1>7. CASE UNCHANGED setupVars
  BY <1>7 DEF setupVars, launchVars, LaunchInv, GivenUp
<1> QED
  BY <1>1, <1>2, <1>3, <1>4, <1>5, <1>6, <1>7, StepKinds DEF LaunchNext

\* The agent is started with a context window that is its model's, the user's or
\* the file's (main.go: the choice, the sizes of the model, the overrides), unless
\* a choice was begun and given up.
THEOREM WindowOwned == Spec => []OwnWindow
<1> DEFINE Inv == SetupInv(setup) /\ LaunchInv
<1>1. Init => Inv
  <2> SUFFICES ASSUME Init PROVE Inv
    OBVIOUS
  <2>1. /\ screen = "off" /\ setup = NewSetup /\ file \in Files /\ config = file
    BY DEF Init, LaunchInit
  <2> QED
    BY <2>1, NewKept, FilesType DEF LaunchInv
<1>2. Inv /\ [Next]_vars => Inv'
  BY SetupKept, LaunchKept
<1>3. Inv => OwnWindow
  BY DEF LaunchInv, OwnWindow
<1> QED
  BY <1>1, <1>2, <1>3, PTL DEF Spec

----------------------------------------------------------------------------
\* The list of messages.

Texts == {"", "note", "other", "part", "mixed", "answer"}
Msg == [text : Texts, of : Nat]

\* Every answer of ms is in ns, where it was.
Keeps(ms, ns) ==
  \A i \in DOMAIN ms : ms[i].text = "answer" => i \in DOMAIN ns /\ ns[i] = ms[i]

\* The last message may still be written to.
Unanswered(ms) == ms # <<>> => Last(ms).text # "answer"

LEMMA KeepsTwice ==
  ASSUME NEW ms, NEW ns, NEW ks, Keeps(ms, ns), Keeps(ns, ks)
  PROVE  Keeps(ms, ks)
  BY DEF Keeps

LEMMA AppendKeeps ==
  ASSUME NEW ms \in Seq(Msg), NEW m \in Msg, m.text # "answer"
  PROVE  /\ Append(ms, m) \in Seq(Msg)
         /\ Keeps(ms, Append(ms, m))
         /\ Unanswered(Append(ms, m))
  BY DEF Keeps, Unanswered, Last

\* The last message, no answer, is left out.
LEMMA FrontKeeps ==
  ASSUME NEW ms \in Seq(Msg), ms # <<>>, Unanswered(ms)
  PROVE  Front(ms) \in Seq(Msg) /\ Keeps(ms, Front(ms))
<1>1. Front(ms) = SubSeq(ms, 1, Len(ms) - 1) /\ Len(ms) \in Nat \ {0}
  BY DEF Front
<1>2. Front(ms) \in Seq(Msg)
  BY <1>1
<1>3. ASSUME NEW i \in DOMAIN ms, ms[i].text = "answer"
      PROVE  i \in DOMAIN Front(ms) /\ Front(ms)[i] = ms[i]
  <2>1. i # Len(ms)
    BY <1>3 DEF Unanswered, Last
  <2> QED
    BY <1>1, <2>1
<1> QED
  BY <1>2, <1>3 DEF Keeps

LEMMA WithOtherKeeps ==
  ASSUME NEW ms \in Seq(Msg)
  PROVE  /\ WithOther(ms) \in Seq(Msg)
         /\ Keeps(ms, WithOther(ms))
         /\ Unanswered(WithOther(ms))
<1>1. Other \in Msg /\ Other.text # "answer"
  BY DEF Other, Msg, Texts
<1>2. CASE ms # <<>> /\ Last(ms) = Other
  BY <1>1, <1>2 DEF WithOther, Keeps, Unanswered
<1>3. CASE ~(ms # <<>> /\ Last(ms) = Other)
  <2>1. WithOther(ms) = Append(ms, Other)
    BY <1>3 DEF WithOther
  <2> QED
    BY <1>1, <2>1, AppendKeeps
<1> QED
  BY <1>2, <1>3

LEMMA DropEmptyKeeps ==
  ASSUME NEW ms \in Seq(Msg)
  PROVE  DropEmpty(ms) \in Seq(Msg) /\ Keeps(ms, DropEmpty(ms))
<1>1. CASE LastIsEmpty(ms)
  <2>1. ms # <<>> /\ Last(ms) = Placeholder
    BY <1>1 DEF LastIsEmpty
  <2>2. Placeholder.text # "answer"
    BY DEF Placeholder
  <2>3. Unanswered(ms)
    BY <2>1, <2>2 DEF Unanswered
  <2> QED
    BY <1>1, <2>1, <2>3, FrontKeeps DEF DropEmpty
<1>2. CASE ~LastIsEmpty(ms)
  BY <1>2 DEF DropEmpty, Keeps
<1> QED
  BY <1>1, <1>2

\* Another text for the last message, no answer until now.
LEMMA WithLastKeeps ==
  ASSUME NEW ms \in Seq(Msg), ms # <<>>, Unanswered(ms), NEW m \in Msg
  PROVE  /\ WithLast(ms, m) \in Seq(Msg) /\ Keeps(ms, WithLast(ms, m))
         /\ m.text # "answer" => Unanswered(WithLast(ms, m))
<1>1. Front(ms) \in Seq(Msg) /\ Keeps(ms, Front(ms))
  BY FrontKeeps
<1>2. PICK f \in Seq(Msg) : f = Front(ms)
  BY <1>1
<1>3. Append(f, m) \in Seq(Msg) /\ Keeps(f, Append(f, m))
  BY DEF Keeps
<1>4. m.text # "answer" => Unanswered(Append(f, m))
  BY AppendKeeps
<1> QED
  BY <1>1, <1>2, <1>3, <1>4, KeepsTwice DEF WithLast

LEMMA AppendDeltaKeeps ==
  ASSUME NEW ms \in Seq(Msg), Unanswered(ms), NEW r \in Nat
  PROVE  /\ AppendDelta(ms, r) \in Seq(Msg)
         /\ Keeps(ms, AppendDelta(ms, r))
         /\ Unanswered(AppendDelta(ms, r))
<1>1. CASE ~LastIsAssistant(ms)
  BY <1>1 DEF AppendDelta, Keeps
<1>2. CASE LastIsAssistant(ms)
  <2>1. ms # <<>>
    BY <1>2 DEF LastIsAssistant
  <2>2. PICK m \in {[text |-> "part", of |-> r], [text |-> "mixed", of |-> 0]} :
          AppendDelta(ms, r) = WithLast(ms, m)
    BY <1>2 DEF AppendDelta
  <2>3. \A n \in {[text |-> "part", of |-> r], [text |-> "mixed", of |-> 0]} :
          n \in Msg /\ n.text # "answer"
    <3>1. [text |-> "part", of |-> r] \in Msg /\ [text |-> "mixed", of |-> 0] \in Msg
      BY DEF Msg, Texts
    <3>2. /\ [text |-> "part", of |-> r].text # "answer"
          /\ [text |-> "mixed", of |-> 0].text # "answer"
      OBVIOUS
    <3> QED
      BY <3>1, <3>2, Zenon
  <2> QED
    BY <2>1, <2>2, <2>3, WithLastKeeps
<1> QED
  BY <1>1, <1>2

LEMMA FinalizedKeeps ==
  ASSUME NEW ms \in Seq(Msg), Unanswered(ms), NEW r \in Nat, NEW answer
  PROVE  Finalized(ms, r, answer) \in Seq(Msg) /\ Keeps(ms, Finalized(ms, r, answer))
<1>1. CASE answer = "text" /\ LastIsAssistant(ms)
  <2>1. ms # <<>>
    BY <1>1 DEF LastIsAssistant
  <2>2. PICK m : m = [text |-> "answer", of |-> r]
    OBVIOUS
  <2>3. m \in Msg /\ Finalized(ms, r, answer) = WithLast(ms, m)
    BY <1>1, <2>2 DEF Finalized, Msg, Texts
  <2> QED
    BY <2>1, <2>3, WithLastKeeps
<1>2. CASE ~(answer = "text" /\ LastIsAssistant(ms))
  BY <1>2, DropEmptyKeeps DEF Finalized
<1> QED
  BY <1>1, <1>2

----------------------------------------------------------------------------
\* The second chat screen.

Run == [at : {"running", "over", "shown"},
        next : {"text", "tool", "folded", "end", "none", "error"},
        left : Int]

Waiter(w) == DOMAIN w = {"on", "got"} /\ w.on \in Nat /\ w.got.of \in Nat

Waiting(ws) ==
  /\ DOMAIN ws = DOMAIN Events
  /\ \A r \in DOMAIN Events : DOMAIN ws[r] = Names /\ \A n \in Names : Waiter(ws[r][n])

\* While the screen reads a run's events the last message may be written to;
\* and it reads them until the end of the run is shown.
TuiBInv ==
  /\ messages \in Seq(Msg)
  /\ reading \in [Names -> Nat]
  /\ runs \in Seq(Run)
  /\ Waiting(waiters)
  /\ reading["event"] # 0 => Unanswered(messages)
  /\ \A r \in DOMAIN runs :
       runs[r].at # "shown" => r = Len(runs) /\ processing = TRUE /\ reading["event"] # 0

Fresh ==
  /\ messages = <<>> /\ processing = FALSE /\ runs = <<>>
  /\ reading = [n \in Names |-> 0]
  /\ waiters = [r \in DOMAIN Events |-> [n \in Names |-> Resting]]

ChatInv ==
  /\ screen = "chat" => kind \in {"tui", "tui-b"}
  /\ screen # "chat" => kind = "none" /\ Fresh
  /\ kind = "tui-b" => TuiBInv

\* What AnswerKept says of a step.
Kept == Keeps(messages, messages') \/ messages' \in {Wiped, <<>>}

\* What is shown changes, and nothing of the runs.
LEMMA ShowKept ==
  ASSUME TuiBInv, messages' \in Seq(Msg), reading["event"] # 0 => Unanswered(messages'),
         UNCHANGED <<processing, reading, runs>>, Waiting(waiters')
  PROVE  TuiBInv'
  BY DEF TuiBInv

LEMMA NotesKept ==
  ASSUME TuiBInv, UNCHANGED <<processing, reading, runs, waiters>>,
         messages' \in {Wiped} \cup Told
  PROVE  TuiBInv' /\ Kept
<1>1. messages \in Seq(Msg) /\ Waiting(waiters')
  BY DEF TuiBInv
<1>2. Note \in Msg /\ Note.text # "answer"
  BY DEF Note, Msg, Texts
<1>3. CASE messages' = Wiped
  <2>1. Wiped \in Seq(Msg) /\ Unanswered(Wiped)
    BY <1>2 DEF Wiped, Unanswered, Last
  <2> QED
    BY <1>1, <1>3, <2>1, ShowKept DEF Kept
<1>4. CASE messages' = WithOther(messages)
  BY <1>1, <1>4, ShowKept, WithOtherKeeps DEF Kept
<1>5. CASE messages' = Append(messages, Note)
  BY <1>1, <1>2, <1>5, ShowKept, AppendKeeps DEF Kept
<1> QED
  BY <1>3, <1>4, <1>5 DEF Told

\* A waiter takes an event, or goes on after one.
LEMMA WaitingKept ==
  ASSUME NEW ws, Waiting(ws), NEW r \in DOMAIN Events, NEW n \in Names
  PROVE  /\ \A x : x.of \in Nat => Waiting([ws EXCEPT ![r][n].got = x])
         /\ \A w : Waiter(w) => Waiting([ws EXCEPT ![r][n] = w])
         /\ \A f : (DOMAIN f = Names /\ \A m \in Names : Waiter(f[m])) => Waiting([ws EXCEPT ![r] = f])
<1>1. ASSUME NEW f, DOMAIN f = Names, \A m \in Names : Waiter(f[m])
      PROVE  Waiting([ws EXCEPT ![r] = f])
  BY <1>1 DEF Waiting
<1>2. ASSUME NEW w, Waiter(w) PROVE Waiting([ws EXCEPT ![r][n] = w])
  <2>1. PICK f : f = [ws[r] EXCEPT ![n] = w]
    OBVIOUS
  <2>2. DOMAIN f = Names /\ \A m \in Names : Waiter(f[m])
    BY <1>2, <2>1 DEF Waiting
  <2>3. [ws EXCEPT ![r][n] = w] = [ws EXCEPT ![r] = f]
    BY <2>1
  <2> QED
    BY <1>1, <2>2, <2>3
<1>3. ASSUME NEW x, x.of \in Nat PROVE Waiting([ws EXCEPT ![r][n].got = x])
  <2>1. PICK w : w = [ws[r][n] EXCEPT !.got = x]
    OBVIOUS
  <2>2. Waiter(w)
    BY <1>3, <2>1 DEF Waiting, Waiter
  <2>3. [ws EXCEPT ![r][n].got = x] = [ws EXCEPT ![r][n] = w]
    BY <2>1
  <2> QED
    BY <1>2, <2>2, <2>3
<1> QED
  BY <1>1, <1>2, <1>3

LEMMA StartRunKept ==
  ASSUME TuiBInv, kind = "tui-b", ~processing, StartRun
  PROVE  TuiBInv' /\ Kept
<1>1. PICK r : r = Len(runs) + 1
  OBVIOUS
<1>2. PICK next \in NextOf(Events[r]) :
        runs' = Append(runs, [at |-> "running", next |-> next, left |-> Events[r]])
  BY <1>1 DEF StartRun
<1>3. /\ messages' = Append(WithOther(messages), Placeholder)
      /\ processing' = TRUE
      /\ reading' = [n \in Names |-> IF n \in Channels THEN r ELSE 0]
      /\ waiters' = [waiters EXCEPT ![r] = Waiters(r)]
      /\ Len(runs) < Len(Events)
  BY <1>1 DEF StartRun
<1>4. /\ runs \in Seq(Run) /\ messages \in Seq(Msg) /\ Waiting(waiters) /\ Events \in Seq(Nat)
      /\ \A q \in DOMAIN runs : runs[q].at = "shown"
  BY ChatAssumption DEF TuiBInv, ChatAssumption
<1>5. r \in DOMAIN Events /\ r \in Nat /\ Events[r] \in Nat
  BY <1>1, <1>3, <1>4
<1>6. "event" \in Names /\ Channels = {"event"}
  BY DEF Names, Channels
<1>7. reading' \in [Names -> Nat] /\ reading'["event"] = r /\ r # 0
  BY <1>1, <1>3, <1>4, <1>5, <1>6
<1>8. PICK run : run = [at |-> "running", next |-> next, left |-> Events[r]]
  OBVIOUS
<1>9. run \in Run
  <2>1. next \in {"text", "tool", "folded", "end"}
    BY DEF NextOf
  <2> QED
    BY <1>5, <1>8, <2>1 DEF Run
<1>10. runs' \in Seq(Run) /\ \A q \in DOMAIN runs' : runs'[q].at # "shown" => q = Len(runs')
  BY <1>2, <1>4, <1>8, <1>9
<1>11. Waiting(waiters')
  <2>1. DOMAIN Waiters(r) = Names /\ \A m \in Names : Waiter(Waiters(r)[m])
    BY <1>5 DEF Waiters, Waiter, Nothing
  <2> QED
    BY <1>3, <1>4, <1>5, <2>1, WaitingKept DEF Names
<1>12. Placeholder \in Msg /\ Placeholder.text # "answer"
  BY DEF Placeholder, Msg, Texts
<1>13. PICK ms \in Seq(Msg) : ms = WithOther(messages) /\ Keeps(messages, ms)
  BY <1>4, WithOtherKeeps
<1>14. messages' \in Seq(Msg) /\ Keeps(ms, messages') /\ Unanswered(messages')
  BY <1>3, <1>12, <1>13, AppendKeeps
<1>15. Kept
  BY <1>13, <1>14, KeepsTwice DEF Kept
<1> QED
  BY <1>3, <1>7, <1>10, <1>11, <1>14, <1>15 DEF TuiBInv

LEMMA StreamEventKept ==
  ASSUME TuiBInv, NEW r \in DOMAIN Events, HandleStreamEvent(r)
  PROVE  TuiBInv' /\ Kept
<1>1. PICK got : got = waiters[r]["event"].got
  OBVIOUS
<1>2. /\ messages' = CASE got.what = "text" -> ShownText(messages, got.of)
                        [] got.what = "tool" -> AddToolCard(messages)
                        [] OTHER -> messages
      /\ waiters' = Rearm(r, "event") /\ UNCHANGED <<processing, reading, runs>>
  BY <1>1 DEF HandleStreamEvent, Handle
<1>3. "event" \in Names
  BY DEF Names
<1>4. got.of \in Nat /\ messages \in Seq(Msg) /\ reading["event"] \in Nat /\ Waiting(waiters)
  BY <1>1, <1>3 DEF TuiBInv, Waiting, Waiter
<1>5. Waiting(waiters')
  <2>1. Waiter([on |-> reading["event"], got |-> Nothing])
    BY <1>4 DEF Waiter, Nothing
  <2> QED
    BY <1>2, <1>3, <1>4, <2>1, WaitingKept DEF Rearm
<1>6. CASE got.what = "text"
  <2>1. messages' = ShownText(messages, got.of)
    BY <1>2, <1>6
  <2>2. CASE reading["event"] # 0
    <3>1. messages' = AppendDelta(messages, got.of) /\ Unanswered(messages)
      BY <2>1, <2>2 DEF ShownText, TuiBInv
    <3> QED
      BY <1>2, <1>4, <1>5, <3>1, AppendDeltaKeeps, ShowKept DEF Kept
  <2>3. CASE reading["event"] = 0
    <3>1. messages' = messages
      BY <2>1, <2>3 DEF ShownText
    <3> QED
      BY <1>2, <1>4, <1>5, <2>3, <3>1, ShowKept DEF Kept, Keeps
  <2> QED
    BY <2>2, <2>3
<1>7. CASE got.what = "tool"
  <2>1. messages' = Append(WithOther(DropEmpty(messages)), Placeholder)
    BY <1>2, <1>7 DEF AddToolCard
  <2>2. PICK ms \in Seq(Msg) : ms = DropEmpty(messages) /\ Keeps(messages, ms)
    BY <1>4, DropEmptyKeeps
  <2>3. PICK ns \in Seq(Msg) : ns = WithOther(ms) /\ Keeps(ms, ns)
    BY WithOtherKeeps
  <2>4. Placeholder \in Msg /\ Placeholder.text # "answer"
    BY DEF Placeholder, Msg, Texts
  <2>5. messages' \in Seq(Msg) /\ Keeps(ns, messages') /\ Unanswered(messages')
    BY <2>1, <2>2, <2>3, <2>4, AppendKeeps
  <2>6. Keeps(messages, messages')
    BY <2>2, <2>3, <2>5, KeepsTwice
  <2> QED
    BY <1>2, <1>5, <2>5, <2>6, ShowKept DEF Kept
<1>8. CASE got.what \notin {"text", "tool"}
  <2>1. messages' = messages
    BY <1>2, <1>8
  <2> QED
    BY <1>2, <1>4, <1>5, <2>1, ShowKept DEF Kept, Keeps, TuiBInv
<1> QED
  BY <1>6, <1>7, <1>8

LEMMA EndKept ==
  ASSUME TuiBInv, NEW r \in DOMAIN runs, HandleEnd(r)
  PROVE  TuiBInv' /\ Kept
<1>1. /\ runs[r].at = "over" /\ processing' = FALSE
      /\ reading' = [reading EXCEPT !["event"] = 0]
      /\ runs' = [runs EXCEPT ![r] = Shown]
      /\ waiters' = waiters
  BY DEF HandleEnd
<1>2. /\ r = Len(runs) /\ Unanswered(messages) /\ messages \in Seq(Msg)
      /\ runs \in Seq(Run) /\ r \in Nat
  BY <1>1 DEF TuiBInv
<1>3. messages' \in Seq(Msg) /\ Keeps(messages, messages')
  <2>1. CASE messages' = Finalized(messages, r, runs[r].next)
    BY <1>2, <2>1, FinalizedKeeps
  <2>2. CASE messages' = WithOther(DropEmpty(messages))
    <3>1. PICK ms \in Seq(Msg) : ms = DropEmpty(messages) /\ Keeps(messages, ms)
      BY <1>2, DropEmptyKeeps
    <3> QED
      BY <2>2, <3>1, WithOtherKeeps, KeepsTwice
  <2> QED
    BY <2>1, <2>2 DEF HandleEnd, HandleAgentDone, HandleAgentError
<1>4. reading' \in [Names -> Nat] /\ reading'["event"] = 0
  BY <1>1 DEF TuiBInv, Names
<1>5. Shown \in Run /\ Shown.at = "shown"
  BY DEF Shown, Run
<1>6. runs' \in Seq(Run) /\ DOMAIN runs' = DOMAIN runs /\ Len(runs') = Len(runs)
  BY <1>1, <1>2, <1>5
<1>7. \A q \in DOMAIN runs' : runs'[q].at = "shown"
  BY <1>1, <1>2, <1>5, <1>6 DEF TuiBInv
<1> QED
  BY <1>1, <1>3, <1>4, <1>6, <1>7 DEF TuiBInv, Kept

\* The goroutine of a run does not touch the screen.
LEMMA AgentKept ==
  ASSUME TuiBInv, NEW r \in DOMAIN runs, Emit(r) \/ EndRun(r)
  PROVE  TuiBInv' /\ Kept
<1>1. UNCHANGED <<messages, processing, reading, waiters>>
  BY DEF Emit, EndRun, screenVars
<1>2. PICK run : /\ runs' = [runs EXCEPT ![r] = run] /\ run \in Run
                 /\ runs[r].at = "running"
  <2>1. runs \in Seq(Run) /\ runs[r] \in Run
    BY DEF TuiBInv
  <2>2. runs[r].left \in Int
    BY <2>1 DEF Run
  <2>3. CASE Emit(r)
    <3>1. PICK next \in NextOf(runs[r].left - 1) :
            runs' = [runs EXCEPT ![r] = [at |-> "running", next |-> next, left |-> runs[r].left - 1]]
      BY <2>3 DEF Emit
    <3>2. [at |-> "running", next |-> next, left |-> runs[r].left - 1] \in Run
      BY <2>2 DEF NextOf, Run
    <3> QED
      BY <2>3, <3>1, <3>2 DEF Emit
  <2>4. CASE EndRun(r)
    <3>1. PICK answer \in {"text", "none", "error"} :
            runs' = [runs EXCEPT ![r] = [at |-> "over", next |-> answer, left |-> 0]]
      BY <2>4 DEF EndRun
    <3>2. [at |-> "over", next |-> answer, left |-> 0] \in Run
      BY DEF Run
    <3> QED
      BY <2>4, <3>1, <3>2 DEF EndRun
  <2> QED
    BY <2>3, <2>4
<1>3. runs \in Seq(Run)
  BY DEF TuiBInv
<1>4. runs' \in Seq(Run) /\ DOMAIN runs' = DOMAIN runs /\ Len(runs') = Len(runs)
  BY <1>2, <1>3
<1>5. ASSUME NEW q \in DOMAIN runs', runs'[q].at # "shown" PROVE runs[q].at # "shown"
  BY <1>2, <1>3, <1>4, <1>5
<1> QED
  BY <1>1, <1>4, <1>5 DEF TuiBInv, Kept, Keeps

LEMMA TakeKept ==
  ASSUME TuiBInv, NEW r \in DOMAIN Events, NEW n \in Names, Take(r, n)
  PROVE  TuiBInv' /\ Kept
<1>1. UNCHANGED <<messages, processing, reading, runs>>
  BY DEF Take, screenVars
<1>2. PICK x : /\ waiters' = [waiters EXCEPT ![r][n].got = x]
               /\ x = [of |-> waiters[r][n].on, what |-> Head(buffers[waiters[r][n].on][n])]
  BY DEF Take
<1>3. x.of \in Nat /\ Waiting(waiters)
  BY <1>2 DEF TuiBInv, Waiting, Waiter
<1>4. Waiting(waiters')
  BY <1>2, <1>3, WaitingKept
<1> QED
  BY <1>1, <1>4, ShowKept DEF TuiBInv, Kept, Keeps

\* What the user does, and what ends beside the agent.
LEMMA UserKept ==
  ASSUME TuiBInv, kind = "tui-b", Typing \/ Unblock \/ WorkflowDone
  PROVE  TuiBInv' /\ Kept
<1>1. CASE HandleSubmit \/ SkillDispatch
  BY <1>1, StartRunKept DEF HandleSubmit, SkillDispatch, SubmitToAgent, MayStart
<1>2. CASE Steer \/ Unblock \/ Interrupt \/ ExecuteCommand \/ ExecuteWorkflow \/ WorkflowDone
  <2>1. UNCHANGED <<processing, reading, runs, waiters>>
    BY <1>2 DEF Steer, Unblock, Interrupt, ExecuteCommand, ExecuteWorkflow, WorkflowDone,
         CmdNew, CmdFork, CmdSwitchByID, CmdCompact, CmdReport, Switches, Reports, ShowNote
  <2>2. messages' = messages \/ messages' \in {Wiped} \cup Told
    BY <1>2 DEF Steer, Unblock, Interrupt, ExecuteCommand, ExecuteWorkflow, WorkflowDone,
         CmdNew, CmdFork, CmdSwitchByID, CmdCompact, CmdReport, Switches, Reports, ShowNote, Told
  <2>3. ASSUME messages' = messages PROVE TuiBInv' /\ Kept
    BY <2>1, <2>3, ShowKept DEF TuiBInv, Kept, Keeps
  <2> QED
    BY <2>1, <2>2, <2>3, NotesKept
<1>3. CASE TuiEnter \/ ExecutePaletteCommand
  BY <1>3 DEF TuiEnter, ExecutePaletteCommand, IsTui
<1> QED
  BY <1>1, <1>2, <1>3 DEF Typing

\* Nothing of the chat changes before and after it.
LEMMA OtherScreens ==
  ASSUME LaunchNext
  PROVE  screen # "chat" /\ screen' # "chat"
<1>1. CASE WizardNext
  BY <1>1, WizardScreens
<1>2. CASE Start \/ Configure \/ SignIn \/ Served
  BY <1>2 DEF Start, Configure, SignIn, Served, End
<1> QED
  BY <1>1, <1>2 DEF LaunchNext

LEMMA ChatKept ==
  ASSUME ChatInv, [Next]_vars
  PROVE  ChatInv' /\ (kind = "tui-b" => Kept)
<1>1. CASE UNCHANGED vars
  BY <1>1 DEF vars, setupVars, chatVars, ChatInv, Fresh, TuiBInv, Waiting, Kept, Keeps
<1>2. CASE LaunchNext /\ UNCHANGED chatVars
  <2>1. screen # "chat" /\ screen' # "chat"
    BY <1>2, OtherScreens
  <2> QED
    BY <1>2, <2>1 DEF chatVars, ChatInv, Fresh, TuiBInv, Waiting
<1>3. CASE OpenChat
  <2>1. /\ screen = "agent" /\ screen' = "chat" /\ kind' \in {"tui", "tui-b"}
        /\ UNCHANGED <<messages, processing, reading, runs, waiters>>
    BY <1>3 DEF OpenChat, screenVars
  <2>2. kind = "none" /\ Fresh
    BY <2>1 DEF ChatInv
  <2>3. TuiBInv'
    <3>1. messages' \in Seq(Msg) /\ runs' \in Seq(Run) /\ DOMAIN runs' = {}
      BY <2>1, <2>2 DEF Fresh
    <3>2. reading' \in [Names -> Nat] /\ reading'["event"] = 0
      BY <2>1, <2>2 DEF Fresh, Names
    <3>3. Waiting(waiters')
      BY <2>1, <2>2 DEF Fresh, Waiting, Waiter, Resting, Nothing
    <3> QED
      BY <3>1, <3>2, <3>3 DEF TuiBInv
  <2> QED
    BY <2>1, <2>2, <2>3 DEF ChatInv
<1>4. CASE Leave
  <2>1. screen' = "closed" /\ kind' = "none" /\ Fresh' /\ messages' = <<>>
    BY <1>4 DEF Leave, Fresh
  <2> QED
    BY <2>1 DEF ChatInv, Kept
<1>5. ASSUME InChat, kind' = kind, kind = "tui-b" => TuiBInv' /\ Kept
      PROVE  ChatInv' /\ (kind = "tui-b" => Kept)
  BY <1>5 DEF InChat, setupVars, ChatInv
<1>6. InChat => (kind = "tui-b" => TuiBInv)
  BY DEF ChatInv
<1>7. CASE Typing \/ (InChat /\ (Unblock \/ WorkflowDone))
  <2>1. InChat
    BY <1>7 DEF Typing
  <2>2. kind' = kind
    BY <1>7 DEF Typing, TuiEnter, HandleSubmit, SkillDispatch, SubmitToAgent, StartRun, Steer, Interrupt,
         ExecutePaletteCommand, ExecuteCommand, ExecuteWorkflow, Unblock, WorkflowDone,
         HandleNewBranch, HandleSwitch, HandleOverlaySession, HandleReport, HandleSkills,
         CmdNew, CmdFork, CmdSwitchByID, CmdCompact, CmdReport, Switches, Reports, ShowNote
  <2> QED
    BY <1>5, <1>6, <1>7, <2>1, <2>2, UserKept
<1>8. ASSUME NEW r \in DOMAIN Events,
             \/ AgentStep(r) \/ TextStep(r) \/ ToolStep(r) \/ StatusStep(r) \/ EndStep(r)
             \/ \E n \in Names : WaiterStep(r, n)
      PROVE  ChatInv' /\ (kind = "tui-b" => Kept)
  <2>1. InChat /\ r \in DOMAIN runs
    BY <1>8 DEF AgentStep, TextStep, ToolStep, StatusStep, EndStep, WaiterStep
  <2>2. kind' = kind
    BY <1>8 DEF AgentStep, TextStep, ToolStep, StatusStep, EndStep, WaiterStep, Emit, EndRun, Take,
         TuiDelta, HandleStreamEvent, TuiTool, TuiStatus, TuiEnd, HandleEnd, Handle
  <2>3. ASSUME kind = "tui-b" PROVE TuiBInv' /\ Kept
    <3>1. \/ Emit(r) \/ EndRun(r) \/ HandleStreamEvent(r) \/ HandleEnd(r)
          \/ \E n \in Names : Take(r, n)
      BY <1>8, <2>3 DEF AgentStep, TextStep, ToolStep, StatusStep, EndStep, WaiterStep,
           TuiDelta, TuiTool, TuiStatus, TuiEnd, IsTui
    <3> QED
      BY <1>6, <2>1, <2>3, <3>1, AgentKept, TakeKept, StreamEventKept, EndKept
  <2> QED
    BY <1>5, <2>1, <2>2, <2>3
<1> QED
  BY <1>1, <1>2, <1>3, <1>4, <1>7, <1>8 DEF Next

\* On the second chat screen no event, late or not, and no later run changes an
\* answer that was shown in full (ui-b/update.go, streaming.go).
THEOREM AnswersStay == Spec => AnswerKept
<1>1. Init => ChatInv
  BY DEF Init, LaunchInit, ChatInit, ChatInv, Fresh
<1>2. ChatInv /\ [Next]_vars => ChatInv'
  BY ChatKept
<1>3. ASSUME ChatInv, [Next]_vars
      PROVE  [kind = "tui-b" =>
               \A i \in DOMAIN messages :
                 messages[i].text = "answer" =>
                   messages' \in {Wiped, <<>>} \/ (i \in DOMAIN messages' /\ messages'[i] = messages[i])]_messages
  <2>1. kind = "tui-b" => Kept
    BY <1>3, ChatKept
  <2> QED
    BY <2>1 DEF Kept, Keeps
<1> QED
  BY <1>1, <1>2, <1>3, PTL DEF Spec, AnswerKept
=============================================================================
