--------------------------- MODULE Viewer_proofs ---------------------------
(***************************************************************************)
(* Proofs about the viewer's smaller parts, each a machine of its own: the *)
(* dropdowns, for any columns, values, texts and rows; the sidebar of      *)
(* expressions, for any columns, expressions and roles; the window editor, *)
(* for any Tables, aggregates and windows; the styles of the plugins, for  *)
(* any plugins, columns and configs.                                       *)
(***************************************************************************)
EXTENDS Dropdowns, Editors, WindowEdit, PluginStyles, TLAPS
LOCAL INSTANCE SequencesExt
LOCAL INSTANCE Functions

----------------------------------------------------------------------------
(* Sequences.                                                              *)

LEMMA Pairs ==
  ASSUME NEW r, NEW c
  PROVE  <<r>> \o <<c>> = <<r, c>>
<1> DEFINE p == <<r>> \o <<c>>
<1>1. /\ <<r>> \in Seq({r, c}) /\ Len(<<r>>) = 1 /\ <<r>>[1] = r
      /\ <<c>> \in Seq({r, c}) /\ Len(<<c>>) = 1 /\ <<c>>[1] = c
  OBVIOUS
<1>2. p \in Seq({r, c}) /\ Len(p) = 2
  BY <1>1
<1>3. p[1] = r /\ p[2] = c
  BY <1>1
<1>4. <<r, c>> \in Seq({r, c}) /\ Len(<<r, c>>) = 2 /\ <<r, c>>[1] = r /\ <<r, c>>[2] = c
  OBVIOUS
<1> HIDE DEF p
<1>5. p = <<r, c>>
  BY <1>2, <1>3, <1>4
<1> QED BY <1>5 DEF p

\* The elements of a list.
LEMMA Elements ==
  ASSUME NEW S, NEW list \in Seq(S)
  PROVE  ToSet(list) \subseteq S
<1> SUFFICES ASSUME NEW x \in ToSet(list) PROVE x \in S
  OBVIOUS
<1>1. PICK i \in DOMAIN list : x = list[i]
  BY DEF ToSet
<1> QED BY <1>1

LEMMA ShortLists ==
  ASSUME NEW S
  PROVE  <<>> \in Seq(S) /\ (\A x \in S : <<x>> \in Seq(S)) /\ (\A x, y \in S : <<x, y>> \in Seq(S))
OBVIOUS

LEMMA WiderList ==
  ASSUME NEW S, NEW T, S \subseteq T, NEW list \in Seq(S)
  PROVE  list \in Seq(T)
<1>1. \A i \in 1 .. Len(list) : list[i] \in T
  OBVIOUS
<1> QED BY <1>1

LEMMA OneElement ==
  ASSUME NEW x
  PROVE  ToSet(<<x>>) = {x}
BY DEF ToSet

LEMMA OneMore ==
  ASSUME NEW S, NEW list \in Seq(S), NEW x \in S
  PROVE  Append(list, x) \in Seq(S) /\ ToSet(Append(list, x)) = ToSet(list) \cup {x}
<1> DEFINE a == Append(list, x)
<1>1. a \in Seq(S) /\ DOMAIN a = 1 .. Len(list) + 1 /\ DOMAIN list = 1 .. Len(list) /\ Len(list) \in Nat
  OBVIOUS
<1>2. a[Len(list) + 1] = x /\ \A i \in 1 .. Len(list) : a[i] = list[i]
  OBVIOUS
<1> HIDE DEF a
<1>3. 1 .. Len(list) + 1 = (1 .. Len(list)) \cup {Len(list) + 1}
  BY <1>1
<1>4. ToSet(a) = {a[i] : i \in 1 .. Len(list) + 1} /\ ToSet(list) = {list[i] : i \in 1 .. Len(list)}
  BY <1>1 DEF ToSet
<1>5. ToSet(a) \subseteq ToSet(list) \cup {x}
  BY <1>2, <1>3, <1>4
<1>6. ToSet(list) \cup {x} \subseteq ToSet(a)
  BY <1>2, <1>3, <1>4
<1> QED BY <1>1, <1>5, <1>6 DEF a

\* The runs scheduled are a list, of whatever columns they open.
IsList(list) == \E S : list \in Seq(S)

LEMMA LongerList ==
  ASSUME NEW list, IsList(list), NEW x
  PROVE  IsList(Append(list, x)) /\ Append(list, x) # <<>>
<1>1. PICK S : list \in Seq(S)
  BY DEF IsList
<1> DEFINE T == S \cup {x}
<1>2. list \in Seq(T)
  <2>1. Len(list) \in Nat /\ list \in [1..Len(list) -> S]
    BY <1>1
  <2>2. list \in [1..Len(list) -> T]
    BY <2>1
  <2> QED BY <2>1, <2>2
<1>3. x \in T
  OBVIOUS
<1> HIDE DEF T
<1>4. Append(list, x) \in Seq(T) /\ Len(Append(list, x)) = Len(list) + 1 /\ Len(list) \in Nat
  BY <1>2, <1>3
<1>5. Append(list, x) # <<>>
  <2>1. Len(<<>>) = 0
    OBVIOUS
  <2> QED BY <1>4, <2>1
<1> QED BY <1>4, <1>5 DEF IsList

LEMMA ShorterList ==
  ASSUME NEW list, IsList(list), list # <<>>
  PROVE  IsList(Tail(list))
BY DEF IsList

----------------------------------------------------------------------------
(* Dropdowns. What was fetched is of one column; the list keeps that       *)
(* column with its values, and hands a pick to a row that had it. Only the *)
(* row with the focus holds a text.                                        *)

\* Texts, the empty one among them.
Words == STRING \cup {""}
FilterRows == [column : FilterColumns, term : Words]

ListsAreOfColumns ==
    /\ filters \in Seq(FilterRows)
    /\ \A f \in fetches : f.row \in Nat /\ \E c \in FilterColumns : f.column = <<c>>
    /\ DOMAIN suggest = {"values", "selected", "on_select", "target", "column", "all"}
    /\ suggest.values \in Seq(Words) /\ suggest.selected \in Nat
    /\ suggest.on_select # Nothing =>
         \E r \in Nat, c \in FilterColumns :
            suggest.on_select = <<r, c>> /\ ToSet(suggest.values) \subseteq ToSet(ValuesOf[c])
    /\ suggest.column # Nothing =>
         \E r \in Nat, c \in FilterColumns : suggest.column = <<r, c>> /\ suggest.all = <<c>>

FocusIsKnown ==
    \/ focused = Nothing
    \/ \E r \in Nat : focused = <<"filter", r>>
    \/ \E i \in RowInputs : focused = <<"row", i>>

TextsAreFocused ==
    /\ DOMAIN texts = RowInputs
    /\ DOMAIN offer = {"values", "selected", "on_select", "target", "no_results"}
    /\ offer.values \in Seq(Words)
    /\ \A c \in checks : c.input \in RowInputs
    /\ \A i \in RowInputs : texts[i] # "" => focused = <<"row", i>>
    /\ offer.target # Nothing => \E i \in RowInputs : offer.target = <<i>> /\ focused = <<"row", i>>

DropInv == ListsAreOfColumns /\ FocusIsKnown /\ TextsAreFocused /\ OffersAreTyped

LEMMA RowOfFilters ==
  ASSUME ListsAreOfColumns, NEW row \in DOMAIN filters
  PROVE  /\ row \in Nat /\ filters[row] \in FilterRows
         /\ filters[row].column \in FilterColumns /\ filters[row].term \in Words
         /\ \A input \in Words : [filters EXCEPT ![row].term = input] \in Seq(FilterRows)
<1>1. filters \in Seq(FilterRows)
  BY DEF ListsAreOfColumns
<1>2. row \in Nat /\ filters[row] \in FilterRows
  BY <1>1
<1>3. filters[row].column \in FilterColumns /\ filters[row].term \in Words
  BY <1>2 DEF FilterRows
<1>4. ASSUME NEW input \in Words
      PROVE  [filters EXCEPT ![row].term = input] \in Seq(FilterRows)
  <2>1. [filters[row] EXCEPT !.term = input] \in FilterRows
    BY <1>2 DEF FilterRows
  <2> QED BY <1>1, <2>1
<1> QED BY <1>2, <1>3, <1>4

\* The values of a column and the columns are texts, and expressions are not
\* empty.
LEMMA WordsOfConstants ==
  /\ \A c \in FilterColumns : ValuesOf[c] \in Seq(Words)
  /\ Columns \in Seq(Words) /\ ValidTexts \subseteq Words \ {""}
<1>1. STRING \subseteq Words
  BY DEF Words
<1>2. \A list \in Seq(STRING) : list \in Seq(Words)
  BY <1>1, WiderList
<1>3. /\ \A c \in FilterColumns : ValuesOf[c] \in Seq(STRING)
      /\ Columns \in Seq(STRING) /\ ValidTexts \subseteq STRING \ {""}
  BY DropdownsAssumption
<1> QED BY <1>1, <1>2, <1>3

LEMMA ContainingList ==
  ASSUME NEW text, NEW list \in Seq(Words)
  PROVE  Containing(text, list) \in Seq(Words) /\ ToSet(Containing(text, list)) \subseteq ToSet(list)
<1>1. CASE text = ""
  BY <1>1 DEF Containing
<1>2. CASE text # "" /\ text \in ToSet(list)
  <2>1. text \in Words
    BY <1>2, Elements
  <2>2. Containing(text, list) = <<text>>
    BY <1>2 DEF Containing
  <2>3. ToSet(<<text>>) = {text}
    BY OneElement
  <2>4. <<text>> \in Seq(Words)
    BY <2>1, ShortLists
  <2> QED BY <1>2, <2>2, <2>3, <2>4
<1>3. CASE text # "" /\ text \notin ToSet(list)
  <2>1. Containing(text, list) = <<>>
    BY <1>3 DEF Containing
  <2>2. ToSet(<<>>) = {}
    BY DEF ToSet
  <2> QED BY <2>1, <2>2
<1> QED BY <1>1, <1>2, <1>3

LEMMA MatchingList ==
  ASSUME NEW text, NEW c \in FilterColumns
  PROVE  Matching(text, <<c>>) \in Seq(Words) /\ ToSet(Matching(text, <<c>>)) \subseteq ToSet(ValuesOf[c])
<1>1. Matching(text, <<c>>) = Containing(text, ValuesOf[c])
  BY DEF Matching, Nothing
<1>2. ValuesOf[c] \in Seq(Words)
  BY WordsOfConstants
<1> QED BY <1>1, <1>2, ContainingList

\* Shutting a list keeps what it holds.
LEMMA HiddenList ==
  ASSUME ListsAreOfColumns
  PROVE  /\ DOMAIN Hidden(suggest) = DOMAIN suggest /\ Hidden(suggest).column = Nothing
         /\ Hidden(suggest).values = suggest.values /\ Hidden(suggest).selected = suggest.selected
         /\ Hidden(suggest).on_select = suggest.on_select
BY DEF Hidden, ListsAreOfColumns

LEMMA SuggestKeeps ==
  ASSUME ListsAreOfColumns, NEW row \in DOMAIN filters, NEW input \in Words, Suggest(row, input),
         filters' = [filters EXCEPT ![row].term = input]
  PROVE  ListsAreOfColumns'
<1> DEFINE c == filters[row].column
           values == Matching(input, suggest.all)
<1>1. row \in Nat /\ c \in FilterColumns
  BY RowOfFilters
<1>2. c \in FilterColumns /\ <<row>> \o <<c>> = <<row, c>>
  BY <1>1, Pairs
<1>3. filters' \in Seq(FilterRows)
  BY RowOfFilters
<1>4. CASE suggest.column = <<row, c>>
  <2>1. suggest.all = <<c>>
    BY <1>4 DEF ListsAreOfColumns, Nothing
  <2>2. values \in Seq(Words) /\ ToSet(values) \subseteq ToSet(ValuesOf[c])
    BY <1>2, <2>1, MatchingList
  <2>3. UNCHANGED fetches /\ suggest' = IF values = <<input>> THEN Hidden(suggest)
                                        ELSE [suggest EXCEPT !.values = values, !.selected = 0,
                                                             !.on_select = <<row, c>>,
                                                             !.target = IF @ = Nothing THEN <<row>> ELSE @]
    BY <1>2, <1>4 DEF Suggest
  <2> HIDE DEF values, c
  <2>4. CASE suggest' = Hidden(suggest)
    BY <1>3, <2>3, <2>4, HiddenList DEF ListsAreOfColumns
  <2>5. CASE suggest' = [suggest EXCEPT !.values = values, !.selected = 0, !.on_select = <<row, c>>,
                                        !.target = IF @ = Nothing THEN <<row>> ELSE @]
    <3>1. /\ DOMAIN suggest' = DOMAIN suggest /\ suggest'.values = values /\ suggest'.selected = 0
          /\ suggest'.on_select = <<row, c>> /\ suggest'.column = suggest.column /\ suggest'.all = suggest.all
      BY <2>5 DEF ListsAreOfColumns
    <3> QED BY <1>1, <1>2, <1>3, <2>2, <2>3, <3>1 DEF ListsAreOfColumns
  <2> QED BY <2>3, <2>4, <2>5
<1>5. CASE suggest.column # <<row, c>>
  <2>1. UNCHANGED suggest /\ fetches' = fetches \cup {[row |-> row, column |-> <<c>>, input |-> input]}
    BY <1>2, <1>5 DEF Suggest
  <2> HIDE DEF c
  <2> QED BY <1>1, <1>2, <1>3, <2>1 DEF ListsAreOfColumns
<1> QED BY <1>4, <1>5

LEMMA FetchedKeeps ==
  ASSUME ListsAreOfColumns, Fetched
  PROVE  ListsAreOfColumns'
<1> PICK f \in fetches :
      /\ fetches' = fetches \ {f}
      /\ suggest' = [values |-> IF Matching(f.input, f.column) = <<f.input>> THEN Matching("", f.column)
                                ELSE Matching(f.input, f.column),
                     selected |-> 0, on_select |-> <<f.row>> \o f.column,
                     target |-> IF Matching(f.input, f.column) = <<f.input>> THEN Nothing ELSE <<f.row>>,
                     column |-> <<f.row>> \o f.column, all |-> f.column]
  BY DEF Fetched
<1>1. PICK c \in FilterColumns : f.column = <<c>>
  BY DEF ListsAreOfColumns
<1>2. f.row \in Nat /\ <<f.row>> \o f.column = <<f.row, c>>
  BY <1>1, Pairs DEF ListsAreOfColumns
<1>3. PICK text : suggest'.values = Matching(text, <<c>>)
  BY <1>1
<1>4. suggest'.values \in Seq(Words) /\ ToSet(suggest'.values) \subseteq ToSet(ValuesOf[c])
  BY <1>3, MatchingList
<1>5. /\ DOMAIN suggest' = {"values", "selected", "on_select", "target", "column", "all"}
      /\ suggest'.selected = 0 /\ suggest'.on_select = <<f.row, c>> /\ suggest'.column = <<f.row, c>>
      /\ suggest'.all = <<c>>
  BY <1>1, <1>2
<1>6. UNCHANGED filters
  BY DEF Fetched
<1> QED BY <1>2, <1>4, <1>5, <1>6 DEF ListsAreOfColumns

\* A pick changes a term, to a value of the list.
LEMMA PickKeeps ==
  ASSUME ListsAreOfColumns, NEW list, list.values = suggest.values, list.selected \in Nat, SetFilterValue(list)
  PROVE  filters' \in Seq(FilterRows)
<1> DEFINE row == list.on_select[1]
           value == list.values[list.selected + 1]
<1>1. CASE list.selected < Len(list.values) /\ list.on_select # Nothing /\ row \in DOMAIN filters
  <2>1. value \in Words
    BY <1>1 DEF ListsAreOfColumns
  <2>2. filters' = [filters EXCEPT ![row].term = value]
    BY <1>1 DEF SetFilterValue
  <2> HIDE DEF row, value
  <2> QED BY <1>1, <2>1, <2>2, RowOfFilters
<1>2. CASE ~(list.selected < Len(list.values) /\ list.on_select # Nothing /\ row \in DOMAIN filters)
  BY <1>2 DEF SetFilterValue, ListsAreOfColumns
<1> QED BY <1>1, <1>2

LEMMA MovedList ==
  ASSUME ListsAreOfColumns, NEW key, key = "up" => suggest.values # <<>>
  PROVE  LET list == Moved(suggest, key)
         IN /\ DOMAIN list = DOMAIN suggest /\ list.values = suggest.values /\ list.selected \in Nat
            /\ list.on_select = suggest.on_select /\ list.column = suggest.column /\ list.all = suggest.all
<1>1. Len(suggest.values) \in Nat /\ suggest.selected \in Nat
  BY DEF ListsAreOfColumns
<1>2. key = "up" => Len(suggest.values) > 0
  BY DEF ListsAreOfColumns
<1> QED BY <1>1, <1>2 DEF Moved, ListsAreOfColumns

LEMMA SameLists ==
  ASSUME ListsAreOfColumns, UNCHANGED fetches, filters' \in Seq(FilterRows),
         DOMAIN suggest' = DOMAIN suggest, suggest'.values = suggest.values, suggest'.selected \in Nat,
         suggest'.on_select = suggest.on_select,
         suggest'.column = Nothing \/ (suggest'.column = suggest.column /\ suggest'.all = suggest.all)
  PROVE  ListsAreOfColumns'
BY DEF ListsAreOfColumns

LEMMA FilterSteps ==
  ASSUME ListsAreOfColumns,
         TypeInFilter \/ Fetched \/ FetchFails \/ KeyInFilter \/ ClickSuggestion \/ BlurFilter \/ CloseFilterRow
  PROVE  ListsAreOfColumns'
<1>1. CASE TypeInFilter
  <2>1. PICK row \in DOMAIN filters :
          \E input \in {filters[row].term} \cup (IF focused = Nothing THEN {} ELSE ToSet(ValuesOf[filters[row].column])) :
              Suggest(row, input) /\ filters' = [filters EXCEPT ![row].term = input]
    BY <1>1 DEF TypeInFilter
  <2>2. PICK input \in {filters[row].term} \cup ToSet(ValuesOf[filters[row].column]) :
              Suggest(row, input) /\ filters' = [filters EXCEPT ![row].term = input]
    BY <2>1
  <2>3. filters[row].term \in Words /\ filters[row].column \in FilterColumns
    BY RowOfFilters
  <2>4. ToSet(ValuesOf[filters[row].column]) \subseteq Words
    BY <2>3, Elements, WordsOfConstants
  <2> QED BY <2>2, <2>3, <2>4, SuggestKeeps
<1>2. CASE Fetched
  BY <1>2, FetchedKeeps
<1>3. CASE FetchFails
  BY <1>3 DEF FetchFails, ListsAreOfColumns
<1>4. CASE KeyInFilter
  <2>1. PICK key \in {"down", "up", "enter"} :
          /\ key = "up" => suggest.values # <<>>
          /\ suggest' = IF key = "enter" THEN Hidden(Moved(suggest, key)) ELSE Moved(suggest, key)
          /\ SetFilterValue(Moved(suggest, key)) /\ UNCHANGED fetches
    BY <1>4 DEF KeyInFilter
  <2> DEFINE list == Moved(suggest, key)
  <2>2. /\ DOMAIN list = DOMAIN suggest /\ list.values = suggest.values /\ list.selected \in Nat
        /\ list.on_select = suggest.on_select /\ list.column = suggest.column /\ list.all = suggest.all
    BY <2>1, MovedList
  <2>3. suggest' = IF key = "enter" THEN Hidden(list) ELSE list
    BY <2>1
  <2> HIDE DEF list
  <2>4. /\ DOMAIN suggest' = DOMAIN suggest /\ suggest'.values = suggest.values /\ suggest'.selected \in Nat
        /\ suggest'.on_select = suggest.on_select
        /\ suggest'.column = Nothing \/ (suggest'.column = suggest.column /\ suggest'.all = suggest.all)
    <3>1. CASE suggest' = list
      BY <2>2, <3>1
    <3>2. CASE suggest' = Hidden(list)
      BY <2>2, <3>2 DEF Hidden, ListsAreOfColumns
    <3> QED BY <2>3, <3>1, <3>2
  <2>5. filters' \in Seq(FilterRows)
    BY <2>1, <2>2, PickKeeps DEF list
  <2> QED BY <2>1, <2>4, <2>5, SameLists
<1>5. CASE ClickSuggestion
  <2>1. PICK i \in 0..(Len(suggest.values) - 1) : SetFilterValue([suggest EXCEPT !.selected = i])
    BY <1>5 DEF ClickSuggestion
  <2>2. [suggest EXCEPT !.selected = i].values = suggest.values /\ [suggest EXCEPT !.selected = i].selected \in Nat
    BY DEF ListsAreOfColumns
  <2>3. filters' \in Seq(FilterRows)
    BY <2>1, <2>2, PickKeeps
  <2>4. UNCHANGED <<fetches, suggest>> /\ suggest.selected \in Nat
    BY <1>5 DEF ClickSuggestion, ListsAreOfColumns
  <2> QED BY <2>3, <2>4, SameLists
<1>6. CASE BlurFilter \/ CloseFilterRow
  <2>1. suggest' = Hidden(suggest) /\ UNCHANGED fetches
    BY <1>6 DEF BlurFilter, CloseFilterRow
  <2>2. filters' \in Seq(FilterRows)
    <3>1. CASE BlurFilter
      BY <3>1 DEF BlurFilter, ListsAreOfColumns
    <3>2. CASE CloseFilterRow
      <4>1. filters \in Seq(FilterRows)
        BY DEF ListsAreOfColumns
      <4>2. PICK row \in DOMAIN filters : filters' = RemoveAt(filters, row)
        BY <3>2 DEF CloseFilterRow
      <4>3. row \in 1 .. Len(filters) /\ Len(filters) \in Nat
        BY <4>1
      <4>4. SubSeq(filters, 1, row - 1) \in Seq(FilterRows) /\ SubSeq(filters, row + 1, Len(filters)) \in Seq(FilterRows)
        BY <4>1, <4>3
      <4> QED BY <4>2, <4>4 DEF RemoveAt
    <3> QED BY <1>6, <3>1, <3>2
  <2>3. suggest.selected \in Nat
    BY DEF ListsAreOfColumns
  <2> QED BY <2>1, <2>2, <2>3, HiddenList, SameLists
<1> QED BY <1>1, <1>2, <1>3, <1>4, <1>5, <1>6

\* What an empty row offers is not touched by a filter, which has the focus
\* only when no row has.
LEMMA FilterStepsFocus ==
  ASSUME ListsAreOfColumns, FocusIsKnown, TextsAreFocused, OffersAreTyped,
         TypeInFilter \/ Fetched \/ FetchFails \/ KeyInFilter \/ ClickSuggestion \/ BlurFilter \/ CloseFilterRow
  PROVE  FocusIsKnown' /\ TextsAreFocused' /\ OffersAreTyped'
<1>1. UNCHANGED <<texts, offer, checks>>
  BY DEF TypeInFilter, Fetched, FetchFails, KeyInFilter, ClickSuggestion, BlurFilter, CloseFilterRow, OffersStay
<1>2. OffersAreTyped'
  BY <1>1 DEF OffersAreTyped
<1>3. CASE UNCHANGED focused
  BY <1>1, <1>2, <1>3 DEF FocusIsKnown, TextsAreFocused
<1>4. CASE focused' # focused
  <2>1. /\ focused = Nothing \/ (focused # Nothing /\ focused[1] = "filter")
        /\ focused' = Nothing \/ \E row \in DOMAIN filters : focused' = <<"filter", row>>
    BY <1>4 DEF TypeInFilter, Fetched, FetchFails, KeyInFilter, ClickSuggestion, BlurFilter, CloseFilterRow, Nothing
  <2>2. \A i : focused # <<"row", i>>
    BY <2>1 DEF Nothing
  <2>3. (\A i \in RowInputs : texts[i] = "") /\ offer.target = Nothing
    BY <2>2 DEF TextsAreFocused
  <2>4. DOMAIN filters \subseteq Nat
    BY DEF ListsAreOfColumns
  <2> QED BY <1>1, <1>2, <2>1, <2>3, <2>4 DEF FocusIsKnown, TextsAreFocused
<1> QED BY <1>3, <1>4

LEMMA RowSteps ==
  ASSUME FocusIsKnown, TextsAreFocused, OffersAreTyped,
         TypeInRow \/ FocusRow \/ Checked \/ KeyInRow \/ ClickOffer \/ BlurRow
  PROVE  FocusIsKnown' /\ TextsAreFocused' /\ OffersAreTyped'
<1>1. CASE TypeInRow
  <2>1. PICK i \in RowInputs, text \in {""} \cup ToSet(Columns) \cup ValidTexts \cup OtherTexts :
          focused = <<"row", i>> /\ texts' = [texts EXCEPT ![i] = text] /\ Offer(i, text) /\ UNCHANGED focused
    BY <1>1 DEF TypeInRow
  <2>2. /\ offer' = [values |-> Containing(text, Columns), selected |-> 0, on_select |-> <<i>>, target |-> <<i>>,
                     no_results |-> Containing(text, Columns) = <<>>]
        /\ checks' = checks \cup {[input |-> i, text |-> text]}
    BY <2>1 DEF Offer
  <2>3. offer'.values \in Seq(Words) /\ ToSet(offer'.values) \subseteq ToSet(Columns)
    BY <2>2, ContainingList, WordsOfConstants
  <2>4. /\ DOMAIN offer' = {"values", "selected", "on_select", "target", "no_results"} /\ offer'.target = <<i>>
        /\ DOMAIN texts' = RowInputs /\ \A k \in RowInputs \ {i} : texts'[k] = texts[k]
    BY <2>1, <2>2 DEF TextsAreFocused
  <2>5. OffersAreTyped'
    BY <2>3 DEF OffersAreTyped
  <2>6. \A k \in RowInputs \ {i} : texts[k] = ""
    BY <2>1 DEF TextsAreFocused
  <2>7. \A c \in checks' : c.input \in RowInputs
    <3>1. [input |-> i, text |-> text].input = i
      OBVIOUS
    <3> QED BY <2>2, <3>1 DEF TextsAreFocused
  <2> QED BY <2>1, <2>3, <2>4, <2>5, <2>6, <2>7 DEF TextsAreFocused, FocusIsKnown
<1>2. CASE FocusRow
  <2>1. UNCHANGED <<texts, offer, checks>> /\ focused = Nothing /\ \E i \in RowInputs : focused' = <<"row", i>>
    BY <1>2 DEF FocusRow
  <2>2. (\A i \in RowInputs : texts[i] = "") /\ offer.target = Nothing
    BY <2>1 DEF TextsAreFocused, Nothing
  <2> QED BY <2>1, <2>2 DEF FocusIsKnown, TextsAreFocused, OffersAreTyped
<1>3. CASE Checked
  <2>1. UNCHANGED <<focused, texts>> /\ checks' \subseteq checks
    BY <1>3 DEF Checked
  <2>2. CASE UNCHANGED offer
    BY <2>1, <2>2 DEF FocusIsKnown, TextsAreFocused, OffersAreTyped
  <2>3. ASSUME NEW c \in checks, c.text \in ValidTexts, StillTyped(c),
               offer' = [offer EXCEPT !.values = Append(@, c.text), !.no_results = FALSE]
        PROVE  FocusIsKnown' /\ TextsAreFocused' /\ OffersAreTyped'
    <3>1. c.input \in RowInputs /\ texts[c.input] = c.text /\ c.text \in Words /\ c.text # ""
      BY <2>3, WordsOfConstants DEF StillTyped, TextsAreFocused
    <3>2. focused = <<"row", c.input>>
      BY <3>1 DEF TextsAreFocused
    <3>3. /\ DOMAIN offer' = {"values", "selected", "on_select", "target", "no_results"}
          /\ offer'.target = offer.target /\ offer'.values = Append(offer.values, c.text)
      BY <2>3 DEF TextsAreFocused
    <3>4. offer.values \in Seq(Words)
      BY DEF TextsAreFocused
    <3>5. offer'.values \in Seq(Words) /\ ToSet(offer'.values) = ToSet(offer.values) \cup {c.text}
      <4> DEFINE values == offer.values
                 text == c.text
      <4>1. values \in Seq(Words) /\ text \in Words /\ offer'.values = Append(values, text)
        BY <3>1, <3>3, <3>4
      <4> HIDE DEF values, text
      <4>2. Append(values, text) \in Seq(Words) /\ ToSet(Append(values, text)) = ToSet(values) \cup {text}
        BY <4>1, OneMore
      <4>3. offer'.values \in Seq(Words) /\ ToSet(offer'.values) = ToSet(values) \cup {text}
        BY <4>1, <4>2
      <4> QED BY <4>3 DEF values, text
    <3>6. ASSUME offer.target # Nothing PROVE offer.target[1] = c.input
      <4>1. PICK i \in RowInputs : offer.target = <<i>> /\ focused = <<"row", i>>
        BY <3>6 DEF TextsAreFocused
      <4>2. <<"row", i>>[2] = <<"row", c.input>>[2]
        BY <3>2, <4>1
      <4> QED BY <4>1, <4>2
    <3>7. OffersAreTyped'
      BY <2>1, <2>3, <3>1, <3>3, <3>5, <3>6 DEF OffersAreTyped
    <3> QED BY <2>1, <3>3, <3>5, <3>7 DEF FocusIsKnown, TextsAreFocused
  <2> QED BY <1>3, <2>2, <2>3 DEF Checked
<1>4. CASE KeyInRow \/ ClickOffer
  <2>1. UNCHANGED <<focused, texts, checks>>
    BY <1>4 DEF KeyInRow, ClickOffer
  <2>2. /\ DOMAIN offer' = DOMAIN offer /\ offer'.values = offer.values
        /\ offer'.target = offer.target \/ offer'.target = Nothing
    <3>1. Shut(offer).values = offer.values /\ Shut(offer).target = Nothing /\ DOMAIN Shut(offer) = DOMAIN offer
      BY DEF Shut, TextsAreFocused
    <3>2. ASSUME NEW key PROVE /\ Moved(offer, key).values = offer.values /\ Moved(offer, key).target = offer.target
                               /\ DOMAIN Moved(offer, key) = DOMAIN offer
      BY DEF Moved, TextsAreFocused
    <3>3. UNCHANGED offer \/ offer' = Shut(offer) \/ \E key \in {"down", "up", "enter"} : offer' = Moved(offer, key)
      BY <1>4 DEF KeyInRow, ClickOffer
    <3> QED BY <3>1, <3>2, <3>3
  <2> QED BY <2>1, <2>2 DEF FocusIsKnown, TextsAreFocused, OffersAreTyped
<1>5. CASE BlurRow
  <2>1. /\ focused # Nothing /\ focused[1] = "row" /\ focused' = Nothing /\ UNCHANGED checks
        /\ texts' = [texts EXCEPT ![focused[2]] = ""] /\ offer' = Shut(offer)
    BY <1>5 DEF BlurRow
  <2>2. PICK i \in RowInputs : focused = <<"row", i>>
    <3>1. ASSUME NEW r \in Nat PROVE focused # <<"filter", r>>
      <4>1. <<"filter", r>>[1] # "row"
        OBVIOUS
      <4> QED BY <2>1, <4>1
    <3> QED BY <2>1, <3>1 DEF FocusIsKnown
  <2>3. /\ DOMAIN texts' = RowInputs /\ texts'[i] = "" /\ \A k \in RowInputs \ {i} : texts'[k] = texts[k]
    BY <2>1, <2>2 DEF TextsAreFocused
  <2>4. \A k \in RowInputs : texts'[k] = ""
    BY <2>2, <2>3 DEF TextsAreFocused
  <2>5. offer'.values = offer.values /\ offer'.target = Nothing /\ DOMAIN offer' = DOMAIN offer
    BY <2>1 DEF Shut, TextsAreFocused
  <2> QED BY <2>1, <2>3, <2>4, <2>5 DEF FocusIsKnown, TextsAreFocused, OffersAreTyped
<1> QED BY <1>1, <1>2, <1>3, <1>4, <1>5

LEMMA DropInitInv == DropInit => DropInv
<1> SUFFICES ASSUME DropInit PROVE DropInv
  OBVIOUS
<1>1. PICK c \in FilterColumns, d \in FilterColumns : filters = <<[column |-> c, term |-> ""], [column |-> d, term |-> ""]>>
  BY DEF DropInit
<1>2. filters \in Seq(FilterRows)
  <2> DEFINE x == [column |-> c, term |-> ""]
             y == [column |-> d, term |-> ""]
  <2>1. x \in FilterRows /\ y \in FilterRows
    BY DEF FilterRows, Words
  <2>2. filters = <<x, y>>
    BY <1>1
  <2> HIDE DEF x, y
  <2> QED BY <2>1, <2>2, ShortLists
<1>3. ListsAreOfColumns
  <2>1. /\ DOMAIN suggest = {"values", "selected", "on_select", "target", "column", "all"}
        /\ suggest.values = <<>> /\ suggest.selected = 0 /\ suggest.on_select = Nothing /\ suggest.column = Nothing
    BY DEF DropInit
  <2>2. <<>> \in Seq(Words) /\ fetches = {}
    BY ShortLists DEF DropInit
  <2> QED BY <1>2, <2>1, <2>2 DEF ListsAreOfColumns
<1>4. FocusIsKnown
  BY DEF DropInit, FocusIsKnown
<1>5. TextsAreFocused /\ OffersAreTyped
  <2>1. /\ DOMAIN offer = {"values", "selected", "on_select", "target", "no_results"}
        /\ offer.values = <<>> /\ offer.target = Nothing
    BY DEF DropInit
  <2>2. /\ <<>> \in Seq(Words) /\ checks = {} /\ DOMAIN texts = RowInputs
        /\ \A i \in RowInputs : texts[i] = ""
    BY ShortLists DEF DropInit
  <2> QED BY <2>1, <2>2 DEF TextsAreFocused, OffersAreTyped
<1> QED BY <1>3, <1>4, <1>5 DEF DropInv

LEMMA DropStepInv == DropInv /\ [DropNext]_dropVars => DropInv'
<1> SUFFICES ASSUME DropInv, [DropNext]_dropVars PROVE DropInv'
  OBVIOUS
<1>1. ListsAreOfColumns /\ FocusIsKnown /\ TextsAreFocused /\ OffersAreTyped
  BY DEF DropInv
<1>2. CASE TypeInFilter \/ Fetched \/ FetchFails \/ KeyInFilter \/ ClickSuggestion \/ BlurFilter \/ CloseFilterRow
  BY <1>1, <1>2, FilterSteps, FilterStepsFocus DEF DropInv
<1>3. CASE TypeInRow \/ FocusRow \/ Checked \/ KeyInRow \/ ClickOffer \/ BlurRow
  <2>1. UNCHANGED <<filters, suggest, fetches>>
    BY <1>3 DEF TypeInRow, FocusRow, Checked, KeyInRow, ClickOffer, BlurRow, SuggestsStay
  <2>2. ListsAreOfColumns'
    BY <1>1, <2>1 DEF ListsAreOfColumns
  <2> QED BY <1>1, <1>3, <2>2, RowSteps DEF DropInv
<1>4. CASE UNCHANGED dropVars
  BY <1>1, <1>4 DEF dropVars, DropInv, ListsAreOfColumns, FocusIsKnown, TextsAreFocused, OffersAreTyped
<1> QED BY <1>2, <1>3, <1>4 DEF DropNext

\* What a list offers is for the row and the text that it stands under, for any
\* columns, values and texts, whatever was answered late.
THEOREM OffersStayFit == DropSpec => []OffersFit
<1>1. ASSUME DropInv
      PROVE  OffersFit
  <2>1. ASSUME suggest.on_select # Nothing
        PROVE  ToSet(suggest.values) \subseteq ToSet(ValuesOf[suggest.on_select[2]])
    BY <1>1, <2>1 DEF DropInv, ListsAreOfColumns
  <2>2. ASSUME suggest.column # Nothing
        PROVE  suggest.all = <<suggest.column[2]>>
    BY <1>1, <2>2 DEF DropInv, ListsAreOfColumns
  <2> QED BY <1>1, <2>1, <2>2 DEF DropInv, OffersFit, SuggestionsAreOfTheirColumn
<1> QED BY <1>1, DropInitInv, DropStepInv, PTL DEF DropSpec

----------------------------------------------------------------------------
(* The expression sidebar. What the server is asked carries the number of  *)
(* the editor's text; what the sidebar compares its draft with is what it  *)
(* took of the metadata, or what it saved itself.                          *)

\* An answer still to come for the editor's number is for its text; without
\* one, the sidebar has the answer for the text, or the request failed.
AnswersAreNumbered ==
    /\ opened # NoColumn => DOMAIN sidebar = DOMAIN Mounted
    /\ DOMAIN editor = {"text", "req", "lost"} /\ editor.req \in Nat
    /\ \A c \in asked : c.req \in Nat /\ c.req <= editor.req /\ (c.req = editor.req => c.text = editor.text)
    /\ opened # NoColumn /\ (\A c \in asked : c.req # editor.req) =>
         (sidebar.expr_valid = TRUE \/ sidebar.save_enabled = TRUE =>
            editor.text \in GoodTexts \/ editor.lost = editor.req)

\* Only a session with a run to come, or in error, knows other expressions than
\* the config has.
ConfigIsKnown ==
    /\ DOMAIN written = {"exprs", "named"} /\ DOMAIN written.named = Roles
    /\ NamesAreKnown(written)
    /\ IsList(running)
    /\ running = <<>> /\ ~failed => known = written.exprs

ComparesAtName(at, s, mt, w) ==
    at # NoColumn /\ Aliased(at) =>
      /\ s.column_name = at[1]
      /\ ~failed /\ at[1] \in DOMAIN mt /\ at[1] \in DOMAIN w.exprs => s.initial_expr \in {mt[at[1]], w.exprs[at[1]]}
Compared == ComparesAtName(opened, sidebar, known, written)

EditorsInv == AnswersAreNumbered /\ ConfigIsKnown /\ Compared

LEMMA SidebarFields ==
  DOMAIN Mounted = {"column_name", "expr_value", "initial_expr", "header_value", "initial_header", "header_valid",
                    "expr_valid", "save_enabled", "reset_enabled"}
BY DEF Mounted

LEMMA InitializedFields ==
  ASSUME NEW s, DOMAIN s = DOMAIN Mounted, NEW at, NEW mt
  PROVE  /\ DOMAIN Initialized(s, at, mt) = DOMAIN Mounted
         /\ Initialized(s, at, mt).expr_valid = s.expr_valid /\ Initialized(s, at, mt).save_enabled = s.save_enabled
         /\ Initialized(s, at, mt).column_name = NameShown(at, mt)
         /\ Initialized(s, at, mt).initial_expr = TextOf(NameShown(at, mt), mt)
BY SidebarFields DEF Initialized

LEMMA SaveEnabledFields ==
  ASSUME NEW s, DOMAIN s = DOMAIN Mounted
  PROVE  /\ DOMAIN SaveEnabled(s) = DOMAIN Mounted
         /\ SaveEnabled(s).expr_valid = s.expr_valid
         /\ SaveEnabled(s).save_enabled = TRUE => s.expr_valid = TRUE
         /\ SaveEnabled(s).column_name = s.column_name /\ SaveEnabled(s).initial_expr = s.initial_expr
BY SidebarFields DEF SaveEnabled

\* A new text is asked about under a new number.
LEMMA SetsTextAsks ==
  ASSUME NEW text, NEW s, NEW req \in Nat, NEW underway, SetsText(text, s, req, underway), DOMAIN s = DOMAIN Mounted,
         \A c \in underway : c.req \in Nat /\ c.req <= req
  PROVE  /\ AnswersAreNumbered' /\ DOMAIN sidebar' = DOMAIN Mounted
         /\ sidebar'.column_name = s.column_name /\ sidebar'.initial_expr = s.initial_expr
<1>1. /\ editor' = [text |-> text, req |-> req + 1, lost |-> 0]
      /\ sidebar' = [s EXCEPT !.expr_value = text, !.reset_enabled = @ \/ s.expr_value # text]
      /\ asked' = underway \cup {[req |-> req + 1, text |-> text]}
  BY DEF SetsText, Asked
<1>2. editor'.req = req + 1 /\ editor'.text = text /\ DOMAIN editor' = {"text", "req", "lost"}
  BY <1>1
<1>3. /\ DOMAIN sidebar' = DOMAIN Mounted
      /\ sidebar'.column_name = s.column_name /\ sidebar'.initial_expr = s.initial_expr
  BY <1>1, SidebarFields
<1>4. \A c \in asked' : c.req \in Nat /\ c.req <= editor'.req /\ (c.req = editor'.req => c.text = editor'.text)
  <2>1. \A c \in underway : c.req \in Nat /\ c.req <= req + 1 /\ c.req # req + 1
    OBVIOUS
  <2>2. [req |-> req + 1, text |-> text].req = req + 1 /\ [req |-> req + 1, text |-> text].text = text
    OBVIOUS
  <2> QED BY <1>1, <1>2, <2>1, <2>2
<1>5. \E c \in asked' : c.req = editor'.req
  <2>1. [req |-> req + 1, text |-> text] \in asked' /\ [req |-> req + 1, text |-> text].req = req + 1
    BY <1>1
  <2> QED BY <1>2, <2>1
<1> QED BY <1>2, <1>3, <1>4, <1>5 DEF AnswersAreNumbered

\* A sidebar that is rendered with other props, or mounted, takes its draft of
\* the metadata; with the same it keeps what it compares with.
LEMMA ShowsKeeps ==
  ASSUME AnswersAreNumbered, NEW at, NEW w, NEW mt, Shows(at, w, mt)
  PROVE  /\ AnswersAreNumbered' /\ opened' = at /\ written' = w /\ known' = mt
         /\ \/ at = NoColumn
            \/ sidebar'.column_name = NameShown(at, mt) /\ sidebar'.initial_expr = TextOf(NameShown(at, mt), mt)
            \/ /\ at = opened /\ w = written /\ mt = known
               /\ sidebar'.column_name = sidebar.column_name /\ sidebar'.initial_expr = sidebar.initial_expr
<1>1. opened' = at /\ written' = w /\ known' = mt
  BY DEF Shows
<1>2. CASE at = NoColumn
  <2>1. editor' = NoEditor /\ asked' = {}
    BY <1>2 DEF Shows
  <2> QED BY <1>1, <1>2, <2>1 DEF AnswersAreNumbered, NoEditor
<1>3. CASE at # NoColumn /\ opened = NoColumn
  <2> DEFINE s == Initialized(Mounted, at, mt)
             text == TextOf(IF Aliased(at) THEN at[1] ELSE NoColumn, mt)
  <2>1. SetsText(text, s, 0, {})
    BY <1>3 DEF Shows
  <2>2. /\ DOMAIN s = DOMAIN Mounted
        /\ s.column_name = NameShown(at, mt) /\ s.initial_expr = TextOf(NameShown(at, mt), mt)
    BY InitializedFields
  <2> HIDE DEF s, text
  <2> QED BY <1>1, <2>1, <2>2, SetsTextAsks
<1>4. CASE at # NoColumn /\ opened # NoColumn
  <2> DEFINE s == IF SidebarChanged(at, w, mt) THEN Initialized(sidebar, at, mt) ELSE sidebar
             text == TextOf(IF Aliased(at) THEN at[1] ELSE NoColumn, mt)
  <2>1. IF EditorChanged(at, mt) THEN SetsText(text, s, editor.req, asked) ELSE sidebar' = s /\ UNCHANGED <<editor, asked>>
    BY <1>4 DEF Shows
  <2>2. DOMAIN sidebar = DOMAIN Mounted
    BY <1>4 DEF AnswersAreNumbered
  <2>3. /\ DOMAIN s = DOMAIN Mounted /\ s.expr_valid = sidebar.expr_valid /\ s.save_enabled = sidebar.save_enabled
        /\ \/ s.column_name = NameShown(at, mt) /\ s.initial_expr = TextOf(NameShown(at, mt), mt)
           \/ /\ at = opened /\ w = written /\ mt = known
              /\ s.column_name = sidebar.column_name /\ s.initial_expr = sidebar.initial_expr
    <3>1. CASE SidebarChanged(at, w, mt)
      BY <2>2, <3>1, InitializedFields
    <3>2. CASE ~SidebarChanged(at, w, mt)
      BY <2>2, <3>2 DEF SidebarChanged
    <3> QED BY <3>1, <3>2
  <2> HIDE DEF s, text
  <2>4. /\ AnswersAreNumbered' /\ sidebar'.column_name = s.column_name /\ sidebar'.initial_expr = s.initial_expr
    <3>1. CASE EditorChanged(at, mt)
      <4>1. editor.req \in Nat /\ \A c \in asked : c.req \in Nat /\ c.req <= editor.req
        BY DEF AnswersAreNumbered
      <4> QED BY <2>1, <2>3, <3>1, <4>1, SetsTextAsks
    <3>2. CASE ~EditorChanged(at, mt)
      <4>1. sidebar' = s /\ editor' = editor /\ asked' = asked
        BY <2>1, <3>2
      <4> QED BY <1>1, <1>4, <2>3, <4>1 DEF AnswersAreNumbered
    <3> QED BY <3>1, <3>2
  <2> QED BY <1>1, <2>3, <2>4
<1> QED BY <1>2, <1>3, <1>4

LEMMA ComparesAfter ==
  ASSUME AnswersAreNumbered, Compared, NEW at, NEW w, NEW mt, Shows(at, w, mt),
         failed => failed' \/ DOMAIN w.exprs = {}
  PROVE  AnswersAreNumbered' /\ Compared' /\ opened' = at /\ written' = w /\ known' = mt
<1>1. /\ AnswersAreNumbered' /\ opened' = at /\ written' = w /\ known' = mt
      /\ \/ at = NoColumn
         \/ sidebar'.column_name = NameShown(at, mt) /\ sidebar'.initial_expr = TextOf(NameShown(at, mt), mt)
         \/ /\ at = opened /\ w = written /\ mt = known
            /\ sidebar'.column_name = sidebar.column_name /\ sidebar'.initial_expr = sidebar.initial_expr
  BY ShowsKeeps
<1>2. ASSUME at # NoColumn, Aliased(at)
      PROVE  /\ sidebar'.column_name = at[1]
             /\ ~failed' /\ at[1] \in DOMAIN mt /\ at[1] \in DOMAIN w.exprs =>
                  sidebar'.initial_expr \in {mt[at[1]], w.exprs[at[1]]}
  <2>1. NameShown(at, mt) = at[1] /\ (at[1] \in DOMAIN mt => TextOf(at[1], mt) = mt[at[1]])
    BY <1>2 DEF NameShown, TextOf, Aliased
  <2>2. CASE sidebar'.column_name = NameShown(at, mt) /\ sidebar'.initial_expr = TextOf(NameShown(at, mt), mt)
    BY <2>1, <2>2
  <2>3. CASE /\ at = opened /\ w = written /\ mt = known
             /\ sidebar'.column_name = sidebar.column_name /\ sidebar'.initial_expr = sidebar.initial_expr
    BY <1>2, <2>3 DEF Compared, ComparesAtName
  <2> QED BY <1>1, <1>2, <2>2, <2>3
<1> QED BY <1>1, <1>2 DEF Compared, ComparesAtName

\* Names stay known when an expression is renamed, or put beside the others.
LEMMA RenamedIsKnown ==
  ASSUME NEW w, DOMAIN w.named = Roles, NamesAreKnown(w), NEW old \in DOMAIN w.exprs, NEW name, NEW text
  PROVE  /\ NamesAreKnown(Replaced(w, old, name, text))
         /\ Replaced(w, old, name, text) = w => w.exprs[old] = text
<1> DEFINE exprs == Put(WithoutExpr(w.exprs, old), name, text)
           names == [r \in Roles |-> IF old \in w.named[r] THEN (w.named[r] \ {old}) \cup {name} ELSE w.named[r]]
<1>1. Replaced(w, old, name, text) = [exprs |-> exprs, named |-> names]
  BY DEF Replaced
<1>2. DOMAIN WithoutExpr(w.exprs, old) = DOMAIN w.exprs \ {old}
  BY DEF WithoutExpr, Restrict
<1>3. DOMAIN exprs = (DOMAIN w.exprs \ {old}) \cup {name} /\ exprs[name] = text
  BY <1>2 DEF Put
<1>4. \A r \in Roles : names[r] \subseteq Fields \cup DOMAIN exprs
  BY <1>3 DEF NamesAreKnown
<1> HIDE DEF exprs, names
<1>5. NamesAreKnown(Replaced(w, old, name, text))
  BY <1>1, <1>4 DEF NamesAreKnown
<1>6. ASSUME Replaced(w, old, name, text) = w
      PROVE  w.exprs[old] = text
  <2>1. w.exprs = exprs
    BY <1>1, <1>6
  <2>2. name = old
    BY <1>3, <2>1
  <2> QED BY <1>3, <2>1, <2>2
<1> QED BY <1>5, <1>6

\* What is typed, answered and reset leaves what the draft is compared with.
LEMMA TypingKeeps ==
  ASSUME EditorsInv, TypeText \/ TypeName \/ ValidateComplete \/ Reset
  PROVE  EditorsInv'
<1>1. /\ AnswersAreNumbered /\ ConfigIsKnown /\ Compared
      /\ editor.req \in Nat /\ \A c \in asked : c.req \in Nat /\ c.req <= editor.req
  BY DEF EditorsInv, AnswersAreNumbered
<1>2. UNCHANGED <<written, known, opened, running, failed>>
  BY DEF TypeText, TypeName, ValidateComplete, Reset, EditsNothing
<1>3. ConfigIsKnown'
  BY <1>1, <1>2 DEF ConfigIsKnown, NamesAreKnown
<1>4. CASE TypeText
  <2>1. opened # NoColumn /\ \E text \in Texts : SetsText(text, sidebar, editor.req, asked)
    BY <1>4 DEF TypeText
  <2>2. DOMAIN sidebar = DOMAIN Mounted
    BY <1>1, <2>1 DEF AnswersAreNumbered
  <2>3. AnswersAreNumbered' /\ sidebar'.column_name = sidebar.column_name /\ sidebar'.initial_expr = sidebar.initial_expr
    BY <1>1, <2>1, <2>2, SetsTextAsks
  <2> QED BY <1>1, <1>2, <1>3, <2>3 DEF EditorsInv, Compared, ComparesAtName
<1>5. CASE TypeName
  <2>1. opened # NoColumn /\ UNCHANGED <<editor, asked>>
    BY <1>5 DEF TypeName
  <2>2. PICK name : sidebar' = SaveEnabled([sidebar EXCEPT !.header_value = name, !.header_valid = NameIsValid(name),
                                                           !.reset_enabled = @ \/ name # sidebar.header_value])
    BY <1>5 DEF TypeName
  <2> DEFINE s == [sidebar EXCEPT !.header_value = name, !.header_valid = NameIsValid(name),
                                  !.reset_enabled = @ \/ name # sidebar.header_value]
  <2>3. /\ DOMAIN s = DOMAIN Mounted /\ s.expr_valid = sidebar.expr_valid
        /\ s.column_name = sidebar.column_name /\ s.initial_expr = sidebar.initial_expr
    BY <1>1, <2>1, SidebarFields DEF AnswersAreNumbered
  <2>4. sidebar' = SaveEnabled(s)
    BY <2>2
  <2> HIDE DEF s
  <2>5. /\ DOMAIN sidebar' = DOMAIN Mounted /\ sidebar'.expr_valid = sidebar.expr_valid
        /\ sidebar'.save_enabled = TRUE => sidebar.expr_valid = TRUE
        /\ sidebar'.column_name = sidebar.column_name /\ sidebar'.initial_expr = sidebar.initial_expr
    BY <2>3, <2>4, SaveEnabledFields
  <2>6. AnswersAreNumbered'
    BY <1>1, <1>2, <2>1, <2>5 DEF AnswersAreNumbered
  <2> QED BY <1>1, <1>2, <1>3, <2>5, <2>6 DEF EditorsInv, Compared, ComparesAtName
<1>6. CASE ValidateComplete
  <2>2. PICK check \in asked, fails \in BOOLEAN :
          /\ asked' = asked \ {check}
          /\ sidebar' = IF IsLatest(check) THEN SaveEnabled([sidebar EXCEPT !.expr_valid = Answer(check, fails)])
                        ELSE sidebar
          /\ editor' = IF IsLatest(check) /\ fails THEN [editor EXCEPT !.lost = check.req] ELSE editor
    BY <1>6 DEF ValidateComplete
  <2>1. /\ DOMAIN editor' = {"text", "req", "lost"} /\ editor'.req = editor.req /\ editor'.text = editor.text
        /\ IsLatest(check) /\ fails => editor'.lost = editor'.req
    <3>1. DOMAIN editor = {"text", "req", "lost"}
      BY <1>1 DEF AnswersAreNumbered
    <3> QED BY <2>2, <3>1 DEF IsLatest
  <2>3. CASE opened = NoColumn
    BY <1>1, <1>2, <1>3, <2>1, <2>2, <2>3 DEF EditorsInv, AnswersAreNumbered, Compared, ComparesAtName
  <2>4. CASE opened # NoColumn /\ ~IsLatest(check)
    <3>1. editor' = editor /\ sidebar' = sidebar /\ asked' = asked \ {check}
      BY <2>2, <2>4
    <3> QED BY <1>1, <1>2, <1>3, <2>4, <3>1 DEF EditorsInv, AnswersAreNumbered, Compared, ComparesAtName, IsLatest
  <2>5. CASE opened # NoColumn /\ IsLatest(check)
    <3> DEFINE s == [sidebar EXCEPT !.expr_valid = Answer(check, fails)]
    <3>1. /\ DOMAIN s = DOMAIN Mounted /\ s.expr_valid = Answer(check, fails)
          /\ s.column_name = sidebar.column_name /\ s.initial_expr = sidebar.initial_expr
      BY <1>1, <2>5, SidebarFields DEF AnswersAreNumbered
    <3>2. sidebar' = SaveEnabled(s)
      BY <2>2, <2>5
    <3> HIDE DEF s
    <3>3. /\ DOMAIN sidebar' = DOMAIN Mounted
          /\ (sidebar'.expr_valid = TRUE \/ sidebar'.save_enabled = TRUE) => Answer(check, fails)
          /\ sidebar'.column_name = sidebar.column_name /\ sidebar'.initial_expr = sidebar.initial_expr
      BY <3>1, <3>2, SaveEnabledFields
    <3>4. Answer(check, fails) => editor'.text \in GoodTexts \/ editor'.lost = editor'.req
      BY <1>1, <2>1, <2>5 DEF AnswersAreNumbered, IsLatest, Answer
    <3>5. AnswersAreNumbered'
      BY <1>1, <1>2, <2>1, <2>2, <3>3, <3>4 DEF AnswersAreNumbered
    <3> QED BY <1>1, <1>2, <1>3, <3>3, <3>5 DEF EditorsInv, Compared, ComparesAtName
  <2> QED BY <2>3, <2>4, <2>5
<1>7. CASE Reset
  <2> DEFINE s == [sidebar EXCEPT !.header_value = sidebar.initial_header, !.expr_value = sidebar.initial_expr,
                                  !.save_enabled = FALSE, !.reset_enabled = FALSE]
             text == TextOf(opened[1], known)
  <2>1. opened # NoColumn /\ SetsText(text, s, editor.req, asked)
    BY <1>7 DEF Reset
  <2>2. /\ DOMAIN s = DOMAIN Mounted
        /\ s.column_name = sidebar.column_name /\ s.initial_expr = sidebar.initial_expr
    BY <1>1, <2>1, SidebarFields DEF AnswersAreNumbered
  <2> HIDE DEF s, text
  <2>3. AnswersAreNumbered' /\ sidebar'.column_name = sidebar.column_name /\ sidebar'.initial_expr = sidebar.initial_expr
    BY <1>1, <2>1, <2>2, SetsTextAsks
  <2> QED BY <1>1, <1>2, <1>3, <2>3 DEF EditorsInv, Compared, ComparesAtName
<1> QED BY <1>4, <1>5, <1>6, <1>7


LEMMA CleanFields ==
  ASSUME DOMAIN sidebar = DOMAIN Mounted
  PROVE  /\ DOMAIN Clean(sidebar) = DOMAIN Mounted /\ Clean(sidebar).expr_valid = sidebar.expr_valid
         /\ Clean(sidebar).save_enabled = FALSE /\ Clean(sidebar).column_name = sidebar.column_name
         /\ Clean(sidebar).initial_expr = sidebar.expr_value
BY SidebarFields DEF Clean

\* A save commits, if it can, and compares with what it committed.
LEMMA SaveKeeps ==
  ASSUME EditorsInv, Save
  PROVE  EditorsInv'
<1> DEFINE text == sidebar.expr_value
           name == NameOf(sidebar.header_value, text)
           w == Edited(name, text)
           saved == Clean(sidebar)
           commits == SaveCommits(w)
<1>1. /\ opened # NoColumn /\ UNCHANGED <<known, opened, editor, asked, failed>>
      /\ written' = (IF commits THEN w ELSE written)
      /\ running' = (IF commits THEN Append(running, Saved(name)) ELSE running)
      /\ sidebar' = (IF written' = written THEN saved ELSE Initialized(saved, opened, known))
  BY DEF Save
<1>2. /\ AnswersAreNumbered /\ ConfigIsKnown /\ Compared /\ DOMAIN sidebar = DOMAIN Mounted
      /\ DOMAIN written.named = Roles /\ DOMAIN written = {"exprs", "named"} /\ NamesAreKnown(written)
  BY <1>1 DEF EditorsInv, AnswersAreNumbered, ConfigIsKnown
<1>3. /\ DOMAIN saved = DOMAIN Mounted /\ saved.expr_valid = sidebar.expr_valid /\ saved.save_enabled = FALSE
      /\ saved.column_name = sidebar.column_name /\ saved.initial_expr = text
  BY <1>2, CleanFields
<1>4. /\ DOMAIN w = {"exprs", "named"} /\ DOMAIN w.named = Roles
      /\ commits => NamesAreKnown(w) /\ ~failed
      /\ ~Aliased(opened) \/ w = Replaced(written, opened[1], name, text)
      /\ ~commits /\ ~failed /\ Aliased(opened) /\ opened[1] \in DOMAIN known => ~NamesAreKnown(w)
  <2>1. commits => NamesAreKnown(w) /\ ~failed
    BY DEF SaveCommits, Commits
  <2>2. ~commits /\ ~failed /\ Aliased(opened) /\ opened[1] \in DOMAIN known => ~NamesAreKnown(w)
    BY DEF SaveCommits, Commits
  <2>3. CASE Aliased(opened)
    <3>1. w = Replaced(written, opened[1], name, text)
      BY <2>3 DEF Edited
    <3>2. DOMAIN w = {"exprs", "named"} /\ DOMAIN w.named = Roles
      BY <3>1 DEF Replaced
    <3> QED BY <2>1, <2>2, <3>1, <3>2
  <2>4. CASE ~Aliased(opened)
    <3>1. w = [written EXCEPT !.exprs = Put(@, name, text)]
      BY <2>4 DEF Edited
    <3>2. DOMAIN w = {"exprs", "named"} /\ DOMAIN w.named = Roles
      BY <1>2, <3>1
    <3> QED BY <2>1, <2>2, <2>4, <3>2
  <2> QED BY <2>3, <2>4
<1>5. ASSUME Aliased(opened), opened[1] \in DOMAIN written.exprs
      PROVE  NamesAreKnown(w) /\ (w = written => written.exprs[opened[1]] = text)
  BY <1>2, <1>4, <1>5, RenamedIsKnown
<1> HIDE DEF w, saved, commits, name, text
<1>6. ConfigIsKnown'
  <2>1. CASE commits
    <3>1. running' # <<>> /\ IsList(running')
      BY <1>1, <1>2, <2>1, LongerList DEF ConfigIsKnown
    <3> QED BY <1>1, <1>4, <2>1, <3>1 DEF ConfigIsKnown, NamesAreKnown
  <2>2. CASE ~commits
    BY <1>1, <1>2, <2>2 DEF ConfigIsKnown, NamesAreKnown
  <2> QED BY <2>1, <2>2
<1>7. /\ DOMAIN sidebar' = DOMAIN Mounted /\ sidebar'.expr_valid = sidebar.expr_valid /\ sidebar'.save_enabled = FALSE
      /\ \/ written' = written /\ sidebar' = saved
         \/ sidebar'.column_name = NameShown(opened, known) /\ sidebar'.initial_expr = TextOf(NameShown(opened, known), known)
  <2>1. CASE written' = written
    BY <1>1, <1>3, <2>1
  <2>2. CASE written' # written
    BY <1>1, <1>3, <2>2, InitializedFields
  <2> QED BY <2>1, <2>2
<1>8. AnswersAreNumbered'
  BY <1>1, <1>2, <1>7 DEF AnswersAreNumbered
<1>9. Compared'
  <2> SUFFICES ASSUME Aliased(opened)
               PROVE  /\ sidebar'.column_name = opened[1]
                      /\ ~failed /\ opened[1] \in DOMAIN known /\ opened[1] \in DOMAIN written'.exprs =>
                           sidebar'.initial_expr \in {known[opened[1]], written'.exprs[opened[1]]}
    BY <1>1 DEF Compared, ComparesAtName
  <2>1. NameShown(opened, known) = opened[1]
    BY DEF NameShown, Aliased
  <2>2. CASE sidebar'.column_name = NameShown(opened, known) /\ sidebar'.initial_expr = TextOf(NameShown(opened, known), known)
    BY <2>1, <2>2 DEF TextOf
  <2>3. CASE written' = written /\ sidebar' = saved
    <3>1. sidebar'.column_name = opened[1] /\ sidebar'.initial_expr = text
      BY <1>1, <1>2, <1>3, <2>3 DEF Compared, ComparesAtName
    <3>2. ASSUME ~failed, opened[1] \in DOMAIN known, opened[1] \in DOMAIN written.exprs
          PROVE  written.exprs[opened[1]] = text
      <4>1. commits
        BY <1>4, <1>5, <3>2
      <4>2. w = written
        BY <1>1, <2>3, <4>1
      <4> QED BY <1>5, <3>2, <4>2
    <3> QED BY <2>3, <3>1, <3>2
  <2> QED BY <1>7, <2>2, <2>3
<1> QED BY <1>6, <1>8, <1>9 DEF EditorsInv

LEMMA OpeningKeeps ==
  ASSUME EditorsInv, OpenSettings \/ ToggleColumnSettings
  PROVE  EditorsInv'
<1>1. UNCHANGED <<running, failed>> /\ \E at : Shows(at, written, known)
  BY DEF OpenSettings, ToggleColumnSettings, EditsNothing
<1>2. PICK at : Shows(at, written, known)
  BY <1>1
<1>3. AnswersAreNumbered' /\ Compared' /\ written' = written /\ known' = known
  BY <1>1, <1>2, ComparesAfter DEF EditorsInv
<1> QED BY <1>1, <1>3 DEF EditorsInv, ConfigIsKnown, NamesAreKnown

LEMMA CommitKeeps ==
  ASSUME EditorsInv, Delete \/ OtherCommit
  PROVE  EditorsInv'
<1>1. ASSUME NEW at, NEW w, Shows(at, w, known), failed => failed' \/ DOMAIN w.exprs = {},
             DOMAIN w = {"exprs", "named"}, DOMAIN w.named = Roles, NamesAreKnown(w),
             (running' # <<>> /\ IsList(running')) \/ (running' = running /\ failed' = failed /\ w = written)
      PROVE  EditorsInv'
  <2>1. AnswersAreNumbered' /\ Compared' /\ written' = w /\ known' = known
    BY <1>1, ComparesAfter DEF EditorsInv
  <2>2. NamesAreKnown(written)'
    BY <1>1, <2>1 DEF NamesAreKnown
  <2>3. IsList(running') /\ (running' = <<>> /\ ~failed' => known' = written'.exprs)
    BY <1>1, <2>1 DEF EditorsInv, ConfigIsKnown
  <2> QED BY <1>1, <2>1, <2>2, <2>3 DEF EditorsInv, ConfigIsKnown
<1>2. DOMAIN written = {"exprs", "named"} /\ DOMAIN written.named = Roles /\ NamesAreKnown(written)
  BY DEF EditorsInv, ConfigIsKnown
<1>3. ASSUME NEW at PROVE Runs(at) => running' # <<>> /\ IsList(running')
  BY LongerList DEF Runs, EditorsInv, ConfigIsKnown
<1>4. CASE Delete
  <2> DEFINE w == [written EXCEPT !.exprs = WithoutExpr(@, sidebar.column_name)]
  <2>1. /\ failed' = failed
        /\ \/ Commits(w) /\ Shows(NoColumn, w, known) /\ Runs(NoColumn)
           \/ Shows(NoColumn, written, known) /\ UNCHANGED running
    BY <1>4 DEF Delete
  <2>2. DOMAIN w = {"exprs", "named"} /\ DOMAIN w.named = Roles /\ (Commits(w) => NamesAreKnown(w))
    BY <1>2 DEF Commits
  <2> HIDE DEF w
  <2> QED BY <1>1, <1>2, <1>3, <2>1, <2>2
<1>5. CASE OtherCommit
  <2>1. Runs(NoColumn)
    BY <1>5 DEF OtherCommit
  <2>2. ASSUME NEW r \in Roles, NEW n \in DOMAIN written.exprs, ~failed, UNCHANGED failed,
               Shows(opened, [written EXCEPT !.named[r] = IF n \in @ THEN @ \ {n} ELSE @ \cup {n}], known)
        PROVE  EditorsInv'
    <3> DEFINE w == [written EXCEPT !.named[r] = IF n \in @ THEN @ \ {n} ELSE @ \cup {n}]
    <3>1. /\ DOMAIN w = {"exprs", "named"} /\ w.exprs = written.exprs
          /\ w.named = [written.named EXCEPT ![r] = IF n \in @ THEN @ \ {n} ELSE @ \cup {n}]
      BY <1>2
    <3>2. DOMAIN w.named = Roles
      BY <1>2, <3>1
    <3>3. NamesAreKnown(w)
      BY <1>2, <3>1 DEF NamesAreKnown
    <3>4. Shows(opened, w, known)
      BY <2>2
    <3> HIDE DEF w
    <3> QED BY <1>1, <1>3, <2>1, <2>2, <3>1, <3>2, <3>3, <3>4
  <2>3. ASSUME Shows(opened, Fresh, known), failed' = FALSE
        PROVE  EditorsInv'
    <3>1. DOMAIN Fresh = {"exprs", "named"} /\ DOMAIN Fresh.named = Roles /\ DOMAIN Fresh.exprs = {} /\ NamesAreKnown(Fresh)
      BY DEF Fresh, NamesAreKnown
    <3> QED BY <1>1, <1>3, <2>1, <2>3, <3>1
  <2> QED BY <1>5, <2>2, <2>3 DEF OtherCommit
<1> QED BY <1>4, <1>5

LEMMA RunEndsKeeps ==
  ASSUME EditorsInv, RunEnds
  PROVE  EditorsInv'
<1>1. AnswersAreNumbered /\ ConfigIsKnown /\ Compared
  BY DEF EditorsInv
<1>4. IsList(running')
  BY <1>1, ShorterList DEF RunEnds, ConfigIsKnown
<1>2. CASE \E at : Shows(at, written, written.exprs) /\ UNCHANGED failed
  <2>1. AnswersAreNumbered' /\ Compared' /\ written' = written /\ known' = written.exprs
    BY <1>1, <1>2, ComparesAfter
  <2> QED BY <1>1, <1>4, <2>1 DEF EditorsInv, ConfigIsKnown, NamesAreKnown
<1>3. CASE failed' = TRUE /\ UNCHANGED <<written, known, opened, sidebar, header, editor, asked>>
  BY <1>1, <1>3, <1>4 DEF EditorsInv, AnswersAreNumbered, ConfigIsKnown, NamesAreKnown, Compared, ComparesAtName
<1> QED BY <1>2, <1>3 DEF RunEnds

LEMMA EditorsInitInv == EditorsInit => EditorsInv
<1> SUFFICES ASSUME EditorsInit PROVE EditorsInv
  OBVIOUS
<1>1. AnswersAreNumbered /\ Compared
  BY DEF EditorsInit, NoEditor, AnswersAreNumbered, Compared, ComparesAtName
<1>2. ASSUME NEW name, NEW text, written = [exprs |-> [n \in {name} |-> text], named |-> [r \in Roles |-> {name}]]
      PROVE  DOMAIN written = {"exprs", "named"} /\ DOMAIN written.named = Roles /\ NamesAreKnown(written)
  BY <1>2 DEF NamesAreKnown
<1>3. DOMAIN written = {"exprs", "named"} /\ DOMAIN written.named = Roles /\ NamesAreKnown(written)
  <2>1. CASE written = Fresh
    BY <2>1 DEF Fresh, NamesAreKnown
  <2> QED BY <1>2, <2>1 DEF EditorsInit
<1>4. known = written.exprs
  BY DEF EditorsInit
<1>5. IsList(running)
  <2>1. running = <<>> /\ <<>> \in Seq({})
    BY DEF EditorsInit
  <2> QED BY <2>1 DEF IsList
<1> QED BY <1>1, <1>3, <1>4, <1>5 DEF EditorsInv, ConfigIsKnown

LEMMA EditorsStepInv == EditorsInv /\ [EditorsNext]_editorsVars => EditorsInv'
<1> SUFFICES ASSUME EditorsInv, [EditorsNext]_editorsVars PROVE EditorsInv'
  OBVIOUS
<1>1. CASE EditorsNext
  BY <1>1, OpeningKeeps, TypingKeeps, SaveKeeps, CommitKeeps, RunEndsKeeps DEF EditorsNext
<1>2. CASE UNCHANGED editorsVars
  BY <1>2 DEF editorsVars, EditorsInv, AnswersAreNumbered, ConfigIsKnown, NamesAreKnown, Compared, ComparesAtName
<1> QED BY <1>1, <1>2

\* Once the latest validation is over the Save button is enabled only for a text
\* that the server found valid, or whose request failed, which the code takes as
\* valid (validate_expression.rs:38); and at rest the sidebar compares its draft
\* with what the config holds. Whatever order answers, failures, runs and other
\* commits come in.
THEOREM SidebarStaysInStep == EditorsSpec => []SidebarIsInStep
<1>1. ASSUME EditorsInv
      PROVE  SidebarIsInStep
  <2>1. SaveHeedsTheLatest
    BY <1>1 DEF EditorsInv, AnswersAreNumbered, SaveHeedsTheLatest
  <2>2. SidebarFollowsConfig
    BY <1>1 DEF EditorsInv, ConfigIsKnown, Compared, ComparesAtName, SidebarFollowsConfig, Settled
  <2> QED BY <2>1, <2>2 DEF SidebarIsInStep
<1> QED BY <1>1, EditorsInitInv, EditorsStepInv, PTL DEF EditorsSpec

----------------------------------------------------------------------------
(* The window editor. Whatever was dragged, typed and replaced, a draft is *)
(* well formed; a spec that is made of a valid draft is one the server can *)
(* compute and is the same when it is opened again; and so is every window *)
(* of the config, which is made of such specs only.                        *)

AllColumns == UNION {DOMAIN s : s \in Schemas}

\* A draft: no column partitions twice, and the numbers are in range.
DraftFits(d) ==
    /\ DOMAIN d = DOMAIN NewDefault
    /\ d.frame \in FrameKinds /\ d.desc \in BOOLEAN
    /\ d.partition \in Seq(AllColumns) /\ IsInjective(d.partition)
    /\ d.range \in Int /\ d.range > 0 /\ d.alpha \in 1..100

\* A spec that the server can compute, and that the editor opens on as it is.
Sound(spec) ==
    /\ Computable(spec)
    /\ Validated(FromSpec(spec)) = Some(spec)
    /\ RawIsSpec(Raw(spec)) /\ FromRaw(Raw(spec)) = spec
    /\ DraftFits(FromSpec(spec))

\* What is to be saved, the windows and the draft are sound.
FormFits(f) ==
    /\ DOMAIN f = {"open", "initial", "value", "name"} /\ f.open \in BOOLEAN
    /\ ~f.open => f.value = None

WindowInv ==
    /\ schema \in Schemas
    /\ DOMAIN windows = {"specs", "used"} /\ FormFits(form)
    /\ \A n \in DOMAIN windows.specs : Sound(windows.specs[n])
    /\ form.value # None => Sound(form.value[1])
    /\ DraftFits(draft)
    /\ dragged # NoDragged => form.open /\ dragged.origin \in Slot \cup {"selector"}

\* What is declared of an aggregate.
LEMMA WhatIsDeclared ==
  ASSUME schema \in Schemas, NEW source, NEW op, Declared(source, op) # None
  PROVE  /\ source \in DOMAIN schema
         /\ Declared(source, op)[1].frames \in SUBSET FrameKinds
         /\ Declared(source, op)[1].frames = {} \/ Declared(source, op)[1].first \in Declared(source, op)[1].frames
         /\ Declared(source, op)[1].offset \in BOOLEAN /\ Declared(source, op)[1].alpha \in BOOLEAN
<1> DEFINE list == Aggregates[schema[source]]
           found == {a \in ToSet(list) : a.name = op}
<1>1. source \in DOMAIN schema
  BY DEF Declared
<1>2. schema[source] \in DOMAIN Aggregates
  BY <1>1, WindowEditAssumption
<1>3. list \in Seq(Declarations) /\ \A i \in DOMAIN list : list[i].frames = {} \/ list[i].first \in list[i].frames
  BY <1>2, WindowEditAssumption
<1>4. found # {} /\ Declared(source, op) = Some(CHOOSE a \in found : TRUE)
  BY <1>1 DEF Declared
<1>5. Declared(source, op)[1] \in ToSet(list)
  BY <1>4 DEF Some
<1> HIDE DEF list
<1>6. PICK i \in DOMAIN list : Declared(source, op)[1] = list[i]
  BY <1>5 DEF ToSet
<1>7. list[i] \in Declarations
  BY <1>3, <1>6
<1> QED BY <1>1, <1>3, <1>6, <1>7 DEF Declarations

LEMMA TwoLists ==
  ASSUME NEW S, NEW s \in Seq(S), NEW t \in Seq(S)
  PROVE  /\ s \o t \in Seq(S) /\ Len(s \o t) = Len(s) + Len(t)
         /\ \A k \in 1..(Len(s) + Len(t)) : (s \o t)[k] = IF k <= Len(s) THEN s[k] ELSE t[k - Len(s)]
<1>1. s \o t \in Seq(S) /\ Len(s \o t) = Len(s) + Len(t)
  OBVIOUS
<1>2. \A k \in 1..(Len(s) + Len(t)) : (s \o t)[k] = IF k <= Len(s) THEN s[k] ELSE t[k - Len(s)]
  OBVIOUS
<1> QED BY <1>1, <1>2

LEMMA PartitionShrinks ==
  ASSUME NEW S, NEW list \in Seq(S), IsInjective(list), NEW i \in 1..Len(list)
  PROVE  RemoveAt(list, i) \in Seq(S) /\ IsInjective(RemoveAt(list, i))
<1> DEFINE before == SubSeq(list, 1, i - 1)
           after == SubSeq(list, i + 1, Len(list))
           r == before \o after
<1>1. Len(list) \in Nat /\ i \in Nat /\ 1 <= i /\ i <= Len(list) /\ \A k \in 1..Len(list) : list[k] \in S
  OBVIOUS
<1>2. before \in Seq(S) /\ Len(before) = i - 1 /\ \A k \in 1..(i - 1) : before[k] = list[k]
  BY <1>1
<1>3. after \in Seq(S) /\ Len(after) = Len(list) - i /\ \A k \in 1..(Len(list) - i) : after[k] = list[k + i]
  BY <1>1
<1> HIDE DEF before, after
<1>4. /\ r \in Seq(S) /\ Len(r) = Len(list) - 1
      /\ \A k \in 1..(Len(list) - 1) : r[k] = IF k < i THEN list[k] ELSE list[k + 1]
  <2>1. /\ r \in Seq(S) /\ Len(r) = Len(before) + Len(after)
        /\ \A k \in 1..(Len(before) + Len(after)) : r[k] = IF k <= Len(before) THEN before[k] ELSE after[k - Len(before)]
    BY <1>2, <1>3, TwoLists
  <2>2. r \in Seq(S) /\ Len(r) = Len(list) - 1
    BY <1>1, <1>2, <1>3, <2>1
  <2>3. ASSUME NEW k \in 1..(Len(list) - 1)
        PROVE  r[k] = IF k < i THEN list[k] ELSE list[k + 1]
    <3> HIDE DEF r
    <3>1. r[k] = IF k <= i - 1 THEN before[k] ELSE after[k - (i - 1)]
      BY <1>1, <1>2, <1>3, <2>1
    <3>2. CASE k < i
      BY <1>1, <1>2, <3>1, <3>2
    <3>3. CASE k >= i
      <4>1. k - (i - 1) \in 1..(Len(list) - i) /\ (k - (i - 1)) + i = k + 1
        BY <1>1, <3>3
      <4>2. r[k] = after[k - (i - 1)]
        BY <1>1, <3>1, <3>3
      <4> QED BY <1>1, <1>3, <3>3, <4>1, <4>2
    <3> QED BY <1>1, <3>2, <3>3
  <2> QED BY <2>2, <2>3
<1>5. RemoveAt(list, i) = r
  BY DEF RemoveAt, before, after
<1> HIDE DEF r
<1>6. ASSUME NEW a \in DOMAIN r, NEW b \in DOMAIN r, r[a] = r[b]
      PROVE  a = b
  <2>1. a \in 1..(Len(list) - 1) /\ b \in 1..(Len(list) - 1)
    BY <1>4, <1>6
  <2>2. \A k, l \in 1..Len(list) : list[k] = list[l] => k = l
    BY DEF IsInjective
  <2> QED BY <1>1, <1>4, <1>6, <2>1, <2>2
<1> QED BY <1>4, <1>5, <1>6 DEF IsInjective

LEMMA PartitionTakenOut ==
  ASSUME NEW S, NEW list \in Seq(S), IsInjective(list), NEW c
  PROVE  TakenOut(list, c) \in Seq(S) /\ IsInjective(TakenOut(list, c))
<1>1. CASE c \in ToSet(list)
  <2> DEFINE i == CHOOSE i \in DOMAIN list : list[i] = c
  <2>1. \E k \in DOMAIN list : list[k] = c
    BY <1>1 DEF ToSet
  <2>2. i \in 1..Len(list)
    BY <2>1
  <2>3. TakenOut(list, c) = RemoveAt(list, i)
    BY <1>1 DEF TakenOut
  <2> QED BY <2>2, <2>3, PartitionShrinks
<1>2. CASE c \notin ToSet(list)
  BY <1>2 DEF TakenOut
<1> QED BY <1>1, <1>2

LEMMA PartitionGrows ==
  ASSUME NEW S, NEW list \in Seq(S), IsInjective(list), NEW c \in S, c \notin ToSet(list)
  PROVE  Append(list, c) \in Seq(S) /\ IsInjective(Append(list, c))
<1>1. \A k \in 1..Len(list) : list[k] # c
  BY DEF ToSet
<1>2. /\ Append(list, c) \in Seq(S) /\ Len(Append(list, c)) = Len(list) + 1
      /\ \A k \in 1..Len(list) : Append(list, c)[k] = list[k]
      /\ Append(list, c)[Len(list) + 1] = c
  OBVIOUS
<1>3. \A k, l \in 1..Len(list) : list[k] = list[l] => k = l
  BY DEF IsInjective
<1> QED BY <1>1, <1>2, <1>3 DEF IsInjective

LEMMA Somes == \A x : Some(x) # None /\ Some(x)[1] = x
BY DEF Some, None

\* What the draft of a spec is.
LEMMA DraftFields ==
  ASSUME NEW spec
  PROVE  /\ DOMAIN FromSpec(spec) = DOMAIN NewDefault
         /\ FromSpec(spec).source = spec.source /\ FromSpec(spec).op = spec.op /\ FromSpec(spec).partition = spec.partition
         /\ FromSpec(spec).order = IF spec.order = None THEN "" ELSE spec.order[1].column
         /\ FromSpec(spec).desc = (spec.order # None /\ spec.order[1].desc)
         /\ FromSpec(spec).frame = IF spec.frame = None THEN "Cumulative" ELSE spec.frame[1].kind
         /\ FromSpec(spec).rows = IF spec.frame # None /\ spec.frame[1].kind = "Rows" THEN spec.frame[1].size ELSE 100
         /\ FromSpec(spec).range = IF spec.frame # None /\ spec.frame[1].kind = "Range" THEN spec.frame[1].size ELSE 100
         /\ FromSpec(spec).offset = IF spec.offset = None THEN 100 ELSE spec.offset[1]
         /\ FromSpec(spec).alpha = IF spec.alpha = None THEN 100 ELSE spec.alpha[1]
<1> DEFINE f == IF spec.frame = None THEN [kind |-> "Cumulative", size |-> 0] ELSE spec.frame[1]
           b == NewDefault
<1>1. FromSpec(spec) =
        [b EXCEPT !.op = spec.op, !.source = spec.source, !.partition = spec.partition, !.frame = f.kind,
          !.order = IF spec.order = None THEN "" ELSE spec.order[1].column,
          !.desc = spec.order # None /\ spec.order[1].desc,
          !.rows = IF f.kind = "Rows" THEN f.size ELSE 100,
          !.range = IF f.kind = "Range" THEN f.size ELSE 100,
          !.offset = IF spec.offset = None THEN 100 ELSE spec.offset[1],
          !.alpha = IF spec.alpha = None THEN 100 ELSE spec.alpha[1]]
  BY DEF FromSpec
<1>2. DOMAIN b = {"op", "source", "order", "desc", "partition", "frame", "rows", "range", "offset", "alpha"}
  BY DEF NewDefault
<1>3. spec.frame = None => f.kind = "Cumulative"
  OBVIOUS
<1>4. spec.frame # None => f = spec.frame[1]
  OBVIOUS
<1> HIDE DEF f, b
<1> DEFINE e == FromSpec(spec)
<1>5. DOMAIN e = DOMAIN b /\ e.source = spec.source /\ e.op = spec.op /\ e.partition = spec.partition /\ e.frame = f.kind
  <2>1. DOMAIN e = DOMAIN b /\ e.source = spec.source
    BY <1>1, <1>2
  <2>2. e.op = spec.op
    BY <1>1, <1>2
  <2>3. e.partition = spec.partition
    BY <1>1, <1>2
  <2>4. e.frame = f.kind
    BY <1>1, <1>2
  <2> QED BY <2>1, <2>2, <2>3, <2>4
<1>6. e.order = (IF spec.order = None THEN "" ELSE spec.order[1].column)
  BY <1>1, <1>2
<1>7. e.desc = (spec.order # None /\ spec.order[1].desc)
  BY <1>1, <1>2
<1>8. /\ e.rows = (IF f.kind = "Rows" THEN f.size ELSE 100)
      /\ e.range = (IF f.kind = "Range" THEN f.size ELSE 100)
  BY <1>1, <1>2
<1>9. /\ e.offset = (IF spec.offset = None THEN 100 ELSE spec.offset[1])
      /\ e.alpha = (IF spec.alpha = None THEN 100 ELSE spec.alpha[1])
  BY <1>1, <1>2
<1>10. DOMAIN e = DOMAIN NewDefault
  BY <1>5 DEF b
<1> HIDE DEF e
<1>11. /\ e.rows = IF spec.frame # None /\ spec.frame[1].kind = "Rows" THEN spec.frame[1].size ELSE 100
       /\ e.range = IF spec.frame # None /\ spec.frame[1].kind = "Range" THEN spec.frame[1].size ELSE 100
       /\ e.frame = IF spec.frame = None THEN "Cumulative" ELSE spec.frame[1].kind
  BY <1>3, <1>4, <1>5, <1>8
<1> QED BY <1>5, <1>6, <1>7, <1>9, <1>10, <1>11 DEF e

\* The aggregate of a valid draft.
Of(d) == Declared(d.source, d.op)[1]

LEMMA SevenFields ==
  ASSUME NEW s, NEW src, NEW op, NEW part, NEW ord, NEW frm, NEW off, NEW alp,
         s = [source |-> src, op |-> op, partition |-> part, order |-> ord, frame |-> frm, offset |-> off, alpha |-> alp]
  PROVE  /\ s = [k \in DOMAIN s |-> s[k]]
         /\ DOMAIN s = {"source", "op", "partition", "order", "frame", "offset", "alpha"}
         /\ s.source = src /\ s.op = op /\ s.partition = part /\ s.order = ord /\ s.frame = frm
         /\ s.offset = off /\ s.alpha = alp
OBVIOUS

OrderOf(d) == IF d.order = "" THEN None ELSE Some([column |-> d.order, desc |-> d.desc])
FramesOf(d) == IF Of(d).frames = {} THEN None ELSE FrameOf(d)
OffsetOf(d) == IF Of(d).offset /\ d.offset # 100 THEN Some(d.offset) ELSE None
AlphaOf(d) == IF Of(d).alpha THEN Some(d.alpha) ELSE None

LEMMA SpecFields ==
  ASSUME NEW d
  PROVE  /\ ToSpec(d) = [k \in DOMAIN ToSpec(d) |-> ToSpec(d)[k]]
         /\ DOMAIN ToSpec(d) = {"source", "op", "partition", "order", "frame", "offset", "alpha"}
         /\ ToSpec(d).source = d.source /\ ToSpec(d).op = d.op /\ ToSpec(d).partition = d.partition
         /\ ToSpec(d).order = OrderOf(d) /\ ToSpec(d).frame = FramesOf(d)
         /\ ToSpec(d).offset = OffsetOf(d) /\ ToSpec(d).alpha = AlphaOf(d)
<1>1. ToSpec(d) = [source |-> d.source, op |-> d.op, partition |-> d.partition, order |-> OrderOf(d),
                   frame |-> FramesOf(d), offset |-> OffsetOf(d), alpha |-> AlphaOf(d)]
  BY DEF ToSpec, Of, OrderOf, FramesOf, OffsetOf, AlphaOf
<1> QED BY <1>1, SevenFields

LEMMA FrameIs ==
  ASSUME NEW d, d.frame \in FrameKinds
  PROVE  FrameOf(d) = IF d.frame = "Rows" THEN Some([kind |-> "Rows", size |-> d.rows])
                      ELSE IF d.frame = "Range" THEN Some([kind |-> "Range", size |-> d.range]) ELSE None
BY DEF FrameOf, FrameKinds

LEMMA SameSpecs ==
  ASSUME NEW s, NEW t,
         DOMAIN s = {"source", "op", "partition", "order", "frame", "offset", "alpha"}, DOMAIN t = DOMAIN s,
         s = [k \in DOMAIN s |-> s[k]], t = [k \in DOMAIN t |-> t[k]],
         s.source = t.source, s.op = t.op, s.partition = t.partition, s.order = t.order, s.frame = t.frame,
         s.offset = t.offset, s.alpha = t.alpha
  PROVE  s = t
OBVIOUS

LEMMA Lengths == Len(None) = 0 /\ \A x : Len(Some(x)) = 1
BY DEF None, Some

\* A spec comes back from its raw form.
LEMMA RawIsSame ==
  ASSUME NEW s,
         DOMAIN s = {"source", "op", "partition", "order", "frame", "offset", "alpha"}, s = [k \in DOMAIN s |-> s[k]],
         s.frame # None => \E n : \/ s.frame = Some([kind |-> "Rows", size |-> n])
                                 \/ s.frame = Some([kind |-> "Range", size |-> n])
  PROVE  RawIsSpec(Raw(s)) /\ FromRaw(Raw(s)) = s
<1> DEFINE x == [s EXCEPT !.frame = None]
           rows == IF s.frame # None /\ s.frame[1].kind = "Rows" THEN Some(s.frame[1].size) ELSE None
           range == IF s.frame # None /\ s.frame[1].kind = "Range" THEN Some(s.frame[1].size) ELSE None
           cumulative == IF s.frame # None /\ s.frame[1].kind = "Cumulative" THEN Some(TRUE) ELSE None
           raw == Raw(s)
<1>1. raw = [spec |-> x, rows |-> rows, range |-> range, cumulative |-> cumulative]
  BY DEF Raw
<1> HIDE DEF raw
<1>4. raw.rows = rows /\ raw.range = range /\ raw.cumulative = cumulative /\ raw.spec = x
  <2> HIDE DEF rows, range, cumulative, x
  <2> QED BY <1>1
<1>2. [x EXCEPT !.frame = s.frame] = s
  OBVIOUS
<1>3. /\ RawFrame(raw) = s.frame
      /\ Len(rows) + Len(range) + Len(cumulative) \in {0, 1}
      /\ cumulative # Some(FALSE)
  <2>1. CASE s.frame = None
    <3>1. rows = None /\ range = None /\ cumulative = None
      BY <2>1
    <3> HIDE DEF rows, range, cumulative, x
    <3>2. RawFrame(raw) = None
      BY <1>4, <3>1 DEF RawFrame
    <3>3. Len(rows) = 0 /\ Len(range) = 0 /\ Len(cumulative) = 0 /\ cumulative # Some(FALSE)
      BY <3>1, Lengths, Somes
    <3>4. Len(rows) + Len(range) + Len(cumulative) = 0
      BY <3>3
    <3>5. RawFrame(raw) = s.frame
      BY <2>1, <3>2
    <3> QED BY <3>3, <3>4, <3>5
  <2>2. ASSUME NEW n, s.frame = Some([kind |-> "Rows", size |-> n])
        PROVE  /\ RawFrame(raw) = s.frame
               /\ Len(rows) + Len(range) + Len(cumulative) \in {0, 1}
               /\ cumulative # Some(FALSE)
    <3>1. s.frame # None /\ s.frame[1].kind = "Rows" /\ s.frame[1].size = n
      BY <2>2, Somes
    <3>2. rows = Some(n) /\ range = None /\ cumulative = None
      BY <3>1
    <3> HIDE DEF rows, range, cumulative, x
    <3>3. rows # None /\ rows[1] = n
      BY <3>2, Somes
    <3>4. Len(rows) = 1 /\ Len(range) = 0 /\ Len(cumulative) = 0 /\ cumulative # Some(FALSE)
      BY <3>2, Lengths, Somes
    <3>5. RawFrame(raw) = Some([kind |-> "Rows", size |-> n])
      BY <1>4, <3>3 DEF RawFrame
    <3>6. Len(rows) + Len(range) + Len(cumulative) = 1
      BY <3>4
    <3>7. RawFrame(raw) = s.frame
      BY <2>2, <3>5
    <3> QED BY <3>4, <3>6, <3>7
  <2>3. ASSUME NEW n, s.frame = Some([kind |-> "Range", size |-> n])
        PROVE  /\ RawFrame(raw) = s.frame
               /\ Len(rows) + Len(range) + Len(cumulative) \in {0, 1}
               /\ cumulative # Some(FALSE)
    <3>1. s.frame # None /\ s.frame[1].kind = "Range" /\ s.frame[1].size = n
      BY <2>3, Somes
    <3>2. rows = None /\ range = Some(n) /\ cumulative = None
      BY <3>1
    <3> HIDE DEF rows, range, cumulative, x
    <3>3. range # None /\ range[1] = n
      BY <3>2, Somes
    <3>4. Len(rows) = 0 /\ Len(range) = 1 /\ Len(cumulative) = 0 /\ cumulative # Some(FALSE)
      BY <3>2, Lengths, Somes
    <3>5. RawFrame(raw) = Some([kind |-> "Range", size |-> n])
      BY <1>4, <3>2, <3>3 DEF RawFrame
    <3>6. Len(rows) + Len(range) + Len(cumulative) = 1
      BY <3>4
    <3>7. RawFrame(raw) = s.frame
      BY <2>3, <3>5
    <3> QED BY <3>4, <3>6, <3>7
  <2> QED BY <2>1, <2>2, <2>3
<1>5. RawIsSpec(raw)
  <2> HIDE DEF rows, range, cumulative, x
  <2> QED BY <1>3, <1>4 DEF RawIsSpec
<1>6. FromRaw(raw) = s
  <2> HIDE DEF x
  <2> QED BY <1>2, <1>3, <1>4 DEF FromRaw
<1> QED BY <1>5, <1>6 DEF raw

\* A spec of a valid draft is sound.
LEMMA ValidIsSound ==
  ASSUME schema \in Schemas, NEW d, DraftFits(d), Validated(d) # None
  PROVE  Validated(d) = Some(ToSpec(d)) /\ Sound(ToSpec(d))
<1> DEFINE s == ToSpec(d)
           e == FromSpec(s)
           a == Of(d)
<1>1. /\ ColumnsAreValid(d) /\ Declared(d.source, d.op) # None /\ FrameIsValid(d)
      /\ Validated(d) = Some(ToSpec(d))
  BY DEF Validated
<1>2. /\ a.frames \in SUBSET FrameKinds
      /\ a.offset \in BOOLEAN /\ a.alpha \in BOOLEAN
  BY <1>1, WhatIsDeclared DEF Of
<1>7. /\ d.frame \in FrameKinds /\ d.desc \in BOOLEAN /\ d.partition \in Seq(AllColumns) /\ IsInjective(d.partition)
      /\ d.range \in Int /\ d.range > 0 /\ d.alpha \in 1..100
  BY DEF DraftFits
<1>3. /\ s = [k \in DOMAIN s |-> s[k]]
      /\ DOMAIN s = {"source", "op", "partition", "order", "frame", "offset", "alpha"}
      /\ s.source = d.source /\ s.op = d.op /\ s.partition = d.partition
  BY SpecFields
<1>o. s.order = OrderOf(d) /\ s.frame = FramesOf(d) /\ s.offset = OffsetOf(d) /\ s.alpha = AlphaOf(d)
  BY SpecFields
<1>4. DOMAIN e = DOMAIN NewDefault /\ e.source = s.source /\ e.op = s.op /\ e.partition = s.partition
  BY DraftFields
<1>r. e.order = (IF s.order = None THEN "" ELSE s.order[1].column) /\ e.desc = (s.order # None /\ s.order[1].desc)
  BY DraftFields
<1>m. /\ e.frame = IF s.frame = None THEN "Cumulative" ELSE s.frame[1].kind
      /\ e.rows = IF s.frame # None /\ s.frame[1].kind = "Rows" THEN s.frame[1].size ELSE 100
      /\ e.range = IF s.frame # None /\ s.frame[1].kind = "Range" THEN s.frame[1].size ELSE 100
  BY DraftFields
<1>t. /\ e.offset = IF s.offset = None THEN 100 ELSE s.offset[1]
      /\ e.alpha = IF s.alpha = None THEN 100 ELSE s.alpha[1]
  BY DraftFields
<1>5. Of(e) = a /\ Declared(e.source, e.op) = Declared(d.source, d.op)
  BY <1>3, <1>4 DEF Of
<1>8. /\ a.frames # {} => d.frame \in a.frames
      /\ a.frames # {} /\ d.frame = "Range" => d.order # "" /\ schema[d.order] \in Ordered
  BY <1>1 DEF FrameIsValid, Of
<1> HIDE DEF s, e, a
<1>11. /\ e.frame \in FrameKinds /\ e.range \in Int /\ e.range > 0
       /\ a.frames # {} => e.frame = d.frame
       /\ a.frames # {} /\ d.frame = "Rows" => e.rows = d.rows
       /\ a.frames # {} /\ d.frame = "Range" => e.range = d.range
       /\ s.frame # None => a.frames # {} /\ s.frame[1].kind = d.frame
       /\ s.frame # None /\ d.frame = "Range" => s.frame[1].size = d.range
       /\ s.frame # None => \/ d.frame = "Rows" /\ s.frame = Some([kind |-> "Rows", size |-> d.rows])
                            \/ d.frame = "Range" /\ s.frame = Some([kind |-> "Range", size |-> d.range])
  <2>1. CASE a.frames = {} \/ d.frame = "Cumulative"
    <3>1. s.frame = None
      BY <1>7, <1>o, <2>1, FrameIs DEF FramesOf, a
    <3>2. e.frame = "Cumulative" /\ e.range = 100
      BY <1>m, <3>1
    <3>3. e.frame \in FrameKinds /\ e.range \in Int /\ e.range > 0
      BY <3>2 DEF FrameKinds
    <3>4. a.frames # {} => e.frame = d.frame /\ d.frame # "Rows" /\ d.frame # "Range"
      BY <2>1, <3>2
    <3> QED BY <3>1, <3>3, <3>4
  <2>2. CASE a.frames # {} /\ d.frame = "Rows"
    <3>f. FrameOf(d) = Some([kind |-> "Rows", size |-> d.rows])
      BY <1>7, <2>2, FrameIs
    <3>1. s.frame = Some([kind |-> "Rows", size |-> d.rows]) /\ s.frame # None
      BY <1>o, <2>2, <3>f, Somes DEF FramesOf, a
    <3>2. s.frame[1].kind = "Rows" /\ s.frame[1].size = d.rows
      BY <3>1, Somes
    <3>3. e.frame = "Rows" /\ e.rows = d.rows /\ e.range = 100
      BY <1>m, <3>1, <3>2
    <3>4. e.frame \in FrameKinds /\ e.range \in Int /\ e.range > 0
      BY <3>3 DEF FrameKinds
    <3>5. e.frame = d.frame /\ d.frame # "Range"
      BY <2>2, <3>3
    <3> QED BY <2>2, <3>1, <3>2, <3>3, <3>4, <3>5
  <2>3. CASE a.frames # {} /\ d.frame = "Range"
    <3>f. FrameOf(d) = Some([kind |-> "Range", size |-> d.range])
      BY <1>7, <2>3, FrameIs
    <3>1. s.frame = Some([kind |-> "Range", size |-> d.range]) /\ s.frame # None
      BY <1>o, <2>3, <3>f, Somes DEF FramesOf, a
    <3>2. s.frame[1].kind = "Range" /\ s.frame[1].size = d.range
      BY <3>1, Somes
    <3>3. e.frame = "Range" /\ e.range = d.range
      BY <1>m, <3>1, <3>2
    <3>4. e.frame \in FrameKinds /\ e.range \in Int /\ e.range > 0
      BY <1>7, <3>3 DEF FrameKinds
    <3>5. e.frame = d.frame /\ d.frame # "Rows"
      BY <2>3, <3>3
    <3> QED BY <2>3, <3>1, <3>2, <3>3, <3>4, <3>5
  <2> QED BY <1>7, <2>1, <2>2, <2>3 DEF FrameKinds
<1>6. /\ ToSpec(e) = [k \in DOMAIN ToSpec(e) |-> ToSpec(e)[k]]
      /\ DOMAIN ToSpec(e) = {"source", "op", "partition", "order", "frame", "offset", "alpha"}
      /\ ToSpec(e).source = e.source /\ ToSpec(e).op = e.op /\ ToSpec(e).partition = e.partition
      /\ ToSpec(e).order = OrderOf(e) /\ ToSpec(e).frame = FramesOf(e)
      /\ ToSpec(e).offset = OffsetOf(e) /\ ToSpec(e).alpha = AlphaOf(e)
  BY SpecFields
<1>9. e.order = d.order /\ (d.order # "" => e.desc = d.desc)
  <2>1. CASE d.order = ""
    <3>1. s.order = None
      BY <1>o, <2>1 DEF OrderOf
    <3> QED BY <1>r, <2>1, <3>1
  <2>2. CASE d.order # ""
    <3>1. s.order = Some([column |-> d.order, desc |-> d.desc])
      BY <1>o, <2>2 DEF OrderOf
    <3>2. s.order # None /\ s.order[1].column = d.order /\ s.order[1].desc = d.desc
      BY <3>1, Somes
    <3>3. e.order = d.order
      BY <1>r, <3>2
    <3>4. e.desc = d.desc
      BY <1>7, <1>r, <3>2
    <3> QED BY <3>3, <3>4
  <2> QED BY <2>1, <2>2
<1>10. ToSpec(e).order = s.order
  BY <1>o, <1>6, <1>9 DEF OrderOf
<1>e. ToSpec(e).frame = s.frame
  <2>1. CASE a.frames = {}
    BY <1>5, <1>o, <1>6, <2>1 DEF FramesOf, a
  <2>2. CASE a.frames # {}
    <3>1. ToSpec(e).frame = FrameOf(e) /\ s.frame = FrameOf(d)
      BY <1>5, <1>o, <1>6, <2>2 DEF FramesOf, a
    <3>2. FrameOf(e) = FrameOf(d)
      <4>1. e.frame = d.frame /\ (d.frame = "Rows" => e.rows = d.rows) /\ (d.frame = "Range" => e.range = d.range)
        BY <1>11, <2>2
      <4> QED BY <1>7, <4>1, FrameIs
    <3> QED BY <3>1, <3>2
  <2> QED BY <2>1, <2>2
<1>12. ToSpec(e).offset = s.offset
  <2>1. CASE a.offset /\ d.offset # 100
    <3>1. s.offset = Some(d.offset)
      BY <1>o, <2>1 DEF OffsetOf, a
    <3>2. e.offset = d.offset
      BY <1>t, <3>1, Somes
    <3>3. OffsetOf(e) = Some(e.offset)
      BY <1>5, <2>1, <3>2 DEF OffsetOf, a
    <3> QED BY <1>6, <3>1, <3>2, <3>3
  <2>2. CASE ~(a.offset /\ d.offset # 100)
    <3>1. s.offset = None
      BY <1>o, <2>2 DEF OffsetOf, a
    <3>2. e.offset = 100
      BY <1>t, <3>1
    <3>3. OffsetOf(e) = None
      BY <3>2 DEF OffsetOf
    <3> QED BY <1>6, <3>1, <3>3
  <2> QED BY <2>1, <2>2
<1>13. ToSpec(e).alpha = s.alpha /\ e.alpha \in 1..100 /\ (s.alpha # None <=> a.alpha) /\ (s.alpha # None => s.alpha[1] \in 1..100)
  <2>1. CASE a.alpha
    <3>1. s.alpha = Some(d.alpha)
      BY <1>o, <2>1 DEF AlphaOf, a
    <3>2. e.alpha = d.alpha /\ s.alpha # None /\ s.alpha[1] = d.alpha
      BY <1>t, <3>1, Somes
    <3>3. AlphaOf(e) = Some(e.alpha)
      BY <1>5, <2>1 DEF AlphaOf, a
    <3>4. a.alpha = TRUE
      BY <1>2, <2>1
    <3> QED BY <1>6, <1>7, <3>1, <3>2, <3>3, <3>4
  <2>2. CASE ~a.alpha
    <3>1. s.alpha = None
      BY <1>o, <2>2 DEF AlphaOf, a
    <3>2. e.alpha = 100
      BY <1>t, <3>1
    <3>3. AlphaOf(e) = None
      BY <1>5, <2>2 DEF AlphaOf, a
    <3>4. a.alpha = FALSE
      BY <1>2, <2>2
    <3> QED BY <1>6, <3>1, <3>2, <3>3, <3>4
  <2> QED BY <2>1, <2>2
<1>14. ToSpec(e) = s
  <2> DEFINE t == ToSpec(e)
  <2>1. /\ DOMAIN t = DOMAIN s /\ t.source = s.source /\ t.op = s.op /\ t.partition = s.partition
        /\ t.order = s.order /\ t.frame = s.frame /\ t.offset = s.offset /\ t.alpha = s.alpha
        /\ t = [k \in DOMAIN t |-> t[k]]
    BY <1>3, <1>4, <1>6, <1>10, <1>e, <1>12, <1>13
  <2> HIDE DEF t
  <2>2. t = s
    BY <1>3, <2>1, SameSpecs
  <2> QED BY <2>2 DEF t
<1>15. ColumnsAreValid(e) /\ FrameIsValid(e)
  <2>1. ColumnsAreValid(e)
    BY <1>1, <1>3, <1>4, <1>9 DEF ColumnsAreValid
  <2>2. FrameIsValid(e)
    BY <1>5, <1>8, <1>9, <1>11 DEF FrameIsValid, Of
  <2> QED BY <2>1, <2>2
<1>16. Validated(e) = Some(s)
  BY <1>1, <1>5, <1>14, <1>15 DEF Validated
<1>17. DraftFits(e)
  <2>1. e.desc \in BOOLEAN
    BY <1>r
  <2> QED BY <1>3, <1>4, <1>7, <1>11, <1>13, <2>1 DEF DraftFits
<1>18. Computable(s)
  <2>1. /\ s.source \in DOMAIN schema /\ ToSet(s.partition) \subseteq DOMAIN schema /\ IsInjective(s.partition)
        /\ Declared(s.source, s.op) # None /\ Declared(s.source, s.op)[1] = a
    BY <1>1, <1>3, <1>7 DEF ColumnsAreValid, Of, a
  <2>2. IF s.order = None THEN ~NeedsOrder ELSE s.order[1].column \in DOMAIN schema
    <3>1. CASE d.order = ""
      BY <1>1, <1>o, <3>1 DEF ColumnsAreValid, OrderOf
    <3>2. CASE d.order # ""
      <4>1. s.order = Some([column |-> d.order, desc |-> d.desc]) /\ s.order # None
        BY <1>o, <3>2, Somes DEF OrderOf
      <4>2. s.order[1].column = d.order
        BY <4>1, Somes
      <4> QED BY <1>1, <3>2, <4>1, <4>2 DEF ColumnsAreValid
    <3> QED BY <3>1, <3>2
  <2>3. s.frame # None => s.frame[1].kind \in a.frames
    BY <1>8, <1>11
  <2>4. s.frame # None /\ s.frame[1].kind = "Range" =>
          s.frame[1].size > 0 /\ s.order # None /\ schema[s.order[1].column] \in Ordered
    <3> SUFFICES ASSUME s.frame # None, s.frame[1].kind = "Range"
                 PROVE  s.frame[1].size > 0 /\ s.order # None /\ schema[s.order[1].column] \in Ordered
      OBVIOUS
    <3>1. d.order # "" /\ schema[d.order] \in Ordered /\ s.frame[1].size = d.range
      BY <1>8, <1>11
    <3>2. s.order = Some([column |-> d.order, desc |-> d.desc]) /\ s.order # None
      BY <1>o, <3>1, Somes DEF OrderOf
    <3>3. s.order[1].column = d.order
      BY <3>2, Somes
    <3> QED BY <1>7, <3>1, <3>2, <3>3
  <2> QED BY <1>13, <2>1, <2>2, <2>3, <2>4 DEF Computable
<1>19. RawIsSpec(Raw(s)) /\ FromRaw(Raw(s)) = s
  <2>1. s.frame # None => \E n : \/ s.frame = Some([kind |-> "Rows", size |-> n])
                                \/ s.frame = Some([kind |-> "Range", size |-> n])
    BY <1>11
  <2> QED BY <1>3, <2>1, RawIsSame
<1> QED BY <1>1, <1>16, <1>17, <1>18, <1>19 DEF Sound, s, e

\* What may be dropped in a slot is a column of the Table.
LEMMA TableColumns ==
  ASSUME schema \in Schemas
  PROVE  DOMAIN schema \subseteq AllColumns
BY DEF AllColumns

LEMMA DraftDomain == DOMAIN NewDefault = {"op", "source", "order", "desc", "partition", "frame", "rows", "range", "offset", "alpha"}
BY DEF NewDefault

LEMMA DefaultFits == DraftFits(NewDefault)
<1> DEFINE b == NewDefault
<1>1. /\ b.frame = "Cumulative" /\ b.desc = FALSE /\ b.partition = <<>> /\ b.range = 100 /\ b.alpha = 100
      /\ DOMAIN b = DOMAIN NewDefault
  BY DEF NewDefault
<1> HIDE DEF b
<1>2. b.partition \in Seq(AllColumns) /\ IsInjective(b.partition)
  BY <1>1 DEF IsInjective
<1>3. b.frame \in FrameKinds /\ b.desc \in BOOLEAN
  BY <1>1 DEF FrameKinds
<1>4. b.range \in Int /\ b.range > 0 /\ b.alpha \in 1..100
  BY <1>1
<1>5. DraftFits(b)
  BY <1>1, <1>2, <1>3, <1>4 DEF DraftFits
<1> QED BY <1>5 DEF b

\* A setting that is changed leaves the others.
LEMMA OneSetting ==
  ASSUME NEW d, DraftFits(d), NEW k \in DOMAIN NewDefault, NEW x,
         k = "frame" => x \in FrameKinds,
         k = "desc" => x \in BOOLEAN,
         k = "partition" => x \in Seq(AllColumns) /\ IsInjective(x),
         k = "range" => x \in Int /\ x > 0,
         k = "alpha" => x \in 1..100
  PROVE  DraftFits([d EXCEPT ![k] = x])
<1> DEFINE e == [d EXCEPT ![k] = x]
<1>1. DOMAIN d = DOMAIN NewDefault
  BY DEF DraftFits
<1>2. DOMAIN e = DOMAIN d /\ \A l \in DOMAIN d : e[l] = IF l = k THEN x ELSE d[l]
  BY <1>1
<1>3. /\ d.frame \in FrameKinds /\ d.desc \in BOOLEAN /\ d.partition \in Seq(AllColumns) /\ IsInjective(d.partition)
      /\ d.range \in Int /\ d.range > 0 /\ d.alpha \in 1..100
  BY DEF DraftFits
<1> HIDE DEF e
<1>4. e.frame \in FrameKinds
  BY <1>1, <1>2, <1>3, DraftDomain
<1>5. e.desc \in BOOLEAN
  BY <1>1, <1>2, <1>3, DraftDomain
<1>6. e.partition \in Seq(AllColumns) /\ IsInjective(e.partition)
  BY <1>1, <1>2, <1>3, DraftDomain
<1>7. e.range \in Int /\ e.range > 0
  BY <1>1, <1>2, <1>3, DraftDomain
<1>8. e.alpha \in 1..100
  BY <1>1, <1>2, <1>3, DraftDomain
<1>9. DraftFits(e)
  BY <1>1, <1>2, <1>4, <1>5, <1>6, <1>7, <1>8 DEF DraftFits
<1> QED BY <1>9 DEF e

LEMMA PlainSetting ==
  ASSUME NEW d, DraftFits(d), NEW x
  PROVE  /\ DraftFits([d EXCEPT !.op = x]) /\ DraftFits([d EXCEPT !.source = x]) /\ DraftFits([d EXCEPT !.order = x])
         /\ DraftFits([d EXCEPT !.rows = x]) /\ DraftFits([d EXCEPT !.offset = x])
<1>1. DraftFits([d EXCEPT !["op"] = x])
  BY OneSetting, DraftDomain
<1>2. DraftFits([d EXCEPT !["source"] = x])
  BY OneSetting, DraftDomain
<1>3. DraftFits([d EXCEPT !["order"] = x])
  BY OneSetting, DraftDomain
<1>4. DraftFits([d EXCEPT !["rows"] = x])
  BY OneSetting, DraftDomain
<1>5. DraftFits([d EXCEPT !["offset"] = x])
  BY OneSetting, DraftDomain
<1> QED BY <1>1, <1>2, <1>3, <1>4, <1>5

LEMMA PartitionSetting ==
  ASSUME NEW d, DraftFits(d), NEW x \in Seq(AllColumns), IsInjective(x)
  PROVE  DraftFits([d EXCEPT !.partition = x])
<1>1. DraftFits([d EXCEPT !["partition"] = x])
  BY OneSetting, DraftDomain
<1> QED BY <1>1

\* What is done to a draft leaves one.
LEMMA LeftFits ==
  ASSUME NEW d, DraftFits(d), NEW column, NEW origin \in Slot \cup {"selector"}
  PROVE  DraftFits(Left(d, column, origin))
<1>1. d.partition \in Seq(AllColumns) /\ IsInjective(d.partition)
  BY DEF DraftFits
<1>2. TakenOut(d.partition, column) \in Seq(AllColumns) /\ IsInjective(TakenOut(d.partition, column))
  BY <1>1, PartitionTakenOut
<1>3. DraftFits([d EXCEPT !.partition = TakenOut(@, column)])
  BY <1>2, PartitionSetting
<1>4. DraftFits([d EXCEPT !.source = ""]) /\ DraftFits([d EXCEPT !.order = ""])
  BY PlainSetting
<1>5. CASE origin = "source"
  BY <1>4, <1>5 DEF Left
<1>6. CASE origin = "order"
  BY <1>4, <1>6 DEF Left
<1>7. CASE origin = "partition"
  BY <1>3, <1>7 DEF Left
<1>8. CASE origin = "selector"
  BY <1>8 DEF Left
<1> QED BY <1>5, <1>6, <1>7, <1>8 DEF Slot

LEMMA SourcedFits ==
  ASSUME NEW d, DraftFits(d), NEW column
  PROVE  DraftFits(Sourced(d, column))
<1> DEFINE sourced == [d EXCEPT !.source = column]
<1>1. DraftFits(sourced)
  BY PlainSetting
<1>2. Sourced(d, column) = sourced \/ \E op : Sourced(d, column) = [sourced EXCEPT !.op = op]
  BY DEF Sourced
<1> HIDE DEF sourced
<1>3. ASSUME NEW op PROVE DraftFits([sourced EXCEPT !.op = op])
  BY <1>1, PlainSetting
<1> QED BY <1>1, <1>2, <1>3

LEMMA PutIntoFits ==
  ASSUME schema \in Schemas, NEW d, DraftFits(d), NEW column, NEW slot \in Slot \cup {"elsewhere"}
  PROVE  DraftFits(PutInto(d, column, slot))
<1>1. CASE column \notin DOMAIN schema
  BY <1>1 DEF PutInto
<1>2. CASE column \in DOMAIN schema /\ slot = "source"
  <2>1. PutInto(d, column, slot) = Sourced(d, column)
    BY <1>2 DEF PutInto
  <2> QED BY <2>1, SourcedFits
<1>3. CASE column \in DOMAIN schema /\ slot = "order"
  <2>1. PutInto(d, column, slot) = [d EXCEPT !.order = column]
    BY <1>3 DEF PutInto
  <2>2. DraftFits([d EXCEPT !.order = column])
    BY PlainSetting
  <2> QED BY <2>1, <2>2
<1>4. CASE column \in DOMAIN schema /\ slot = "partition"
  <2> DEFINE list == IF column \in ToSet(d.partition) THEN d.partition ELSE Append(d.partition, column)
  <2>1. PutInto(d, column, slot) = [d EXCEPT !.partition = list]
    BY <1>4 DEF PutInto
  <2>2. d.partition \in Seq(AllColumns) /\ IsInjective(d.partition)
    BY DEF DraftFits
  <2>3. column \in AllColumns
    BY <1>4, TableColumns
  <2>4. list \in Seq(AllColumns) /\ IsInjective(list)
    <3>1. CASE column \in ToSet(d.partition)
      BY <2>2, <3>1
    <3>2. CASE column \notin ToSet(d.partition)
      BY <2>2, <2>3, <3>2, PartitionGrows
    <3> QED BY <3>1, <3>2
  <2> HIDE DEF list
  <2> QED BY <2>1, <2>4, PartitionSetting
<1>5. CASE column \in DOMAIN schema /\ slot = "elsewhere"
  BY <1>5 DEF PutInto
<1> QED BY <1>1, <1>2, <1>3, <1>4, <1>5 DEF Slot

LEMMA OpSetFits ==
  ASSUME schema \in Schemas, NEW d, DraftFits(d), NEW op
  PROVE  DraftFits(OpSet(d, op))
<1> DEFINE declared == Declared(d.source, op)
<1>1. CASE declared = None \/ declared[1].frames = {} \/ d.frame \in declared[1].frames
  <2>1. OpSet(d, op) = [d EXCEPT !.op = op]
    BY <1>1 DEF OpSet
  <2>2. DraftFits([d EXCEPT !.op = op])
    BY PlainSetting
  <2> QED BY <2>1, <2>2
<1>2. CASE ~(declared = None \/ declared[1].frames = {} \/ d.frame \in declared[1].frames)
  <2>1. declared[1].first \in FrameKinds
    BY <1>2, WhatIsDeclared
  <2> DEFINE first == declared[1].first
  <2>2. OpSet(d, op) = [d EXCEPT !.op = op, !.frame = first]
    BY <1>2 DEF OpSet
  <2> HIDE DEF first
  <2>3. DraftFits([d EXCEPT !["frame"] = first])
    BY <2>1, OneSetting, DraftDomain DEF first
  <2>4. DraftFits([[d EXCEPT !["frame"] = first] EXCEPT !["op"] = op])
    BY <2>3, OneSetting, DraftDomain
  <2>5. [d EXCEPT !.op = op, !.frame = first] = [[d EXCEPT !["frame"] = first] EXCEPT !["op"] = op]
    OBVIOUS
  <2> QED BY <2>2, <2>4, <2>5
<1> QED BY <1>1, <1>2

----------------------------------------------------------------------------
\* What is sound for a Table stays so.
LEMMA SoundStays ==
  ASSUME schema' = schema
  PROVE  \A spec : Sound(spec) => Sound(spec)'
<1>1. \A source, op : Declared(source, op)' = Declared(source, op)
  BY DEF Declared
<1>2. \A d : ToSpec(d)' = ToSpec(d)
  BY <1>1 DEF ToSpec
<1>3. \A d : (ColumnsAreValid(d)' <=> ColumnsAreValid(d)) /\ (FrameIsValid(d)' <=> FrameIsValid(d))
  BY <1>1 DEF ColumnsAreValid, FrameIsValid
<1>4. \A d : Validated(d)' = Validated(d)
  BY <1>1, <1>2, <1>3 DEF Validated
<1>5. \A spec : Computable(spec)' <=> Computable(spec)
  BY <1>1 DEF Computable
<1> QED BY <1>4, <1>5 DEF Sound

LEMMA InitialIsSound ==
  ASSUME NEW name, NEW w, \A n \in DOMAIN w.specs : Sound(w.specs[n])
  PROVE  /\ InitialOf(name, w) # None => Sound(InitialOf(name, w)[1])
         /\ DraftFits(DraftOf(InitialOf(name, w)))
<1>1. CASE name \in DOMAIN w.specs
  <2>1. InitialOf(name, w) = Some(w.specs[name])
    BY <1>1 DEF InitialOf
  <2>2. InitialOf(name, w) # None /\ InitialOf(name, w)[1] = w.specs[name]
    BY <2>1, Somes
  <2>3. DraftOf(InitialOf(name, w)) = FromSpec(w.specs[name])
    BY <2>2 DEF DraftOf
  <2> QED BY <1>1, <2>2, <2>3 DEF Sound
<1>2. CASE name \notin DOMAIN w.specs
  <2>1. InitialOf(name, w) = None
    BY <1>2 DEF InitialOf
  <2>2. DraftOf(InitialOf(name, w)) = NewDefault
    BY <2>1 DEF DraftOf
  <2> QED BY <2>1, <2>2, DefaultFits
<1> QED BY <1>1, <1>2

LEMMA FormFields ==
  ASSUME NEW name, NEW w, NEW x
  PROVE  /\ DOMAIN Form(name, w) = {"open", "initial", "value", "name"}
         /\ Form(name, w).open = TRUE /\ Form(name, w).value = InitialOf(name, w) /\ Form(name, w).initial = InitialOf(name, w)
         /\ DOMAIN [Form(name, w) EXCEPT !.value = x] = {"open", "initial", "value", "name"}
         /\ [Form(name, w) EXCEPT !.value = x].open = TRUE /\ [Form(name, w) EXCEPT !.value = x].value = x
BY DEF Form

LEMMA NextIsSound ==
  ASSUME schema \in Schemas, schema' = schema,
         DOMAIN windows' = {"specs", "used"},
         \A n \in DOMAIN windows'.specs : Sound(windows'.specs[n]),
         FormFits(form)', form'.value # None => Sound(form'.value[1]),
         DraftFits(draft'), (dragged' # NoDragged => form'.open /\ dragged'.origin \in Slot \cup {"selector"})
  PROVE  WindowInv'
<1>1. \A spec : Sound(spec) => Sound(spec)'
  BY SoundStays
<1> QED BY <1>1 DEF WindowInv

\* The editor tells the sidebar what its draft amounts to.
LEMMA EmitsKeep ==
  ASSUME WindowInv, schema' = schema, windows' = windows, form.open, dragged' = dragged \/ dragged' = NoDragged,
         NEW d, DraftFits(d), Emits(d)
  PROVE  WindowInv'
<1>1. draft' = d /\ form' = [form EXCEPT !.value = Validated(d)]
  BY DEF Emits
<1>2. DOMAIN form = {"open", "initial", "value", "name"}
  BY DEF WindowInv, FormFits
<1>3. form'.open = form.open /\ form'.value = Validated(d) /\ DOMAIN form' = DOMAIN form
  BY <1>1, <1>2
<1>4. Validated(d) # None => Sound(Validated(d)[1])
  BY ValidIsSound, Somes DEF WindowInv
<1>5. FormFits(form)'
  BY <1>2, <1>3 DEF WindowInv, FormFits
<1>6. \A n \in DOMAIN windows'.specs : Sound(windows'.specs[n])
  BY DEF WindowInv
<1> QED BY <1>1, <1>3, <1>4, <1>5, <1>6, NextIsSound DEF WindowInv

\* The sidebar follows the config.
LEMMA RerenderedKeeps ==
  ASSUME WindowInv, schema' = schema, dragged' = dragged,
         NEW name, NEW w, DOMAIN w = {"specs", "used"}, \A n \in DOMAIN w.specs : Sound(w.specs[n]), Rerendered(name, w)
  PROVE  WindowInv'
<1>1. windows' = w
  BY DEF Rerendered
<1> DEFINE initial == InitialOf(name, w)
<1>2. (initial # None => Sound(initial[1])) /\ DraftFits(DraftOf(initial))
  BY InitialIsSound
<1>3. CASE ~form.open
  <2>1. form' = form /\ draft' = draft
    BY <1>3 DEF Rerendered
  <2> QED BY <1>1, <2>1, NextIsSound DEF WindowInv, FormFits
<1>4. CASE form.open /\ Form(name, w).initial # form.initial
  <2>1. draft' = DraftOf(Form(name, w).initial) /\ form' = [Form(name, w) EXCEPT !.value = Validated(draft')]
    BY <1>4 DEF Rerendered
  <2>2. draft' = DraftOf(initial) /\ DraftFits(draft')
    BY <1>2, <2>1, FormFields
  <2>3. form'.open = TRUE /\ form'.value = Validated(draft') /\ DOMAIN form' = {"open", "initial", "value", "name"}
    BY <2>1, FormFields
  <2>4. Validated(draft') # None => Sound(Validated(draft')[1])
    BY <2>2, ValidIsSound, Somes DEF WindowInv
  <2>5. FormFits(form)'
    BY <2>3 DEF FormFits
  <2> QED BY <1>1, <2>2, <2>3, <2>4, <2>5, NextIsSound DEF WindowInv
<1>5. CASE form.open /\ Form(name, w).initial = form.initial
  <2>1. draft' = draft /\ form' = Form(name, w)
    BY <1>5 DEF Rerendered
  <2>2. form'.open = TRUE /\ form'.value = initial /\ DOMAIN form' = {"open", "initial", "value", "name"}
    BY <2>1, FormFields
  <2>3. FormFits(form)'
    BY <2>2 DEF FormFits
  <2> QED BY <1>1, <1>2, <2>1, <2>2, <2>3, NextIsSound DEF WindowInv
<1> QED BY <1>3, <1>4, <1>5 DEF WindowInv, FormFits


----------------------------------------------------------------------------
\* The steps of the window editor.
LEMMA WindowInitInv == WindowInit => WindowInv
<1> SUFFICES ASSUME WindowInit PROVE WindowInv
  OBVIOUS
<1>1. schema \in Schemas /\ windows = [specs |-> <<>>, used |-> {}] /\ form = NoForm /\ draft = NewDefault /\ dragged = NoDragged
  BY DEF WindowInit
<1>2. DOMAIN windows = {"specs", "used"} /\ DOMAIN windows.specs = {}
  BY <1>1
<1>3. FormFits(form) /\ form.value = None
  BY <1>1 DEF FormFits, NoForm
<1> QED BY <1>1, <1>2, <1>3, DefaultFits DEF WindowInv

LEMMA OpensKeep ==
  ASSUME WindowInv, Open
  PROVE  WindowInv'
<1>1. PICK name : /\ draft' = DraftOf(Form(name, windows).initial)
                  /\ form' = [Form(name, windows) EXCEPT !.value = Validated(draft')]
  BY DEF Open
<1>2. schema' = schema /\ windows' = windows /\ dragged' = dragged
  BY DEF Open
<1>3. draft' = DraftOf(InitialOf(name, windows))
  BY <1>1, FormFields
<1>4. DraftFits(draft')
  BY <1>3, InitialIsSound DEF WindowInv
<1>5. form'.open = TRUE /\ form'.value = Validated(draft') /\ DOMAIN form' = {"open", "initial", "value", "name"}
  BY <1>1, FormFields
<1>6. Validated(draft') # None => Sound(Validated(draft')[1])
  BY <1>4, ValidIsSound, Somes DEF WindowInv
<1>7. FormFits(form)'
  BY <1>5 DEF FormFits
<1> QED BY <1>2, <1>4, <1>5, <1>6, <1>7, NextIsSound DEF WindowInv

LEMMA ShutsKeep ==
  ASSUME WindowInv, CloseWindow \/ DeleteWindow
  PROVE  WindowInv'
<1>1. schema' = schema /\ form' = NoForm /\ draft' = NewDefault /\ dragged' = NoDragged
  BY DEF CloseWindow, DeleteWindow
<1>2. FormFits(form)' /\ form'.value = None
  BY <1>1 DEF FormFits, NoForm
<1>3. DOMAIN windows' = {"specs", "used"} /\ \A n \in DOMAIN windows'.specs : Sound(windows'.specs[n])
  <2>1. CASE CloseWindow
    BY <2>1 DEF CloseWindow, WindowInv
  <2>2. CASE DeleteWindow
    <3>1. windows' = [windows EXCEPT !.specs = [n \in DOMAIN @ \ {named} |-> @[n]]]
      BY <2>2 DEF DeleteWindow
    <3>2. DOMAIN windows' = {"specs", "used"} /\ windows'.specs = [n \in DOMAIN windows.specs \ {named} |-> windows.specs[n]]
      BY <3>1 DEF WindowInv
    <3> QED BY <3>2 DEF WindowInv
  <2> QED BY <2>1, <2>2
<1> QED BY <1>1, <1>2, <1>3, DefaultFits, NextIsSound DEF WindowInv

LEMMA PickUpKeeps ==
  ASSUME WindowInv, PickUp
  PROVE  WindowInv'
<1>1. form.open /\ schema' = schema /\ windows' = windows /\ form' = form /\ draft' = draft
  BY DEF PickUp, ConfigStays
<1>2. dragged'.origin \in Slot \cup {"selector"}
  <2>1. \E c : \/ \E slot \in Slot : dragged' = [column |-> c, origin |-> slot]
               \/ dragged' = [column |-> c, origin |-> "selector"]
    BY DEF PickUp
  <2> QED BY <2>1
<1>3. FormFits(form)'
  BY <1>1 DEF WindowInv, FormFits
<1> QED BY <1>1, <1>2, <1>3, NextIsSound DEF WindowInv

LEMMA DropKeeps ==
  ASSUME WindowInv, DropInSlot
  PROVE  WindowInv'
<1>1. dragged # NoDragged /\ dragged' = NoDragged /\ schema' = schema /\ windows' = windows
  BY DEF DropInSlot, ConfigStays
<1> DEFINE left == Left(draft, dragged.column, dragged.origin)
<1>2. PICK slot \in Slot \cup {"elsewhere"} : Emits(PutInto(left, dragged.column, slot))
  BY DEF DropInSlot
<1>3. schema \in Schemas /\ DraftFits(draft) /\ form.open /\ dragged.origin \in Slot \cup {"selector"}
  BY <1>1 DEF WindowInv
<1>4. DraftFits(left)
  BY <1>3, LeftFits
<1> HIDE DEF left
<1>5. DraftFits(PutInto(left, dragged.column, slot))
  BY <1>3, <1>4, PutIntoFits
<1> QED BY <1>1, <1>2, <1>3, <1>5, EmitsKeep

LEMMA ChooseKeeps ==
  ASSUME WindowInv, Choose
  PROVE  WindowInv'
<1>1. PICK slot \in Slot, c \in DOMAIN schema : Emits(PutInto(draft, c, slot))
  BY DEF Choose
<1>2. form.open /\ dragged' = dragged /\ schema' = schema /\ windows' = windows
  BY DEF Choose, ConfigStays
<1>3. schema \in Schemas /\ DraftFits(draft)
  BY DEF WindowInv
<1>4. DraftFits(PutInto(draft, c, slot))
  BY <1>3, PutIntoFits
<1> QED BY <1>1, <1>2, <1>4, EmitsKeep

LEMMA ClearSlotKeeps ==
  ASSUME WindowInv, ClearSlot
  PROVE  WindowInv'
<1>1. form.open /\ dragged' = dragged /\ schema' = schema /\ windows' = windows
  BY DEF ClearSlot, ConfigStays
<1>2. DraftFits(draft) /\ draft.partition \in Seq(AllColumns) /\ IsInjective(draft.partition)
  BY DEF WindowInv, DraftFits
<1>3. \/ Emits([draft EXCEPT !.source = ""]) \/ Emits([draft EXCEPT !.order = ""])
      \/ \E i \in DOMAIN draft.partition : Emits([draft EXCEPT !.partition = RemoveAt(@, i)])
  BY DEF ClearSlot
<1>4. CASE Emits([draft EXCEPT !.source = ""])
  <2>1. DraftFits([draft EXCEPT !.source = ""])
    BY <1>2, PlainSetting
  <2> QED BY <1>1, <1>4, <2>1, EmitsKeep
<1>5. CASE Emits([draft EXCEPT !.order = ""])
  <2>1. DraftFits([draft EXCEPT !.order = ""])
    BY <1>2, PlainSetting
  <2> QED BY <1>1, <1>5, <2>1, EmitsKeep
<1>6. ASSUME NEW i \in DOMAIN draft.partition, Emits([draft EXCEPT !.partition = RemoveAt(@, i)])
      PROVE  WindowInv'
  <2>1. i \in 1..Len(draft.partition)
    BY <1>2
  <2>2. RemoveAt(draft.partition, i) \in Seq(AllColumns) /\ IsInjective(RemoveAt(draft.partition, i))
    BY <1>2, <2>1, PartitionShrinks
  <2>3. DraftFits([draft EXCEPT !.partition = RemoveAt(@, i)])
    BY <1>2, <2>2, PartitionSetting
  <2> QED BY <1>1, <1>6, <2>3, EmitsKeep
<1> QED BY <1>3, <1>4, <1>5, <1>6

LEMMA SelectOpKeeps ==
  ASSUME WindowInv, SelectOp
  PROVE  WindowInv'
<1>1. PICK i \in DOMAIN Aggregates[schema[draft.source]] : Emits(OpSet(draft, Aggregates[schema[draft.source]][i].name))
  BY DEF SelectOp
<1>2. form.open /\ dragged' = dragged /\ schema' = schema /\ windows' = windows
  BY DEF SelectOp, ConfigStays
<1> DEFINE op == Aggregates[schema[draft.source]][i].name
<1>3. DraftFits(OpSet(draft, op))
  BY OpSetFits DEF WindowInv
<1> QED BY <1>1, <1>2, <1>3, EmitsKeep

LEMMA InputFits ==
  ASSUME NEW x \in Amounts \cup {NaN}
  PROVE  Positive(x) \in Int /\ Positive(x) > 0 /\ Fraction(x) \in 1..100
<1>1. x # NaN => x \in Int
  BY WindowEditAssumption
<1> QED BY <1>1 DEF Positive, Fraction

LEMMA SetKeeps ==
  ASSUME WindowInv, Set
  PROVE  WindowInv'
<1>1. form.open /\ dragged' = dragged /\ schema' = schema /\ windows' = windows
  BY DEF Set, ConfigStays
<1>2. schema \in Schemas /\ DraftFits(draft)
  BY DEF WindowInv
<1>3. \/ Emits([draft EXCEPT !.desc = ~@])
      \/ Shown("frame") /\ \E f \in Declared(draft.source, draft.op)[1].frames : Emits([draft EXCEPT !.frame = f])
      \/ \E x \in Amounts \cup {NaN} :
           \/ Emits([draft EXCEPT !.rows = Count(x)]) \/ Emits([draft EXCEPT !.range = Positive(x)])
           \/ Emits([draft EXCEPT !.offset = Count(x)]) \/ Emits([draft EXCEPT !.alpha = Fraction(x)])
  BY DEF Set
<1>4. CASE Emits([draft EXCEPT !.desc = ~@])
  <2>1. (~draft.desc) \in BOOLEAN
    BY <1>2 DEF DraftFits
  <2>2. DraftFits([draft EXCEPT !["desc"] = ~draft.desc])
    BY <1>2, <2>1, OneSetting, DraftDomain
  <2> QED BY <1>1, <1>4, <2>2, EmitsKeep
<1>5. ASSUME Shown("frame"), NEW f \in Declared(draft.source, draft.op)[1].frames, Emits([draft EXCEPT !.frame = f])
      PROVE  WindowInv'
  <2>1. Declared(draft.source, draft.op) # None
    BY <1>5 DEF Shown
  <2>2. f \in FrameKinds
    BY <1>2, <1>5, <2>1, WhatIsDeclared
  <2>3. DraftFits([draft EXCEPT !["frame"] = f])
    BY <1>2, <2>2, OneSetting, DraftDomain
  <2> QED BY <1>1, <1>5, <2>3, EmitsKeep
<1>6. ASSUME NEW x \in Amounts \cup {NaN},
             \/ Emits([draft EXCEPT !.rows = Count(x)]) \/ Emits([draft EXCEPT !.range = Positive(x)])
             \/ Emits([draft EXCEPT !.offset = Count(x)]) \/ Emits([draft EXCEPT !.alpha = Fraction(x)])
      PROVE  WindowInv'
  <2>1. CASE Emits([draft EXCEPT !.rows = Count(x)])
    <3>1. DraftFits([draft EXCEPT !.rows = Count(x)])
      BY <1>2, PlainSetting
    <3> QED BY <1>1, <2>1, <3>1, EmitsKeep
  <2>2. CASE Emits([draft EXCEPT !.offset = Count(x)])
    <3>1. DraftFits([draft EXCEPT !.offset = Count(x)])
      BY <1>2, PlainSetting
    <3> QED BY <1>1, <2>2, <3>1, EmitsKeep
  <2>3. CASE Emits([draft EXCEPT !.range = Positive(x)])
    <3>1. Positive(x) \in Int /\ Positive(x) > 0
      BY InputFits
    <3>2. DraftFits([draft EXCEPT !["range"] = Positive(x)])
      BY <1>2, <3>1, OneSetting, DraftDomain
    <3> QED BY <1>1, <2>3, <3>2, EmitsKeep
  <2>4. CASE Emits([draft EXCEPT !.alpha = Fraction(x)])
    <3>1. Fraction(x) \in 1..100
      BY InputFits
    <3>2. DraftFits([draft EXCEPT !["alpha"] = Fraction(x)])
      BY <1>2, <3>1, OneSetting, DraftDomain
    <3> QED BY <1>1, <2>4, <3>2, EmitsKeep
  <2> QED BY <1>6, <2>1, <2>2, <2>3, <2>4
<1> QED BY <1>3, <1>4, <1>5, <1>6

LEMMA SaveWindowKeeps ==
  ASSUME WindowInv, SaveWindow
  PROVE  WindowInv'
<1>1. form.value # None /\ schema' = schema /\ dragged' = dragged
  BY DEF SaveWindow
<1> DEFINE spec == form.value[1]
<1>2. Sound(spec) /\ DOMAIN windows = {"specs", "used"} /\ \A n \in DOMAIN windows.specs : Sound(windows.specs[n])
  BY <1>1 DEF WindowInv
<1> HIDE DEF spec
<1>3. PICK name \in WindowNames : Rerendered(name, IF named = "" THEN WithWindow(windows, name, spec)
                                                   ELSE Renamed(windows, named, name, spec))
  BY DEF SaveWindow, spec
<1> DEFINE w == IF named = "" THEN WithWindow(windows, name, spec) ELSE Renamed(windows, named, name, spec)
<1>4. DOMAIN w = {"specs", "used"} /\ \A n \in DOMAIN w.specs : Sound(w.specs[n])
  <2>1. CASE named = ""
    <3> DEFINE specs == [n \in DOMAIN windows.specs \cup {name} |-> IF n = name THEN spec ELSE windows.specs[n]]
    <3>1. w = [windows EXCEPT !.specs = specs]
      BY <2>1 DEF WithWindow
    <3>2. \A n \in DOMAIN specs : Sound(specs[n])
      BY <1>2
    <3> HIDE DEF specs, w
    <3>3. w.specs = specs /\ DOMAIN w = {"specs", "used"}
      BY <1>2, <3>1
    <3> QED BY <3>2, <3>3
  <2>2. CASE named # ""
    <3> DEFINE specs == [n \in (DOMAIN windows.specs \ {named}) \cup {name} |-> IF n = name THEN spec ELSE windows.specs[n]]
               used == IF named \in windows.used THEN (windows.used \ {named}) \cup {name} ELSE windows.used
    <3>1. w = [specs |-> specs, used |-> used]
      BY <2>2 DEF Renamed
    <3>2. \A n \in DOMAIN specs : Sound(specs[n])
      BY <1>2
    <3> HIDE DEF specs, used, w
    <3>3. w.specs = specs /\ DOMAIN w = {"specs", "used"}
      BY <3>1
    <3> QED BY <3>2, <3>3
  <2> QED BY <2>1, <2>2
<1> HIDE DEF w
<1>5. Rerendered(name, w)
  BY <1>3 DEF w
<1> QED BY <1>1, <1>4, <1>5, RerenderedKeeps

LEMMA OtherConfigKeeps ==
  ASSUME WindowInv, OtherConfig
  PROVE  WindowInv'
<1>1. schema' = schema /\ dragged' = dragged
  BY DEF OtherConfig
<1>2. DOMAIN windows = {"specs", "used"} /\ \A n \in DOMAIN windows.specs : Sound(windows.specs[n])
  BY DEF WindowInv
<1>3. CASE \E n \in DOMAIN windows.specs : Rerendered(named, [windows EXCEPT !.used = IF n \in @ THEN @ \ {n} ELSE @ \cup {n}])
  <2>1. PICK n \in DOMAIN windows.specs : Rerendered(named, [windows EXCEPT !.used = IF n \in @ THEN @ \ {n} ELSE @ \cup {n}])
    BY <1>3
  <2> DEFINE w == [windows EXCEPT !.used = IF n \in @ THEN @ \ {n} ELSE @ \cup {n}]
  <2>2. DOMAIN w = {"specs", "used"} /\ w.specs = windows.specs
    BY <1>2
  <2>3. Rerendered(named, w)
    BY <2>1
  <2> HIDE DEF w
  <2> QED BY <1>1, <1>2, <2>2, <2>3, RerenderedKeeps
<1>4. CASE Rerendered(named, [windows EXCEPT !.specs = [n \in DOMAIN @ |-> FromRaw(Raw(@[n]))]])
  <2> DEFINE specs == [n \in DOMAIN windows.specs |-> FromRaw(Raw(windows.specs[n]))]
             w == [windows EXCEPT !.specs = specs]
  <2>1. \A n \in DOMAIN specs : Sound(specs[n])
    <3> SUFFICES ASSUME NEW n \in DOMAIN specs PROVE Sound(specs[n])
      OBVIOUS
    <3>1. specs[n] = FromRaw(Raw(windows.specs[n])) /\ Sound(windows.specs[n])
      BY <1>2
    <3>2. FromRaw(Raw(windows.specs[n])) = windows.specs[n]
      BY <3>1 DEF Sound
    <3> QED BY <3>1, <3>2
  <2>2. Rerendered(named, w)
    BY <1>4
  <2> HIDE DEF specs
  <2>3. DOMAIN w = {"specs", "used"} /\ w.specs = specs
    BY <1>2
  <2> HIDE DEF w
  <2> QED BY <1>1, <2>1, <2>2, <2>3, RerenderedKeeps
<1> QED BY <1>3, <1>4 DEF OtherConfig

LEMMA ReplaceKeeps ==
  ASSUME WindowInv, ReplaceTable
  PROVE  WindowInv'
<1> DEFINE w == [specs |-> <<>>, used |-> {}]
<1>1. /\ schema' \in Schemas /\ windows' = w /\ dragged' = dragged
      /\ form' = IF form.open THEN Form(named, w) ELSE form
      /\ draft' = IF form.open /\ form.initial # None THEN NewDefault ELSE draft
  BY DEF ReplaceTable
<1>2. DOMAIN w = {"specs", "used"} /\ DOMAIN w.specs = {}
  OBVIOUS
<1>3. InitialOf(named, w) = None
  BY <1>2 DEF InitialOf
<1> HIDE DEF w
<1>4. CASE form.open
  <2>1. form'.open = TRUE /\ form'.value = None /\ DOMAIN form' = {"open", "initial", "value", "name"}
    BY <1>1, <1>3, <1>4, FormFields
  <2>2. FormFits(form)'
    BY <2>1 DEF FormFits
  <2> QED BY <1>1, <1>2, <2>1, <2>2, DefaultFits DEF WindowInv
<1>5. CASE ~form.open
  <2>1. form' = form /\ form'.value = None /\ draft' = draft
    BY <1>1, <1>5 DEF WindowInv, FormFits
  <2> QED BY <1>1, <1>2, <2>1 DEF WindowInv, FormFits
<1> QED BY <1>4, <1>5

LEMMA WindowStepInv == WindowInv /\ [WindowNext]_windowVars => WindowInv'
<1> SUFFICES ASSUME WindowInv, [WindowNext]_windowVars PROVE WindowInv'
  OBVIOUS
<1>1. CASE UNCHANGED windowVars
  <2>1. /\ schema' = schema /\ windows' = windows /\ form' = form /\ draft' = draft /\ dragged' = dragged
    BY <1>1 DEF windowVars
  <2>2. FormFits(form)'
    BY <2>1 DEF WindowInv, FormFits
  <2> QED BY <2>1, <2>2, NextIsSound DEF WindowInv
<1>2. CASE WindowNext
  BY <1>2, OpensKeep, ShutsKeep, PickUpKeeps, DropKeeps, ChooseKeeps, ClearSlotKeeps, SelectOpKeeps, SetKeeps,
     SaveWindowKeeps, OtherConfigKeeps, ReplaceKeeps DEF WindowNext
<1> QED BY <1>1, <1>2

\* Every window that was put together by hand can be computed for the Table
\* that is there now, and is the same when it is opened or restored.
THEOREM WindowsStaySound == WindowEditSpec => []WindowsAreSound
<1>1. WindowInv => WindowsAreSound
  BY DEF WindowInv, Sound, WindowsAreSound, WindowsAreComputable, SpecsReopen
<1> QED BY <1>1, WindowInitInv, WindowStepInv, PTL DEF WindowEditSpec

----------------------------------------------------------------------------
(* Plugin styles.                                                          *)

\* The keys of a schema: a gradient has one more than a plain column, and only
\* that one is sent to the plugin when it was never set.
LEMMA KeysOfColumn ==
  ASSUME NEW stored, NEW column, NEW current, NEW s \in SchemaWith(stored, column, current)
  PROVE  /\ s.include => s.keys = {"gradient"}
         /\ s.keys \subseteq StyleKeys
<1>1. s \in DeclaredKeys(stored, column, current)
  BY DEF SchemaWith
<1>2. \/ s = Spec("Enum", {"mode"}, "plain", FALSE)
      \/ s = Spec("ColorRange", {"pos", "neg"}, "c0", FALSE)
      \/ s = Spec("Number", {"gradient"}, NumberDefault(stored, column), TRUE)
  BY <1>1 DEF DeclaredKeys
<1>3. CASE s = Spec("Enum", {"mode"}, "plain", FALSE)
  BY <1>3 DEF Spec, StyleKeys
<1>4. CASE s = Spec("ColorRange", {"pos", "neg"}, "c0", FALSE)
  BY <1>4 DEF Spec, StyleKeys
<1>5. CASE s = Spec("Number", {"gradient"}, NumberDefault(stored, column), TRUE)
  BY <1>5 DEF Spec, StyleKeys
<1> QED BY <1>2, <1>3, <1>4, <1>5

\* What the plugin is given is what is kept, but for a gradient never set.
LEMMA MaterializedKeeps ==
  ASSUME NEW stored, NEW columns, NEW c \in StyledColumns, NEW k \in StyleKeys,
         columns[c][k] # Unset \/ k # "gradient"
  PROVE  Materialized(stored, columns)[c][k] = columns[c][k]
<1>1. ASSUME NEW s \in SchemaWith(stored, c, columns[c]), s.include, k \in s.keys, columns[c][k] = Unset
      PROVE  FALSE
  BY <1>1, KeysOfColumn
<1>2. Materialized(stored, columns)[c][k] =
        IF columns[c] # NoStyle /\ columns[c][k] = Unset /\ \E s \in SchemaWith(stored, c, columns[c]) : s.include /\ k \in s.keys
        THEN NumberDefault(stored, c) ELSE columns[c][k]
  BY DEF Materialized
<1> QED BY <1>1, <1>2

\* What a plugin was told of its bucket.
Told(plugin, columns, edit) ==
    /\ restored[plugin].edit = edit
    /\ \A c \in StyledColumns, k \in StyleKeys :
         columns[c][k] # Unset \/ k # "gradient" => restored[plugin].columns[c][k] = columns[c][k]
IsBucket(b) == b = [columns |-> b.columns, edit |-> b.edit]

\* The inductive invariant: a run that waits for the numbers of its snapshot has
\* a push, and without pushes the active plugin knows its bucket, also while a
\* run binds its View.
StylesInv ==
    /\ chosen \in StylePlugins
    /\ buckets = [p \in StylePlugins |-> buckets[p]]
    /\ \A p \in StylePlugins : IsBucket(buckets[p])
    /\ DOMAIN restored = StylePlugins /\ DOMAIN raced = StylePlugins
    /\ run = NoRun \/ run.step \in {"bind", "update", "warm"}
    /\ run.step \in {"bind", "update"} => run.update.kind \in {"default", "missing", "columns"}
    /\ run # NoRun /\ run.step = "warm" => \E p \in pushes : p.kind = "run"
    /\ pushes = {} /\ ~raced[chosen] => Told(chosen, buckets[chosen].columns, buckets[chosen].edit)

\* Restored from the snapshot nobody has overtaken, the plugin knows its bucket.
LEMMA RestoreTells ==
  ASSUME chosen \in StylePlugins, DOMAIN restored = StylePlugins, DOMAIN raced = StylePlugins,
         chosen' = chosen, NEW stored, NEW taken, NEW edit,
         edit \in {taken.edit, buckets'[chosen].edit},
         RestorePlugin(Materialized(stored, taken.columns), edit, taken)
  PROVE  /\ DOMAIN restored' = StylePlugins /\ DOMAIN raced' = StylePlugins
         /\ ~raced'[chosen'] => Told(chosen, buckets[chosen].columns, buckets[chosen].edit)'
<1> DEFINE columns == Materialized(stored, taken.columns)
<1>1. /\ restored' = [restored EXCEPT ![chosen] = [columns |-> columns, edit |-> edit]]
      /\ raced' = [raced EXCEPT ![chosen] = buckets'[chosen] # taken]
  BY DEF RestorePlugin
<1> HIDE DEF columns
<1>2. DOMAIN restored' = StylePlugins /\ DOMAIN raced' = StylePlugins
  BY <1>1
<1>3. restored'[chosen] = [columns |-> columns, edit |-> edit]
  BY <1>1
<1>4. restored'[chosen].edit = edit /\ restored'[chosen].columns = columns
  BY <1>3
<1>5. ASSUME ~raced'[chosen]
      PROVE  buckets'[chosen] = taken
  BY <1>1, <1>5
<1>6. ASSUME ~raced'[chosen]
      PROVE  Told(chosen, buckets[chosen].columns, buckets[chosen].edit)'
  <2>1. buckets'[chosen'] = taken /\ edit = taken.edit
    BY <1>5, <1>6
  <2>2. ASSUME NEW c \in StyledColumns, NEW k \in StyleKeys, taken.columns[c][k] # Unset \/ k # "gradient"
        PROVE  restored'[chosen'].columns[c][k] = taken.columns[c][k]
    BY <1>4, <2>2, MaterializedKeeps DEF columns
  <2> QED BY <1>4, <2>1, <2>2 DEF Told
<1> QED BY <1>2, <1>6

LEMMA PushTells ==
  ASSUME chosen \in StylePlugins, DOMAIN restored = StylePlugins, DOMAIN raced = StylePlugins,
         chosen' = chosen, NEW kind, Push(kind, buckets'[chosen])
  PROVE  /\ DOMAIN restored' = StylePlugins /\ DOMAIN raced' = StylePlugins
         /\ pushes \subseteq pushes'
         /\ pushes' = {} /\ ~raced'[chosen'] => Told(chosen, buckets[chosen].columns, buckets[chosen].edit)'
<1> DEFINE bucket == buckets'[chosen]
           cold == ToWarm(bucket.columns)
           push == [id |-> styleActs', kind |-> kind, taken |-> bucket, plugin |-> chosen, cold |-> cold]
<1>1. CASE cold = {}
  <2>1. RestorePlugin(Materialized(stats, bucket.columns), bucket.edit, bucket) /\ pushes' = pushes
    BY <1>1 DEF Push
  <2> QED BY <2>1, RestoreTells
<1>2. CASE cold # {}
  <2>1. pushes' = pushes \cup {push} /\ restored' = restored /\ raced' = raced
    BY <1>2 DEF Push
  <2> QED BY <2>1
<1> QED BY <1>1, <1>2

LEMMA StylesInitInv == StylesInit => StylesInv
<1> SUFFICES ASSUME StylesInit PROVE StylesInv
  OBVIOUS
<1>1. chosen \in StylePlugins
  BY StylesAssumption DEF StylesInit
<1>2. buckets = [p \in StylePlugins |-> EmptyBucket] /\ restored = buckets
  BY DEF StylesInit
<1>3. ASSUME NEW p \in StylePlugins
      PROVE  buckets[p] = EmptyBucket /\ restored[p] = EmptyBucket
  BY <1>2
<1>4. IsBucket(EmptyBucket)
  BY DEF IsBucket, EmptyBucket
<1>5. DOMAIN restored = StylePlugins /\ DOMAIN raced = StylePlugins /\ run = NoRun /\ run.step = "none"
  BY <1>2 DEF StylesInit, NoRun
<1>6. buckets = [p \in StylePlugins |-> buckets[p]]
  BY <1>2
<1>7. Told(chosen, buckets[chosen].columns, buckets[chosen].edit)
  BY <1>1, <1>3 DEF Told
<1> QED BY <1>1, <1>3, <1>4, <1>5, <1>6, <1>7 DEF StylesInv

\* A bucket that is written stays one.
LEMMA WritesKeepBuckets ==
  ASSUME NEW b, IsBucket(b), NEW p \in StylePlugins,
         buckets = [q \in StylePlugins |-> buckets[q]], \A q \in StylePlugins : IsBucket(buckets[q]),
         buckets' = [buckets EXCEPT ![p] = b]
  PROVE  /\ buckets' = [q \in StylePlugins |-> buckets'[q]]
         /\ \A q \in StylePlugins : IsBucket(buckets'[q])
         /\ buckets'[p] = b
<1>1. DOMAIN buckets = StylePlugins
  OBVIOUS
<1>2. buckets' = [q \in StylePlugins |-> IF q = p THEN b ELSE buckets[q]]
  BY <1>1
<1>3. buckets' = [q \in StylePlugins |-> buckets'[q]]
  BY <1>2
<1>4. ASSUME NEW q \in StylePlugins
      PROVE  IsBucket(buckets'[q])
  <2>1. CASE q = p
    <3>1. buckets'[q] = b
      BY <1>2, <2>1
    <3> QED BY <3>1
  <2>2. CASE q # p
    <3>1. buckets'[q] = buckets[q]
      BY <1>2, <2>2
    <3> QED BY <3>1
  <2> QED BY <2>1, <2>2
<1> QED BY <1>2, <1>3, <1>4

LEMMA UpdatesKeepBucket ==
  ASSUME NEW b, IsBucket(b), NEW plugin, NEW edit, NEW column, NEW update
  PROVE  /\ IsBucket(UpdateColumnField(b, column, update))
         /\ IsBucket(UpdatePlugin(b, plugin, edit))
         /\ IsBucket(UpdatePluginField(b, edit))
         /\ update.kind \in {"default", "missing", "columns"} => IsBucket(UpdateColumns(b, update))
<1>1. ASSUME NEW v
      PROVE  IsBucket([b EXCEPT !.columns = v]) /\ IsBucket([b EXCEPT !.edit = v])
  BY DEF IsBucket
<1>2. IsBucket(UpdateColumnField(b, column, update))
  BY <1>1 DEF UpdateColumnField
<1>3. IsBucket(UpdatePlugin(b, plugin, edit))
  BY <1>1 DEF UpdatePlugin
<1>4. IsBucket(UpdatePluginField(b, edit))
  BY <1>1 DEF UpdatePluginField
<1>5. ASSUME update.kind \in {"default", "missing", "columns"}
      PROVE  IsBucket(UpdateColumns(b, update))
  <2>1. CASE update.kind = "default"
    BY <1>1, <2>1 DEF UpdateColumns
  <2>2. CASE update.kind = "missing"
    BY <2>2 DEF UpdateColumns
  <2>3. CASE update.kind = "columns"
    BY <1>1, <2>3 DEF UpdateColumns
  <2> QED BY <1>5, <2>1, <2>2, <2>3
<1> QED BY <1>2, <1>3, <1>4, <1>5

LEMMA EditColumnKeeps ==
  ASSUME StylesInv, EditColumn
  PROVE  StylesInv'
<1>1. PICK c \in visible : \E update \in FieldUpdates(c) :
         /\ buckets' = [buckets EXCEPT ![chosen] = UpdateColumnField(@, c, update)]
         /\ Push("columns", buckets'[chosen])
  BY DEF EditColumn
<1>2. PICK update \in FieldUpdates(c) :
         /\ buckets' = [buckets EXCEPT ![chosen] = UpdateColumnField(@, c, update)]
         /\ Push("columns", buckets'[chosen])
  BY <1>1
<1>3. chosen' = chosen /\ run' = run
  BY DEF EditColumn
<1> DEFINE b == UpdateColumnField(buckets[chosen], c, update)
<1>4. IsBucket(b)
  BY UpdatesKeepBucket DEF StylesInv
<1>5. buckets' = [buckets EXCEPT ![chosen] = b]
  BY <1>2
<1> HIDE DEF b
<1>6. /\ buckets' = [q \in StylePlugins |-> buckets'[q]]
      /\ \A q \in StylePlugins : IsBucket(buckets'[q])
  BY <1>4, <1>5, WritesKeepBuckets DEF StylesInv
<1> QED BY <1>2, <1>3, <1>6, PushTells DEF StylesInv

LEMMA EditPluginKeeps ==
  ASSUME StylesInv, EditPlugin
  PROVE  StylesInv'
<1>1. PICK edit \in {"read", "edit"} :
         /\ buckets' = [buckets EXCEPT ![chosen] =
                          IF chosen \in EditPlugins THEN UpdatePluginField(@, edit) ELSE UpdatePlugin(@, chosen, edit)]
         /\ IF buckets' # buckets THEN Push("plugin", buckets'[chosen]) ELSE UNCHANGED <<restored, raced, pushes, lookups>>
  BY DEF EditPlugin
<1>2. chosen' = chosen /\ run' = run
  BY DEF EditPlugin
<1>3. CASE buckets' = buckets
  <2>1. restored' = restored /\ raced' = raced /\ pushes' = pushes
    BY <1>1, <1>3
  <2> QED BY <1>2, <1>3, <2>1 DEF StylesInv, Told
<1>4. CASE buckets' # buckets
  <2> DEFINE b == IF chosen \in EditPlugins THEN UpdatePluginField(buckets[chosen], edit) ELSE UpdatePlugin(buckets[chosen], chosen, edit)
  <2>1. IsBucket(b)
    BY UpdatesKeepBucket DEF StylesInv
  <2>2. buckets' = [buckets EXCEPT ![chosen] = b] /\ Push("plugin", buckets'[chosen])
    BY <1>1, <1>4
  <2> HIDE DEF b
  <2>3. /\ buckets' = [q \in StylePlugins |-> buckets'[q]]
        /\ \A q \in StylePlugins : IsBucket(buckets'[q])
    BY <2>1, <2>2, WritesKeepBuckets DEF StylesInv
  <2> QED BY <1>2, <2>2, <2>3, PushTells DEF StylesInv
<1> QED BY <1>3, <1>4

LEMMA WarmedKeeps ==
  ASSUME StylesInv, Warmed
  PROVE  StylesInv'
<1> DEFINE r == Head(lookups)
<1>1. buckets' = buckets /\ chosen' = chosen
  BY DEF Warmed
<1>2. CASE pushes' = pushes /\ restored' = restored /\ raced' = raced /\ run' = run
  BY <1>1, <1>2 DEF StylesInv, Told
<1>3. CASE \E p \in pushes :
             /\ p.id = r.id
             /\ IF p.cold = {r.column}
                THEN /\ pushes' = pushes \ {p}
                     /\ RestorePlugin(Materialized(stats \cup {r.column}, p.taken.columns),
                                      IF p.kind = "columns" THEN buckets[chosen].edit ELSE p.taken.edit, p.taken)
                     /\ run' = IF p.kind = "run" THEN NoRun ELSE run
                ELSE /\ pushes' = (pushes \ {p}) \cup {[p EXCEPT !.cold = @ \ {r.column}]}
                     /\ UNCHANGED <<restored, raced, run>>
  <2>1. PICK p \in pushes :
             IF p.cold = {r.column}
             THEN /\ pushes' = pushes \ {p}
                  /\ RestorePlugin(Materialized(stats \cup {r.column}, p.taken.columns),
                                   IF p.kind = "columns" THEN buckets[chosen].edit ELSE p.taken.edit, p.taken)
                  /\ run' = IF p.kind = "run" THEN NoRun ELSE run
             ELSE /\ pushes' = (pushes \ {p}) \cup {[p EXCEPT !.cold = @ \ {r.column}]}
                  /\ UNCHANGED <<restored, raced, run>>
    BY <1>3
  <2>2. CASE p.cold = {r.column}
    <3> DEFINE edit == IF p.kind = "columns" THEN buckets[chosen].edit ELSE p.taken.edit
    <3>1. pushes' = pushes \ {p} /\ run' = IF p.kind = "run" THEN NoRun ELSE run
      BY <2>1, <2>2
    <3>2. RestorePlugin(Materialized(stats \cup {r.column}, p.taken.columns), edit, p.taken)
      BY <2>1, <2>2
    <3>3. edit \in {p.taken.edit, buckets'[chosen].edit}
      BY <1>1
    <3> HIDE DEF edit, r
    <3>4. /\ DOMAIN restored' = StylePlugins /\ DOMAIN raced' = StylePlugins
          /\ ~raced'[chosen'] => Told(chosen, buckets[chosen].columns, buckets[chosen].edit)'
      BY <1>1, <3>2, <3>3, RestoreTells DEF StylesInv
    <3>5. run' # NoRun /\ run'.step = "warm" => \E q \in pushes' : q.kind = "run"
      BY <3>1 DEF StylesInv
    <3>6. /\ run' = NoRun \/ run'.step \in {"bind", "update", "warm"}
          /\ run'.step \in {"bind", "update"} => run'.update.kind \in {"default", "missing", "columns"}
      BY <3>1 DEF StylesInv, NoRun
    <3> QED BY <1>1, <3>4, <3>5, <3>6 DEF StylesInv
  <2>3. CASE p.cold # {r.column}
    <3> DEFINE q == [p EXCEPT !.cold = @ \ {r.column}]
    <3>1. pushes' = (pushes \ {p}) \cup {q} /\ restored' = restored /\ raced' = raced /\ run' = run
      BY <2>1, <2>3
    <3>2. q.kind = p.kind
      OBVIOUS
    <3> HIDE DEF q, r
    <3> QED BY <1>1, <3>1, <3>2 DEF StylesInv
  <2> QED BY <2>2, <2>3
<1> QED BY <1>2, <1>3 DEF Warmed

LEMMA CommitPluginKeeps ==
  ASSUME StylesInv, CommitPlugin
  PROVE  StylesInv'
<1>1. PICK plugin \in StylePlugins, columns \in {{}, StyledColumns} \cup {{c} : c \in StyledColumns},
           update \in Given, edit \in {"missing", "default", "edit"} :
         /\ run' = [step |-> "bind", id |-> styleActs', swapped |-> plugin # chosen, columns |-> columns,
                    update |-> update, edit |-> edit]
         /\ chosen' = plugin
         /\ IF plugin # chosen
            THEN /\ restored' = [restored EXCEPT ![plugin] = buckets[plugin]]
                 /\ raced' = [raced EXCEPT ![plugin] = FALSE]
            ELSE UNCHANGED <<restored, raced>>
  BY DEF CommitPlugin
<1>2. buckets' = buckets /\ pushes' = pushes
  BY DEF CommitPlugin
<1>3. run'.step = "bind" /\ run'.update.kind \in {"default", "missing", "columns"}
  BY <1>1, StylesAssumption
<1>4. CASE plugin # chosen
  <2>1. restored' = [restored EXCEPT ![plugin] = buckets[plugin]] /\ raced' = [raced EXCEPT ![plugin] = FALSE]
    BY <1>1, <1>4
  <2>2. restored'[chosen'] = buckets'[chosen']
    BY <1>1, <1>2, <2>1 DEF StylesInv
  <2>3. DOMAIN restored' = StylePlugins /\ DOMAIN raced' = StylePlugins
    BY <2>1 DEF StylesInv
  <2>4. Told(chosen, buckets[chosen].columns, buckets[chosen].edit)'
    BY <2>2 DEF Told
  <2> QED BY <1>1, <1>2, <1>3, <2>3, <2>4 DEF StylesInv
<1>5. CASE plugin = chosen
  <2>1. restored' = restored /\ raced' = raced /\ chosen' = chosen
    BY <1>1, <1>5
  <2> QED BY <1>2, <1>3, <2>1 DEF StylesInv, Told
<1> QED BY <1>4, <1>5

LEMMA UpdateBucketsKeeps ==
  ASSUME StylesInv, UpdateBuckets
  PROVE  StylesInv'
<1> DEFINE before == buckets[chosen]
           after == UpdateColumns(UpdatePlugin(before, chosen, run.edit), run.update)
           changed == before.edit # after.edit \/ ColumnsChanged(before, after)
           cold == ToWarm(after.columns)
           push == [id |-> run.id, kind |-> "run", taken |-> after, plugin |-> chosen, cold |-> cold]
<1>1. /\ run.step = "update" /\ chosen' = chosen
      /\ buckets' = [buckets EXCEPT ![chosen] = after]
      /\ IF ~changed /\ ~run.swapped
         THEN run' = NoRun /\ UNCHANGED <<restored, raced, pushes, lookups>>
         ELSE IF cold = {}
         THEN /\ run' = NoRun
              /\ RestorePlugin(Materialized(stats, after.columns), after.edit, after)
              /\ UNCHANGED <<pushes, lookups>>
         ELSE /\ run' = [run EXCEPT !.step = "warm"]
              /\ pushes' = pushes \cup {push}
              /\ UNCHANGED <<restored, raced>>
  BY DEF UpdateBuckets
<1>2. IsBucket(before)
  BY DEF StylesInv
<1>3. IsBucket(UpdatePlugin(before, chosen, run.edit)) /\ run.update.kind \in {"default", "missing", "columns"}
  BY <1>1, <1>2, UpdatesKeepBucket DEF StylesInv
<1>4. IsBucket(after)
  BY <1>3, UpdatesKeepBucket
<1>5. ~changed => after = before
  BY <1>2, <1>4 DEF IsBucket, ColumnsChanged
<1> HIDE DEF after, before
<1>6. /\ buckets' = [q \in StylePlugins |-> buckets'[q]]
      /\ \A q \in StylePlugins : IsBucket(buckets'[q])
      /\ buckets'[chosen] = after
  BY <1>1, <1>4, WritesKeepBuckets DEF StylesInv
<1>7. NoRun.step = "none"
  BY DEF NoRun
<1>8. CASE ~changed /\ ~run.swapped
  <2>1. run' = NoRun /\ restored' = restored /\ raced' = raced /\ pushes' = pushes
    BY <1>1, <1>8
  <2>2. buckets'[chosen] = buckets[chosen]
    BY <1>5, <1>6, <1>8 DEF before
  <2> QED BY <1>1, <1>6, <1>7, <2>1, <2>2 DEF StylesInv, Told
<1>9. CASE ~(~changed /\ ~run.swapped) /\ cold = {}
  <2>1. /\ run' = NoRun /\ pushes' = pushes
        /\ RestorePlugin(Materialized(stats, after.columns), after.edit, after)
    BY <1>1, <1>9
  <2>2. /\ DOMAIN restored' = StylePlugins /\ DOMAIN raced' = StylePlugins
        /\ ~raced'[chosen'] => Told(chosen, buckets[chosen].columns, buckets[chosen].edit)'
    BY <1>1, <2>1, RestoreTells DEF StylesInv
  <2> QED BY <1>1, <1>6, <1>7, <2>1, <2>2 DEF StylesInv
<1>10. CASE ~(~changed /\ ~run.swapped) /\ cold # {}
  <2>1. run' = [run EXCEPT !.step = "warm"] /\ pushes' = pushes \cup {push} /\ restored' = restored /\ raced' = raced
    BY <1>1, <1>10
  <2>2. push.kind = "run"
    OBVIOUS
  <2>3. run'.step = "warm"
    BY <1>1, <1>7, <2>1 DEF StylesInv
  <2> HIDE DEF push
  <2> QED BY <1>1, <1>6, <2>1, <2>2, <2>3 DEF StylesInv
<1> QED BY <1>8, <1>9, <1>10

LEMMA StylesStepInv == StylesInv /\ [StylesNext]_styleVars => StylesInv'
<1> SUFFICES ASSUME StylesInv, [StylesNext]_styleVars PROVE StylesInv'
  OBVIOUS
<1>1. ASSUME UNCHANGED <<buckets, restored, chosen, pushes, run, raced>>
      PROVE  StylesInv'
  BY <1>1 DEF StylesInv, Told
<1>2. CASE UNCHANGED styleVars
  BY <1>1, <1>2 DEF styleVars
<1>3. CASE OpenStyles
  BY <1>1, <1>3 DEF OpenStyles
<1>4. CASE Bound
  <2>1. UNCHANGED <<buckets, restored, chosen, pushes, raced>>
    BY <1>4 DEF Bound
  <2>2. run.step = "bind" /\ run' = [run EXCEPT !.step = "update"]
    BY <1>4 DEF Bound
  <2>3. run'.step = "update" /\ run'.update = run.update
    BY <2>2 DEF StylesInv, NoRun
  <2> QED BY <2>1, <2>2, <2>3 DEF StylesInv, Told
<1>5. CASE BindFails
  <2>1. UNCHANGED <<buckets, restored, chosen, pushes, raced>> /\ run' = NoRun /\ NoRun.step = "none"
    BY <1>5 DEF BindFails, NoRun
  <2> QED BY <2>1 DEF StylesInv, Told
<1> QED
  BY <1>2, <1>3, <1>4, <1>5, EditColumnKeeps, EditPluginKeeps, WarmedKeeps, CommitPluginKeeps, UpdateBucketsKeeps
  DEF StylesNext

\* A key has one field, and what stands for its default is not Unset.
LEMMA OneField ==
  ASSUME NEW column, NEW current, NEW k,
         NEW s \in DeclaredKeys(stats, column, current), k \in s.keys,
         NEW t \in DeclaredKeys(stats, column, current), k \in t.keys
  PROVE  s = t /\ s.default # Unset
<1>1. ASSUME NEW x \in DeclaredKeys(stats, column, current)
      PROVE  \/ x = Spec("Enum", {"mode"}, "plain", FALSE)
             \/ x = Spec("ColorRange", {"pos", "neg"}, "c0", FALSE)
             \/ x = Spec("Number", {"gradient"}, NumberDefault(stats, column), TRUE)
  BY DEF DeclaredKeys
<1>2. NumberDefault(stats, column) \in {"largest", "zero"}
  BY DEF NumberDefault
<1>3. ASSUME NEW x \in DeclaredKeys(stats, column, current), k \in x.keys
      PROVE  /\ k = "mode" => x = Spec("Enum", {"mode"}, "plain", FALSE)
             /\ k \in {"pos", "neg"} => x = Spec("ColorRange", {"pos", "neg"}, "c0", FALSE)
             /\ k = "gradient" => x = Spec("Number", {"gradient"}, NumberDefault(stats, column), TRUE)
             /\ k \in {"mode", "pos", "neg", "gradient"}
             /\ x.default # Unset
  BY <1>1, <1>2, <1>3 DEF Spec, Unset
<1>4. s.default # Unset /\ k \in {"mode", "pos", "neg", "gradient"}
  BY <1>3
<1>5. s = t
  <2>1. CASE k = "mode"
    BY <1>3, <2>1
  <2>2. CASE k \in {"pos", "neg"}
    BY <1>3, <2>2
  <2>3. CASE k = "gradient"
    BY <1>3, <2>3
  <2> QED BY <1>4, <2>1, <2>2, <2>3
<1> QED BY <1>4, <1>5

\* Stripping its defaults leaves a config what it is to the plugin.
LEMMA StrippedIsTheSame ==
  ASSUME HasSchema, NEW c \in visible, NEW config
  PROVE  Effective(c, Stripped(c, config)) = Effective(c, config)
<1> DEFINE declared == ColumnSchema(c, config)
           kept == Stripped(c, config)
           field(k) == CHOOSE s \in declared : k \in s.keys
           default(k) == IF field(k).include THEN "auto" ELSE field(k).default
<1>1. declared = DeclaredKeys(stats, c, config)
  BY DEF ColumnSchema, SchemaWith
<1>2. kept = StripDefaults(declared, FilterToSchema(declared, config))
  BY DEF Stripped
<1>3. ActiveKeys(declared) \subseteq StyleKeys
  BY KeysOfColumn DEF ActiveKeys, ColumnSchema
<1>4. ASSUME NEW k \in ActiveKeys(declared)
      PROVE  kept[k] = IF MatchesDefault(declared, k, config[k]) THEN Unset ELSE config[k]
  <2>1. FilterToSchema(declared, config)[k] = config[k]
    BY <1>3 DEF FilterToSchema
  <2> QED BY <1>2, <1>3, <2>1 DEF StripDefaults
<1>5. Spec("Enum", {"mode"}, "plain", FALSE) \in declared
  BY <1>1 DEF DeclaredKeys
<1>6. "mode" \in ActiveKeys(declared)
  <2>1. "mode" \in Spec("Enum", {"mode"}, "plain", FALSE).keys
    BY DEF Spec
  <2> QED BY <1>5, <2>1 DEF ActiveKeys
<1>7. MatchesDefault(declared, "mode", config["mode"]) => config["mode"] = "plain"
  <2> SUFFICES ASSUME MatchesDefault(declared, "mode", config["mode"]) PROVE config["mode"] = "plain"
    OBVIOUS
  <2>1. PICK s \in declared : "mode" \in s.keys /\ config["mode"] = s.default
    BY DEF MatchesDefault
  <2>2. "mode" \in Spec("Enum", {"mode"}, "plain", FALSE).keys /\ Spec("Enum", {"mode"}, "plain", FALSE).default = "plain"
    BY DEF Spec
  <2> DEFINE mode == Spec("Enum", {"mode"}, "plain", FALSE)
  <2>3. s \in DeclaredKeys(stats, c, config) /\ mode \in DeclaredKeys(stats, c, config)
    BY <1>1, <1>5, <2>1
  <2>4. "mode" \in mode.keys /\ mode.default = "plain"
    BY <2>2
  <2> HIDE DEF mode
  <2>5. s = mode
    BY <2>1, <2>3, <2>4, OneField
  <2> QED BY <2>1, <2>4, <2>5
<1>8. kept["mode"] = "gradient" <=> config["mode"] = "gradient"
  BY <1>4, <1>6, <1>7 DEF Unset
<1>9. ColumnSchema(c, kept) = declared
  BY <1>8 DEF ColumnSchema, SchemaWith, DeclaredKeys
<1>10. ASSUME NEW k \in ActiveKeys(declared)
       PROVE  (IF kept[k] = Unset THEN default(k) ELSE kept[k]) = (IF config[k] = Unset THEN default(k) ELSE config[k])
  <2>1. CASE MatchesDefault(declared, k, config[k])
    <3>1. PICK s \in declared : k \in s.keys /\ ~s.include /\ config[k] = s.default
      BY <2>1 DEF MatchesDefault
    <3>2. field(k) \in declared /\ k \in field(k).keys
      BY <3>1
    <3> DEFINE f == field(k)
    <3>3. /\ f \in DeclaredKeys(stats, c, config) /\ k \in f.keys
          /\ s \in DeclaredKeys(stats, c, config) /\ k \in s.keys
      BY <1>1, <3>1, <3>2
    <3> HIDE DEF f
    <3>4. f = s /\ s.default # Unset
      BY <3>3, OneField
    <3>5. default(k) = config[k]
      BY <3>1, <3>4 DEF f
    <3>6. kept[k] = Unset /\ config[k] # Unset
      BY <1>4, <2>1, <3>1, <3>4
    <3> QED BY <3>5, <3>6
  <2>2. CASE ~MatchesDefault(declared, k, config[k])
    <3>1. kept[k] = config[k]
      BY <1>4, <2>2
    <3> QED BY <3>1
  <2> QED BY <2>1, <2>2
<1>11. Effective(c, kept) = [k \in ActiveKeys(declared) |-> IF kept[k] = Unset THEN default(k) ELSE kept[k]]
  BY <1>9 DEF Effective
<1>12. Effective(c, config) = [k \in ActiveKeys(declared) |-> IF config[k] = Unset THEN default(k) ELSE config[k]]
  BY DEF Effective
<1> HIDE DEF default, field, declared, kept
<1> QED BY <1>10, <1>11, <1>12 DEF kept

\* What is kept of the styles, what is saved of them and what the active plugin
\* was given agree, whatever was edited, restored or swapped while the numbers
\* for a push were awaited.
THEOREM StylesStayAgreed == StylesSpec => []StylesAgree
<1>1. SavedStylesComeBack
  BY StrippedIsTheSame DEF SavedStylesComeBack
<1>2. StylesInv => ChangesArePushed
  BY DEF StylesInv, ChangesArePushed, Told, NoRun
<1>3. StylesInv => StylesAgree
  BY <1>1, <1>2 DEF StylesAgree
<1> QED BY <1>3, StylesInitInv, StylesStepInv, PTL DEF StylesSpec
=============================================================================
