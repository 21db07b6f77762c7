----------------------------- MODULE Dropdowns -----------------------------
(***************************************************************************)
(* The dropdowns of the settings panel: the values suggested for a         *)
(* filter's input, which are fetched from the server, and the columns      *)
(* suggested for an empty row's input, to which an expression is added     *)
(* once the server found it valid. The inputs share the dropdown.          *)
(***************************************************************************)
EXTENDS Naturals, Sequences, FiniteSets
LOCAL INSTANCE SequencesExt

CONSTANTS FilterColumns, \* columns that a filter can be on
          ValuesOf,      \* the values of each, in order
          RowInputs,     \* the inputs of empty rows that share a dropdown
          Columns,       \* the columns suggested, in order
          ValidTexts,    \* texts that are valid expressions
          OtherTexts,    \* texts that are neither
          MaxKeys        \* bound: keys pressed, clicks

ASSUME DropdownsAssumption ==
    /\ ValuesOf \in [FilterColumns -> Seq(STRING)]
    /\ IsInjective(Columns) /\ \A c \in FilterColumns : IsInjective(ValuesOf[c])
    /\ Columns \in Seq(STRING) /\ ValidTexts \subseteq STRING \ {""}
    /\ MaxKeys \in Nat

VARIABLES filters,  \* the rows of the filters: their columns and terms
          focused,  \* the input with focus: a filter row, an empty row, or none
          suggest,  \* FilterDropDownElement
          fetches,  \* get_column_values that are under way
          texts,    \* what the empty rows' inputs hold
          offer,    \* ColumnDropDownState
          checks,   \* validate_expr that are under way
          picked,   \* the last pick: by which input, from which list
          keys      \* keys so far

dropVars == <<filters, focused, suggest, fetches, texts, offer, checks, picked, keys>>

Nothing == <<>>
NoPick == [input |-> Nothing, row |-> Nothing]

DropInit ==
    /\ \E c, d \in FilterColumns : filters = <<[column |-> c, term |-> ""], [column |-> d, term |-> ""]>>
    /\ focused = Nothing
    /\ suggest = [values |-> <<>>, selected |-> 0, on_select |-> Nothing, target |-> Nothing,
                  column |-> Nothing, all |-> Nothing]
    /\ fetches = {}
    /\ texts = [i \in RowInputs |-> ""]
    /\ offer = [values |-> <<>>, selected |-> 0, on_select |-> Nothing, target |-> Nothing, no_results |-> FALSE]
    /\ checks = {}
    /\ picked = NoPick
    /\ keys = 0

----------------------------------------------------------------------------
(* Suggestions for a filter.                                               *)

\* The entries of a list that contain a text: all, if it is empty; no entry
\* contains another.
Containing(text, list) == IF text = "" THEN list ELSE IF text \in ToSet(list) THEN <<text>> ELSE <<>>

\* filter_values: those that contain the input.
Matching(input, column) == IF column = Nothing THEN <<>> ELSE Containing(input, ValuesOf[column[1]])

Hidden(dropdown) == [dropdown EXCEPT !.target = Nothing, !.column = Nothing]

MutSuggest(row, input) ==
    LET column == <<filters[row].column>>
        values == Matching(input, suggest.all)
    IN IF suggest.column = <<row>> \o column
       THEN /\ suggest' = [suggest EXCEPT !.values = values, !.selected = 0,
                                          !.on_select = <<row>> \o column, !.target = <<row>>]
            /\ UNCHANGED fetches
       ELSE /\ suggest' = [suggest EXCEPT !.column = <<row>> \o column]
            /\ fetches' = fetches \cup {[row |-> row, column |-> column, input |-> input]}

\* autocomplete: of the column whose values are known, or after a fetch.
Suggest(row, input) ==
    LET column == <<filters[row].column>>
        values == Matching(input, suggest.all)
    IN IF suggest.column = <<row>> \o column
       THEN /\ suggest' = IF values = <<input>> THEN Hidden(suggest)
                          ELSE [suggest EXCEPT !.values = values, !.selected = 0,
                                  !.on_select = <<row>> \o column,
                                  !.target = IF @ = Nothing THEN <<row>> ELSE @]
            /\ UNCHANGED fetches
       ELSE /\ fetches' = fetches \cup {[row |-> row, column |-> column, input |-> input]}
            /\ UNCHANGED suggest

Key == keys < MaxKeys /\ keys' = keys + 1
OffersStay == UNCHANGED <<texts, offer, checks>>

\* FilterInput, of the row that takes the focus or is typed in.
TypeInFilter ==
    /\ Key
    /\ \E row \in DOMAIN filters :
         /\ focused \in {Nothing, <<"filter", row>>}
         /\ focused' = <<"filter", row>>
         /\ \E input \in {filters[row].term} \cup (IF focused = Nothing THEN {} ELSE ToSet(ValuesOf[filters[row].column])) :
              /\ Suggest(row, input)
              /\ filters' = [filters EXCEPT ![row].term = input]
    /\ picked' = NoPick
    /\ OffersStay

\* The values arrive.  If they are just what was typed, the list stays shut.
Fetched ==
    /\ \E f \in fetches :
         LET values == Matching(f.input, f.column)
             shut == values = <<f.input>>
         IN /\ fetches' = fetches \ {f}
            /\ suggest' = [values |-> IF shut THEN Matching("", f.column) ELSE values, selected |-> 0,
                           on_select |-> <<f.row>> \o f.column, target |-> IF shut THEN Nothing ELSE <<f.row>>,
                           column |-> <<f.row>> \o f.column, all |-> f.column]
    /\ picked' = NoPick
    /\ UNCHANGED <<filters, focused, keys>> /\ OffersStay

FetchFails ==
    /\ \E f \in fetches : fetches' = fetches \ {f}
    /\ picked' = NoPick
    /\ UNCHANGED <<filters, focused, suggest, keys>> /\ OffersStay

\* SetFilterValue, of the row that the list was made for.
SetFilterValue(list) ==
    IF list.selected < Len(list.values) /\ list.on_select # Nothing
    THEN /\ picked' = [input |-> focused, row |-> list.on_select]
         /\ filters' = IF list.on_select[1] \in DOMAIN filters
                       THEN [filters EXCEPT ![list.on_select[1]].term = list.values[list.selected + 1]] ELSE filters
    ELSE picked' = NoPick /\ UNCHANGED filters

\* item_down, item_up.
Moved(list, key) ==
    LET n == Len(list.values)
    IN [list EXCEPT !.selected =
          CASE key = "down" -> IF @ + 1 >= n THEN 0 ELSE @ + 1
            [] key = "up"   -> (IF @ < 1 THEN n ELSE @) - 1
            [] OTHER -> @]

\* FilterKeyDown: the arrows select at once; Enter shuts the list.
KeyInFilter ==
    /\ Key /\ focused # Nothing /\ focused[1] = "filter"
    /\ \E key \in {"down", "up", "enter"} :
         /\ key = "up" => suggest.values # <<>> \* an empty list has no last
         /\ LET list == Moved(suggest, key)
            IN /\ suggest' = IF key = "enter" THEN Hidden(list) ELSE list
               /\ SetFilterValue(list)
    /\ UNCHANGED <<focused, fetches>> /\ OffersStay

\* A value is clicked in the list that is shown.
ClickSuggestion ==
    /\ Key /\ suggest.target # Nothing
    /\ \E i \in 0..(Len(suggest.values) - 1) : SetFilterValue([suggest EXCEPT !.selected = i])
    /\ UNCHANGED <<focused, suggest, fetches>> /\ OffersStay

BlurFilter ==
    /\ focused # Nothing /\ focused[1] = "filter"
    /\ focused' = Nothing
    /\ suggest' = Hidden(suggest)
    /\ picked' = NoPick
    /\ UNCHANGED <<filters, fetches, keys>> /\ OffersStay

\* Close of a row; the pointer takes the focus from the inputs.
CloseFilterRow ==
    /\ Key /\ focused = Nothing
    /\ \E row \in DOMAIN filters : filters' = RemoveAt(filters, row)
    /\ suggest' = Hidden(suggest)
    /\ picked' = NoPick
    /\ UNCHANGED <<focused, fetches>> /\ OffersStay

----------------------------------------------------------------------------
(* Columns for an empty row.                                               *)

SuggestsStay == UNCHANGED <<filters, suggest, fetches>>
Shut(dropdown) == [dropdown EXCEPT !.target = Nothing]

\* autocomplete: the columns that contain the text; is it an expression?
Offer(i, text) ==
    LET values == Containing(text, Columns)
    IN /\ offer' = [values |-> values, selected |-> 0, on_select |-> <<i>>, target |-> <<i>>,
                    no_results |-> values = <<>>]
       /\ checks' = checks \cup {[input |-> i, text |-> text]}

TypeInRow ==
    /\ Key
    /\ \E i \in RowInputs, text \in {""} \cup ToSet(Columns) \cup ValidTexts \cup OtherTexts :
         /\ focused = <<"row", i>> /\ text # texts[i]
         /\ texts' = [texts EXCEPT ![i] = text]
         /\ Offer(i, text)
    /\ picked' = NoPick
    /\ UNCHANGED focused /\ SuggestsStay

FocusRow ==
    /\ Key /\ focused = Nothing
    /\ \E i \in RowInputs : focused' = <<"row", i>>
    /\ picked' = NoPick
    /\ UNCHANGED <<texts, offer, checks>> /\ SuggestsStay

\* The text is still there when the answer comes.
StillTyped(c) == texts[c.input] = c.text

\* The server says whether the text is valid, or the request fails.
Checked ==
    /\ \E c \in checks, fails \in BOOLEAN :
         /\ checks' = checks \ {c}
         /\ offer' = IF ~fails /\ c.text \in ValidTexts /\ StillTyped(c)
                     THEN [offer EXCEPT !.values = Append(@, c.text), !.no_results = FALSE] ELSE offer
    /\ picked' = NoPick
    /\ UNCHANGED <<focused, texts, keys>> /\ SuggestsStay

\* item_select hands the value to the row that the list was made for.
KeyInRow ==
    /\ Key /\ focused # Nothing /\ focused[1] = "row"
    /\ \E key \in {"down", "up", "enter"} :
         /\ key = "up" => offer.values # <<>>
         /\ offer' = IF key = "enter" THEN Shut(offer) ELSE Moved(offer, key)
         /\ picked' = IF key = "enter" /\ offer.selected < Len(offer.values) /\ offer.on_select # Nothing
                      THEN [input |-> focused, row |-> offer.on_select] ELSE NoPick
    /\ UNCHANGED <<focused, texts, checks>> /\ SuggestsStay

ClickOffer ==
    /\ Key /\ offer.target # Nothing
    /\ offer.values # <<>>
    /\ picked' = [input |-> focused, row |-> offer.on_select]
    /\ UNCHANGED <<focused, texts, offer, checks>> /\ SuggestsStay

\* Blur empties the input; a new config blurs it.
BlurRow ==
    /\ focused # Nothing /\ focused[1] = "row"
    /\ texts' = [texts EXCEPT ![focused[2]] = ""]
    /\ offer' = Shut(offer)
    /\ focused' = Nothing
    /\ picked' = NoPick
    /\ UNCHANGED <<checks, keys>> /\ SuggestsStay

DropNext ==
    \/ TypeInFilter \/ Fetched \/ FetchFails \/ KeyInFilter \/ ClickSuggestion \/ BlurFilter \/ CloseFilterRow
    \/ TypeInRow \/ FocusRow \/ Checked \/ KeyInRow \/ ClickOffer \/ BlurRow

DropSpec == DropInit /\ [][DropNext]_dropVars
----------------------------------------------------------------------------
(* Properties.                                                             *)

(* The values listed are of the column of the row that they are handed to, *)
(* and so are those kept for the next key, although the fetches of several *)
(* rows are answered in any order, after blurs and other rows' lists.      *)
SuggestionsAreOfTheirColumn ==
    /\ suggest.on_select # Nothing =>
         ToSet(suggest.values) \subseteq ToSet(ValuesOf[suggest.on_select[2]])
    /\ suggest.column # Nothing => suggest.all = <<suggest.column[2]>>

(* An expression that is offered is what the input of the list holds, and  *)
(* is valid: an answer for a text that was retyped, or left, is dropped.   *)
OffersAreTyped ==
    offer.target # Nothing =>
        \A v \in ToSet(offer.values) \ ToSet(Columns) : v \in ValidTexts /\ texts[offer.target[1]] = v

(* A value that is picked by a key goes to the row that has the focus. The *)
(* code keeps the list of the row that was left: the arrows, in a filter,  *)
(* and Enter, in an empty row, pick from it.                               *)
PicksAreForTheFocus ==
    [][(KeyInFilter \/ KeyInRow) /\ picked'.input # Nothing => picked'.row[1] = picked'.input[2]]_dropVars

(* A value that is picked goes to a filter on its column.  The code keeps  *)
(* the index that the row had when it asked.                               *)
PicksFitTheFilter ==
    [][picked'.input # Nothing /\ picked'.input[1] = "filter" =>
         /\ picked'.row[1] \in DOMAIN filters
         /\ filters[picked'.row[1]].column = picked'.row[2]]_dropVars

(* What a list offers is for the row and the text that it stands under,    *)
(* whatever was answered late (filter dropdown and column dropdown).       *)
OffersFit == SuggestionsAreOfTheirColumn /\ OffersAreTyped
=============================================================================
