------------------------------ MODULE MultiSelect ------------------------------
(***************************************************************************)
(* The multi-select picker of the web client                               *)
(* (website/components/ui/multi-selector.tsx), with the props its only     *)
(* user gives it: hideSelectAll, searchable, maxCount, and                 *)
(* resetOnDefaultValueChange = false, so that after it is mounted its      *)
(* selection is its own and no later default reaches it.                   *)
(*                                                                         *)
(* An action that changes the selection ends in onValueChange.  The module *)
(* leaves the callback to its user, who conjoins it to `Picks'.            *)
(***************************************************************************)
EXTENDS SequencesExt

CONSTANTS
  Options,    \* the values of the options of all groups
  MaxCount,   \* the badges shown before "+ n more" (prop maxCount)
  Texts,      \* what can be typed into the search box
  Found       \* Found[t]: the options the list shows for the text t

(* The empty search box.                                                   *)
NoText == "no text"

ASSUME MultiSelectAssumption ==
  /\ MaxCount \in Nat
  /\ NoText \notin Texts
  /\ Found \in [Texts -> SUBSET Options]

VARIABLES
  selectedValues,   \* the selection, in the order it was made
  isPopoverOpen,
  searchValue

pickerVars == <<selectedValues, isPopoverOpen, searchValue>>

PickerTypeOK ==
  /\ selectedValues \in Seq(Options)
  /\ IsInjective(selectedValues)
  /\ isPopoverOpen \in BOOLEAN
  /\ searchValue \in Texts \cup {NoText}

Unmounted ==
  /\ selectedValues = <<>>
  /\ isPopoverOpen = FALSE
  /\ searchValue = NoText

(* The component leaves the page and its state is lost.                    *)
Unmount == selectedValues' = <<>> /\ isPopoverOpen' = FALSE /\ searchValue' = NoText

(* The component appears and starts from defaultValue.  The order of its   *)
(* values is the caller's; here it is any.                                 *)
Mount(defaultValue) ==
  /\ selectedValues' \in SetToSeqs(defaultValue)
  /\ isPopoverOpen' = FALSE
  /\ searchValue' = NoText

--------------------------------------------------------------------------------
(* filteredOptions: what the list shows for the text in the search box.    *)
filteredOptions == IF searchValue = NoText THEN Options ELSE Found[searchValue]

(* Without the prop responsive the width of the window does not matter.    *)
responsiveSettings == [maxCount |-> MaxCount]

(* Options whose badge is drawn, and the badge of what is left over.       *)
badges ==
  {selectedValues[i] : i \in {j \in DOMAIN selectedValues : j <= responsiveSettings.maxCount}}
hasMoreBadge == Len(selectedValues) > responsiveSettings.maxCount

(* Mutant: a value that is selected already is appended again.             *)
toggleOptionAppends(value) == selectedValues' = Append(selectedValues, value)

(* toggleOption: a selected value is filtered out (it occurs once), another *)
(* one is appended.                                                        *)
toggleOption(value) ==
  \/ /\ value \notin Range(selectedValues)
     /\ selectedValues' = Append(selectedValues, value)
  \/ \E i \in DOMAIN selectedValues :
       /\ selectedValues[i] = value
       /\ selectedValues' = RemoveAt(selectedValues, i)

(* An option of the open list is chosen.                                   *)
SelectItem(value) ==
  /\ isPopoverOpen
  /\ value \in filteredOptions
  /\ toggleOption(value)

(* The cross of a badge removes its value.                                 *)
RemoveBadge(value) == value \in badges /\ toggleOption(value)

(* Backspace in an empty search box takes the last value off; with nothing *)
(* selected the callback is called all the same.                           *)
PopLast ==
  /\ isPopoverOpen
  /\ searchValue = NoText
  /\ selectedValues' = IF selectedValues = <<>> THEN <<>> ELSE Front(selectedValues)

(* handleClear, by the cross of the trigger or the "Clear" item.           *)
handleClear == selectedValues # <<>> /\ selectedValues' = <<>>

(* The cross of the "+ n more" badge keeps the values with a badge.        *)
clearExtraOptions ==
  /\ hasMoreBadge
  /\ selectedValues' = SubSeq(selectedValues, 1, responsiveSettings.maxCount)

(* Everything that ends in onValueChange.                                  *)
Picks ==
  /\ \/ \E value \in Options : SelectItem(value) \/ RemoveBadge(value)
     \/ PopLast
     \/ handleClear
     \/ clearExtraOptions
  /\ UNCHANGED <<isPopoverOpen, searchValue>>

(* A list that is closed empties the search box.                           *)
setIsPopoverOpen(isOpen) ==
  /\ isPopoverOpen' = isOpen
  /\ searchValue' = IF isOpen THEN searchValue ELSE NoText
  /\ UNCHANGED selectedValues

handleTogglePopover == setIsPopoverOpen(~isPopoverOpen)

(* The trigger; Escape, a click elsewhere and the "Close" item.  Enter in  *)
(* the search box opens a list that is open already.                       *)
PopoverTrigger == handleTogglePopover
PopoverContent == isPopoverOpen /\ setIsPopoverOpen(FALSE)

setSearchValue(text) ==
  /\ isPopoverOpen
  /\ text # searchValue
  /\ searchValue' = text
  /\ UNCHANGED <<selectedValues, isPopoverOpen>>

Browses ==
  \/ PopoverTrigger \/ PopoverContent
  \/ \E text \in Texts \cup {NoText} : setSearchValue(text)

--------------------------------------------------------------------------------
(* announce: what a screen reader is told of a step, from the length of    *)
(* the selection before and after it and from what is now at its end.  Of  *)
(* two messages it hears the later: "Dropdown opened" or "closed".         *)
SaysSelected(value) ==
  /\ Len(selectedValues') = Len(selectedValues) + 1
  /\ selectedValues'[Len(selectedValues')] = value

SaysRemoved == Len(selectedValues') < Len(selectedValues)
SaysToggled == isPopoverOpen' # isPopoverOpen
================================================================================
